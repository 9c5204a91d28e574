----------------------------- MODULE JSONReader -----------------------------
(***************************************************************************)
(* The reader of graph documents (graph_executor/load_json.c).  It keeps a *)
(* position in the text and, for each array and object it is inside of,    *)
(* the number of items it has begun: before the first item no comma is     *)
(* expected.  It never fails: what is not as expected is printed, and      *)
(* reading goes on.                                                        *)
(*                                                                         *)
(* The text is a sequence of tokens: [is |-> "string", of |-> ..,          *)
(* len |-> ..], numbers, and the signs { } [ ] , : as tokens of their own. *)
(* Documents are complete, nested less deep than the reader's stacks have  *)
(* room for, and their strings have no escapes (bounds).                   *)
(***************************************************************************)
EXTENDS Integers, Sequences

LOCAL INSTANCE SequencesExt

(* JSONReader_Create.  lost: a string was not read to its end. *)
Create(text) == [text |-> text, at |-> 1, scopes |-> <<>>, lost |-> FALSE]

PeekNextNonSpace(reader) == reader.text[reader.at]
Skip(reader) == [reader EXCEPT !.at = @ + 1]

(* BeginArray, BeginObject *)
Begin(reader) == [Skip(reader) EXCEPT !.scopes = Append(@, 0)]

(* NextArrayItem, and the part of NextObjectItem before the key. *)
NextItem(reader, close) ==
  IF PeekNextNonSpace(reader).is = close
  THEN [has |-> FALSE, reader |-> [Skip(reader) EXCEPT !.scopes = Front(@)]]
  ELSE LET begun == Last(reader.scopes)
           next  == IF begun = 0 THEN reader ELSE Skip(reader)
       IN  [has |-> TRUE, reader |-> [next EXCEPT !.scopes = Append(Front(@), begun + 1)]]

NextArrayItem(reader) == NextItem(reader, "]")

(* ReadString gives up one byte before the buffer is full, and leaves the   *)
(* reader inside the string: everything after it is misread.  What is read  *)
(* is never an error.                                                       *)
ReadString(reader, size) ==
  LET string == PeekNextNonSpace(reader) IN
  [value |-> string.of, ok |-> TRUE,
   reader |-> [Skip(reader) EXCEPT !.lost = @ \/ string.len >= size - 1]]

(* ReadUnsignedInteger, ReadInteger: strtol takes nothing that is no number. *)
ReadInteger(reader) ==
  LET number == PeekNextNonSpace(reader) IN
  IF number.is = "number" THEN [value |-> number.of, ok |-> TRUE, reader |-> Skip(reader)]
                          ELSE [value |-> 0, ok |-> TRUE, reader |-> reader]

(* The key and its colon. *)
PastKey(key) == [has |-> TRUE, key |-> key.value, reader |-> Skip(key.reader)]

NextObjectItem(reader, size) ==
  LET next == NextItem(reader, "}") IN
  IF next.has THEN PastKey(ReadString(next.reader, size))
              ELSE [has |-> FALSE, key |-> "", reader |-> next.reader]

(* ArrayLength reads ahead to the end of the array, through everything that *)
(* is in it: open has the closing signs of what it is inside of.  Strings   *)
(* are discarded, however long.                                             *)
Discarded == 100000
RECURSIVE ReadAhead(_, _, _)

ReadOver(reader, open, length) ==
  CASE PeekNextNonSpace(reader).is = "[" -> ReadAhead(Begin(reader), Append(open, "]"), length)
    [] PeekNextNonSpace(reader).is = "{" -> ReadAhead(Begin(reader), Append(open, "}"), length)
    [] OTHER -> ReadAhead(Skip(reader), open, length)

ReadOn(next, open, length) ==
  IF next.has THEN ReadOver(next.reader, open, IF Len(open) = 1 THEN length + 1 ELSE length)
  ELSE IF Len(open) > 1 THEN ReadAhead(next.reader, Front(open), length)
  ELSE [length |-> length, reader |-> next.reader]

ReadAhead(reader, open, length) ==
  ReadOn(IF Last(open) = "]" THEN NextArrayItem(reader) ELSE NextObjectItem(reader, Discarded),
         open, length)

(* The position is restored, and the scope that the end of the array has    *)
(* closed is opened again with the count it had.                            *)
Restored(reader, ahead) ==
  [length |-> ahead.length,
   reader |-> [reader EXCEPT !.scopes = Append(ahead.reader.scopes, Last(@))]]
ArrayLength(reader) == Restored(reader, ReadAhead(reader, <<"]">>, 0))
=============================================================================
