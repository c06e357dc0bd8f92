------------------------------ MODULE SdkReply ------------------------------
(***************************************************************************)
(* Decoding an sdk/message reply (crypto.py, sdk_client.py, pairing.py).   *)
(* The hub never sends its IV, so that the first sixteen characters of the *)
(* plaintext are lost, and the client guesses what they were.  A text is a *)
(* sequence of tokens with widths: punctuation, and runs of characters     *)
(* without a quote.  What JSON makes of a text is what JSON does.          *)
(***************************************************************************)
EXTENDS Integers, Sequences, SequencesExt

CONSTANTS
  NameLengths,    \* the lengths of field names
  StringLengths,  \* the lengths of string values
  NumberLengths   \* the lengths of numbers

ASSUME LengthsAssumption ==
  NameLengths \cup StringLengths \cup NumberLengths \subseteq Nat \ {0}

Lost == 16        \* the AES block
-----------------------------------------------------------------------------
(* Texts.                                                                  *)

Mark(t) == [kind |-> t, width |-> 1, id |-> t]
Word(id, n) == [kind |-> "word", width |-> n, id |-> id]
Number(id, n) == [kind |-> "number", width |-> n, id |-> id]

Q == Mark("quote")
Quoted(word) == <<Q, word, Q>>
Field(word, value) == Quoted(word) \o <<Mark("colon")>> \o value
Braces(fields) == <<Mark("lbrace")>> \o fields \o <<Mark("rbrace")>>
Brackets(items) == <<Mark("lbracket")>> \o items \o <<Mark("rbracket")>>
Also == <<Mark("comma")>>

Names(id) == {Word(id, n) : n \in NameLengths}
Scalars(id) ==
  {Quoted(Word(id, n)) : n \in StringLengths} \cup
  {<<Number(id, n)>> : n \in NumberLengths}
Fields(name, value) == {Field(w, v) : w \in Names(name), v \in Scalars(value)}

Objects ==
  {Braces(f) : f \in Fields("name1", "value1")} \cup
  {Braces(f \o Also \o g) :
     f \in Fields("name1", "value1"), g \in Fields("name2", "value2")}
Lists ==
  {Brackets(Braces(f) \o Also \o Braces(g)) :
     f \in Fields("name1", "value1"), g \in Fields("name2", "value2")}
Strings == {Quoted(Word("value1", n)) : n \in StringLengths}
Null == <<Number("null", 4)>>

\* The reply to `auth`, with its fields in different orders, and for pairing
\* with the permission map of a hub with two doors.
SessionKey == Word("sessionKey", 12)
KeyField == Field(Word("key", 3), Quoted(SessionKey))
ExpiryField == Field(Word("expiresIn", 9), <<Number("expiry", 3)>>)
Permissions ==
  Field(Word("devicePermissions", 17),
        Braces(Field(Word("door1", 8), Braces(<<>>)) \o Also \o
               Field(Word("door2", 8), Braces(<<>>))))
ExpiryFirst == Braces(ExpiryField \o Also \o KeyField)
KeyFirst == Braces(KeyField \o Also \o ExpiryField)
DoorsFirst == Braces(Permissions \o Also \o ExpiryField \o Also \o KeyField)
DoorsLater == Braces(ExpiryField \o Also \o KeyField \o Also \o Permissions)

Datas ==
  Objects \cup Lists \cup Strings \cup
  {Null, ExpiryFirst, KeyFirst, DoorsFirst, DoorsLater}

\* {"data":...,"appTimeout":0,"errorCode":0,"state":0}
DataPrefix == <<Mark("lbrace")>> \o Quoted(Word("data", 4)) \o <<Mark("colon")>>
Ending ==
  Field(Word("errorCode", 9), <<Number("0", 1)>>) \o Also \o
  Field(Word("state", 5), <<Number("0", 1)>>) \o <<Mark("rbrace")>>
DataSuffix ==
  Also \o Field(Word("appTimeout", 10), <<Number("0", 1)>>) \o Also \o Ending
Plaintext(data) == DataPrefix \o data \o DataSuffix

\* Where the tokens of a text end.
Ends(text) ==
  LET end[i \in 0..Len(text)] == IF i = 0 THEN 0 ELSE end[i - 1] + text[i].width
  IN end

\* decrypt_pairing_reply: all but the first sixteen characters.
DecryptPairingReply(text) ==
  LET end == Ends(text)
      first == CHOOSE i \in 1..Len(text) : end[i - 1] <= Lost /\ Lost < end[i]
  IN <<[text[first] EXCEPT !.width = end[first] - Lost]>> \o
     SubSeq(text, first + 1, Len(text))
-----------------------------------------------------------------------------
(* JSON (external): lexemes, and whether they are one well-formed value.   *)

Lexeme(kind, content) == [kind |-> kind, content |-> content]

\* A scan is in plain text or in a string, of which it has read some.
Scan(s, token) ==
  CASE s.at = "string" /\ token = Q ->
         [at |-> "text", read |-> <<>>,
          out |-> Append(s.out, Lexeme("string", s.read))]
    [] s.at = "string" /\ token # Q -> [s EXCEPT !.read = Append(@, token)]
    [] s.at = "text" /\ token = Q -> [s EXCEPT !.at = "string"]
    [] OTHER -> [s EXCEPT !.out = Append(@, Lexeme(token.kind, <<token>>))]

\* The scan of a text from s, token by token, and what it comes to.
Scans(s, text) ==
  LET scan[i \in 0..Len(text)] ==
        IF i = 0 THEN s ELSE Scan(scan[i - 1], text[i])
  IN scan
Scanned(s, text) == Scans(s, text)[Len(text)]
ScanStart == [at |-> "text", read |-> <<>>, out |-> <<>>]

\* A string that never ends is no lexeme.
Lexemes(text) ==
  LET s == Scanned(ScanStart, text)
  IN IF s.at = "string" THEN Append(s.out, Lexeme("open", <<>>)) ELSE s.out

\* What may come next, and which brackets are open.
Fail == [expect |-> "nothing", stack |-> <<>>]
After(stack) ==
  [expect |-> IF stack = <<>> THEN "end" ELSE "more", stack |-> stack]
Inside(stack, kind) ==
  [expect |-> IF kind = "lbrace" THEN "name" ELSE "item",
   stack |-> Append(stack, kind)]
Matches(stack, kind) ==
  /\ stack # <<>>
  /\ \/ Last(stack) = "lbrace" /\ kind = "rbrace"
     \/ Last(stack) = "lbracket" /\ kind = "rbracket"

\* What a lexeme of kind k does to a parse.
Parse(s, k) ==
  CASE s.expect \in {"value", "item"} /\ k \in {"string", "number"} ->
         After(s.stack)
    [] s.expect \in {"value", "item"} /\ k \in {"lbrace", "lbracket"} ->
         Inside(s.stack, k)
    [] s.expect \in {"name", "next"} /\ k = "string" ->
         [s EXCEPT !.expect = "colon"]
    [] s.expect = "colon" /\ k = "colon" -> [s EXCEPT !.expect = "value"]
    [] s.expect = "more" /\ k = "comma" ->
         [s EXCEPT !.expect = IF Last(s.stack) = "lbrace" THEN "next" ELSE "value"]
    [] s.expect \in {"more", "name", "item"} /\ Matches(s.stack, k) ->
         After(Front(s.stack))
    [] OTHER -> Fail

ParseStart == [expect |-> "value", stack |-> <<>>]
Parses(lexemes) ==
  LET parse[i \in 0..Len(lexemes)] ==
        IF i = 0 THEN ParseStart ELSE Parse(parse[i - 1], lexemes[i].kind)
  IN parse
Parsed(lexemes) == Parses(lexemes)[Len(lexemes)]

IsJson(lexemes) == Parsed(lexemes).expect = "end"
-----------------------------------------------------------------------------
(* The client.                                                             *)

\* _DATA_VALUE_OPENERS
Openers == <<<<Mark("lbrace"), Q>>, <<Mark("lbracket"), Mark("lbrace"), Q>>, <<Q>>>>

None == <<>>

\* Mutation: the field name is taken to have survived.
RepairUnopened(tail) ==
  LET guesses == [i \in DOMAIN Openers |->
                    Lexemes(DataPrefix \o Front(Openers[i]) \o tail)]
      good == {i \in DOMAIN Openers : IsJson(guesses[i])}
  IN IF good = {} THEN None
     ELSE guesses[CHOOSE i \in good : \A j \in good : i <= j]

\* repair_sdk_reply: the lexemes of the first guess that is JSON.
RepairSdkReply(tail) ==
  LET guesses == [i \in DOMAIN Openers |->
                    Lexemes(DataPrefix \o Openers[i] \o tail)]
      good == {i \in DOMAIN Openers : IsJson(guesses[i])}
  IN IF good = {} THEN None
     ELSE guesses[CHOOSE i \in good : \A j \in good : i <= j]

\* A pattern such as '"errorCode"\s*:' matches the text at position i.
Matched(text, word) ==
  {i \in 1..Len(text) - 4 : SubSeq(text, i, i + 3) = Quoted(word) \o <<Mark("colon")>>}

\* Mutation: nothing is salvaged.
DecodeRepairedOnly(tail) == RepairSdkReply(tail)

\* _decode: what was repaired, else the error code that can be salvaged (the
\* state that is salvaged with it says nothing more, and is left out).
Decode(tail) ==
  IF RepairSdkReply(tail) # None THEN RepairSdkReply(tail)
  ELSE IF Matched(tail, Word("errorCode", 9)) # {}
       THEN <<Lexeme("string", <<Word("errorCode", 9)>>)>> ELSE None

HasField(lexemes, word) ==
  \E i \in DOMAIN lexemes : lexemes[i] = Lexeme("string", <<word>>)

\* Mutation: every name behind the permissions is taken for a door.
ExtractEveryDoor(tail) ==
  {tail[i].id : i \in {j \in DOMAIN tail : tail[j].id \in {"door1", "door2"}}}

\* _extract_session_key and _decode_pairing_reply on a tail that is not JSON:
\* the pattern '"devicePermissions"\s*:\s*\{"([^"]+)"' finds one name.
ExtractDoors(tail) ==
  {tail[i + 6].id : i \in Matched(tail, Word("devicePermissions", 17))}
-----------------------------------------------------------------------------
VARIABLES
  data,      \* what the hub put into the reply
  tail,      \* what is left of the reply after decryption
  decoded    \* what _decode makes of it

vars == <<data, tail, decoded>>

Init ==
  /\ data \in Datas
  /\ tail = None
  /\ decoded = None

Receive ==
  /\ tail = None
  /\ tail' = DecryptPairingReply(Plaintext(data))
  /\ decoded' = Decode(tail')
  /\ UNCHANGED data

Done == tail # None /\ UNCHANGED vars

Next == Receive \/ Done

Spec == Init /\ [][Next]_vars
-----------------------------------------------------------------------------
(* Properties.                                                             *)

Original == Lexemes(Plaintext(data))

\* The characters of a field name, or of a string, that lie in the lost block
\* after {"data":{" or {"data":[{" or {"data":".
LostOfFirst ==
  IF data \in Objects THEN 6 ELSE IF data \in Lists THEN 5 ELSE 7

\* Where the first name of the data, or the string that it is, stands.
FirstAt == CHOOSE i \in 4..Len(Original) :
             /\ Original[i].kind = "string"
             /\ \A j \in 4..(i - 1) : Original[j].kind # "string"

\* Data whose first name outlasts the lost block comes back with every value
\* and every other name intact (repair_sdk_reply: "only the first field's key
\* name is lost").
LongNamesRepaired ==
  tail # None /\ data \in Objects \cup Lists \cup Strings
  /\ Original[FirstAt].content[1].width >= LostOfFirst =>
    /\ Len(decoded) = Len(Original)
    /\ \A i \in DOMAIN Original : i # FirstAt => decoded[i] = Original[i]

\* Whatever the data, a reply that the client has received tells it whether
\* the command succeeded (_decode: "still enough to tell a caller").
ErrorCodeSurvives == tail # None => HasField(decoded, Word("errorCode", 9))

\* An auth reply in the hub's alphabetical order yields the session key.
SessionKeyRecovered ==
  tail # None /\ data \in {ExpiryFirst, DoorsFirst, DoorsLater} =>
    /\ HasField(decoded, Word("key", 3))
    /\ \E i \in DOMAIN decoded : decoded[i] = Lexeme("string", <<SessionKey>>)

\* What Pairing takes for granted of an encrypted reply: it never is JSON by
\* itself, and however many doors it tells of it shows the first one or none.
\* Permissions that are not the first field of the reply do show it.
SealedShowsOneDoor ==
  tail # None =>
    /\ ~IsJson(Lexemes(tail))
    /\ ExtractDoors(tail) \subseteq {"door1"}
    /\ data = DoorsLater => "door1" \in ExtractDoors(tail)

\* Data that has been repaired holds every value: "the wrong guesses simply
\* fail to parse rather than silently producing incorrect data" and "every
\* value survives intact" (repair_sdk_reply).
NoSilentLoss ==
  tail # None /\ data \in Objects \cup Lists /\ RepairSdkReply(tail) # None =>
    \A i \in DOMAIN Original :
      (/\ Original[i].kind \in {"string", "number"}
       /\ Original[i].content[1].id \in {"value1", "value2"}) =>
        \E j \in DOMAIN decoded : decoded[j] = Original[i]
=============================================================================
