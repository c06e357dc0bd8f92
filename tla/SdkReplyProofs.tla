--------------------------- MODULE SdkReplyProofs ---------------------------
(***************************************************************************)
(* Proofs about SdkReply for names, strings and numbers of any lengths.    *)
(* Recursion over a text is reasoned about with sets: what holds of 0 and, *)
(* with every number, of the next, holds of every number, for a least      *)
(* number of which it did not would follow one of which it does.           *)
(***************************************************************************)
EXTENDS SdkReply, SequenceTheorems, WellFoundedInduction, TLAPS


\* A set with 0 and, with every number, the next holds every number.
LEMMA Counting ==
  ASSUME NEW S, 0 \in S, \A n \in Nat : n \in S => n + 1 \in S
  PROVE  Nat \subseteq S
<1>. DEFINE missing == Nat \ S
<1>1. SUFFICES ASSUME missing # {} PROVE FALSE
  OBVIOUS
<1>2. missing \subseteq Nat
  OBVIOUS
<1>3. \E n \in missing : \A m \in missing : <<m, n>> \notin OpToRel(<, Nat)
  BY <1>1, <1>2, WFMin, NatLessThanWellFounded, Zenon
<1>4. PICK n \in missing : \A m \in missing : ~(m < n)
  BY <1>2, <1>3, Zenon DEF OpToRel
<1>5. n # 0 /\ n - 1 \in Nat /\ n - 1 < n /\ n = (n - 1) + 1
  OBVIOUS
<1>6. n - 1 \in S
  BY <1>4, <1>5
<1>. QED  BY <1>5, <1>6
-----------------------------------------------------------------------------
(* The recursive functions are what their definitions say.                 *)


\* A scan starts from s and takes one token of the text after the other.
LEMMA ScansRecursion ==
  ASSUME NEW s, NEW text, Len(text) \in Nat
  PROVE  /\ Scans(s, text)[0] = s
         /\ \A i \in 1..Len(text) :
              Scans(s, text)[i] = Scan(Scans(s, text)[i - 1], text[i])
<1>. DEFINE Is(f, n) ==
              f = [i \in 0..n |-> IF i = 0 THEN s ELSE Scan(f[i - 1], text[i])]
            S == {n \in Nat : \E f : Is(f, n)}
<1>1. 0 \in S
  <2>1. Is([i \in 0..0 |-> s], 0)
    OBVIOUS
  <2>. QED  BY <2>1, Zenon
<1>2. ASSUME NEW n \in Nat, n \in S PROVE n + 1 \in S
  <2>1. PICK f : Is(f, n)
    BY <1>2, Zenon
  <2>. DEFINE g == [i \in 0..(n + 1) |-> IF i = n + 1 THEN Scan(f[n], text[i])
                                         ELSE f[i]]
  <2>2. \A i \in 0..n : f[i] = IF i = 0 THEN s ELSE Scan(f[i - 1], text[i])
    BY <2>1
  <2>3. ASSUME NEW i \in 0..(n + 1)
        PROVE  g[i] = IF i = 0 THEN s ELSE Scan(g[i - 1], text[i])
    <3>1. CASE i = n + 1
      BY <2>2, <3>1
    <3>2. CASE i \in 0..n
      BY <2>2, <3>2
    <3>. QED  BY <3>1, <3>2
  <2>4. Is(g, n + 1)
    <3>. g = [i \in 0..(n + 1) |-> g[i]]
      OBVIOUS
    <3>. HIDE DEF g
    <3>. QED  BY <2>3
  <2>5. n + 1 \in Nat
    OBVIOUS
  <2>. HIDE DEF g, Is
  <2>. QED  BY <2>4, <2>5, Zenon
<1>3. \E f : Is(f, Len(text))
  <2>. HIDE DEF S
  <2>1. Nat \subseteq S
    BY <1>1, <1>2, Counting
  <2>. QED  BY <2>1 DEF S
<1>. DEFINE f == Scans(s, text)
<1>4. Is(f, Len(text))
  BY <1>3, Zenon DEF Scans
<1>. QED  BY <1>4

\* A parse starts from ParseStart and takes one lexeme after the other.
LEMMA ParsesRecursion ==
  ASSUME NEW lexemes, Len(lexemes) \in Nat
  PROVE  /\ Parses(lexemes)[0] = ParseStart
         /\ \A i \in 1..Len(lexemes) :
              Parses(lexemes)[i] = Parse(Parses(lexemes)[i - 1], lexemes[i].kind)
<1>. DEFINE Is(f, n) ==
              f = [i \in 0..n |-> IF i = 0 THEN ParseStart ELSE Parse(f[i - 1], lexemes[i].kind)]
            S == {n \in Nat : \E f : Is(f, n)}
<1>1. 0 \in S
  <2>1. Is([i \in 0..0 |-> ParseStart], 0)
    OBVIOUS
  <2>. QED  BY <2>1, Zenon
<1>2. ASSUME NEW n \in Nat, n \in S PROVE n + 1 \in S
  <2>1. PICK f : Is(f, n)
    BY <1>2, Zenon
  <2>. DEFINE g == [i \in 0..(n + 1) |-> IF i = n + 1 THEN Parse(f[n], lexemes[i].kind)
                                         ELSE f[i]]
  <2>2. \A i \in 0..n : f[i] = IF i = 0 THEN ParseStart ELSE Parse(f[i - 1], lexemes[i].kind)
    BY <2>1
  <2>3. ASSUME NEW i \in 0..(n + 1)
        PROVE  g[i] = IF i = 0 THEN ParseStart ELSE Parse(g[i - 1], lexemes[i].kind)
    <3>1. CASE i = n + 1
      BY <2>2, <3>1
    <3>2. CASE i \in 0..n
      BY <2>2, <3>2
    <3>. QED  BY <3>1, <3>2
  <2>4. Is(g, n + 1)
    <3>. g = [i \in 0..(n + 1) |-> g[i]]
      OBVIOUS
    <3>. HIDE DEF g
    <3>. QED  BY <2>3
  <2>5. n + 1 \in Nat
    OBVIOUS
  <2>. HIDE DEF g, Is
  <2>. QED  BY <2>4, <2>5, Zenon
<1>3. \E f : Is(f, Len(lexemes))
  <2>. HIDE DEF S
  <2>1. Nat \subseteq S
    BY <1>1, <1>2, Counting
  <2>. QED  BY <2>1 DEF S
<1>. DEFINE f == Parses(lexemes)
<1>4. Is(f, Len(lexemes))
  BY <1>3, Zenon DEF Parses
<1>. QED  BY <1>4

\* Every token ends its own width behind the end of the one before.
LEMMA EndsRecursion ==
  ASSUME NEW text, Len(text) \in Nat
  PROVE  /\ Ends(text)[0] = 0
         /\ \A i \in 1..Len(text) :
              Ends(text)[i] = Ends(text)[i - 1] + text[i].width
<1>. DEFINE Is(f, n) ==
              f = [i \in 0..n |-> IF i = 0 THEN 0 ELSE f[i - 1] + text[i].width]
            S == {n \in Nat : \E f : Is(f, n)}
<1>1. 0 \in S
  <2>1. Is([i \in 0..0 |-> 0], 0)
    OBVIOUS
  <2>. QED  BY <2>1, Zenon
<1>2. ASSUME NEW n \in Nat, n \in S PROVE n + 1 \in S
  <2>1. PICK f : Is(f, n)
    BY <1>2, Zenon
  <2>. DEFINE g == [i \in 0..(n + 1) |-> IF i = n + 1 THEN f[n] + text[i].width
                                         ELSE f[i]]
  <2>2. \A i \in 0..n : f[i] = IF i = 0 THEN 0 ELSE f[i - 1] + text[i].width
    BY <2>1
  <2>3. ASSUME NEW i \in 0..(n + 1)
        PROVE  g[i] = IF i = 0 THEN 0 ELSE g[i - 1] + text[i].width
    <3>1. CASE i = n + 1
      BY <2>2, <3>1
    <3>2. CASE i \in 0..n
      BY <2>2, <3>2
    <3>. QED  BY <3>1, <3>2
  <2>4. Is(g, n + 1)
    <3>. g = [i \in 0..(n + 1) |-> g[i]]
      OBVIOUS
    <3>. HIDE DEF g
    <3>. QED  BY <2>3
  <2>5. n + 1 \in Nat
    OBVIOUS
  <2>. HIDE DEF g, Is
  <2>. QED  BY <2>4, <2>5, Zenon
<1>3. \E f : Is(f, Len(text))
  <2>. HIDE DEF S
  <2>1. Nat \subseteq S
    BY <1>1, <1>2, Counting
  <2>. QED  BY <2>1 DEF S
<1>. DEFINE f == Ends(text)
<1>4. Is(f, Len(text))
  BY <1>3, Zenon DEF Ends
<1>. QED  BY <1>4
-----------------------------------------------------------------------------
(* Tokens and texts.                                                       *)

Marks == {"quote", "lbrace", "rbrace", "lbracket", "rbracket", "comma", "colon"}
Labels ==
  {"data", "appTimeout", "errorCode", "state", "0", "null", "name1", "value1",
   "name2", "value2", "sessionKey", "key", "expiresIn", "expiry",
   "devicePermissions", "door1", "door2"}
Kinds == Marks \cup {"word", "number"}
Tokens == [kind : Kinds, width : Nat \ {0}, id : Marks \cup Labels]
Texts == Seq(Tokens)

\* Marks, words and numbers are tokens and have the fields they were made with.
LEMMA TokensTyped ==
  /\ \A id \in Marks :
       /\ Mark(id) \in Tokens /\ Mark(id).kind = id /\ Mark(id).width = 1
       /\ Mark(id).id = id
  /\ \A id \in Labels, n \in Nat \ {0} :
       /\ Word(id, n) \in Tokens /\ Word(id, n).kind = "word"
       /\ Word(id, n).width = n /\ Word(id, n).id = id
       /\ Number(id, n) \in Tokens /\ Number(id, n).kind = "number"
       /\ Number(id, n).width = n /\ Number(id, n).id = id
<1>. USE DEF Mark, Word, Number, Tokens, Kinds
<1>1. \A id \in Marks : Mark(id) \in Tokens
  OBVIOUS
<1>2. \A id \in Labels, n \in Nat \ {0} :
        Word(id, n) \in Tokens /\ Number(id, n) \in Tokens
  OBVIOUS
<1>. QED  BY <1>1, <1>2

\* The quote is a token, and no other mark, no word and no number is the quote.
LEMMA Facts ==
  /\ Q \in Tokens /\ Q.kind = "quote" /\ Q.width = 1 /\ Q.id = "quote"
  /\ \A t \in Marks : Mark(t) = Q => t = "quote"
  /\ \A id \in Labels, n \in Nat \ {0} : Word(id, n) # Q /\ Number(id, n) # Q
<1>1. "quote" \in Marks
  BY DEF Marks
<1>. QED  BY <1>1, TokensTyped DEF Q

\* A text of n tokens.  (Two inequalities: from a length that equals a number
\* the backends make an enumerated domain and forget the number.)
Long(text, n) == text \in Texts /\ n <= Len(text) /\ Len(text) <= n

\* A token by itself is a text.
LEMMA Single ==
  ASSUME NEW t \in Tokens
  PROVE  <<t>> \in Texts /\ Long(<<t>>, 1) /\ <<t>>[1] = t
BY DEF Texts, Long

\* A text is as long as it is, and holds tokens.
LEMMA Textual ==
  ASSUME NEW text \in Texts
  PROVE  /\ Len(text) \in Nat /\ DOMAIN text = 1..Len(text)
         /\ Long(text, Len(text))
         /\ \A i \in 1..Len(text) : text[i] \in Tokens
BY DEF Texts, Long

\* A concatenation, position by position.
LEMMA Joined ==
  ASSUME NEW a \in Texts, NEW b \in Texts
  PROVE  /\ a \o b \in Texts /\ Len(a \o b) = Len(a) + Len(b)
         /\ Len(a) \in Nat /\ Len(b) \in Nat
         /\ \A i \in 1..Len(a) : (a \o b)[i] = a[i]
         /\ \A i \in 1..Len(b) : (a \o b)[Len(a) + i] = b[i]
BY DEF Texts

\* Two texts with the same tokens are the same.
LEMMA Same ==
  ASSUME NEW a, NEW b, NEW n \in Nat, Long(a, n), Long(b, n),
         \A i \in 1..n : a[i] = b[i]
  PROVE  a = b
BY DEF Long, Texts

\* A word in quotes, token by token.
LEMMA QuotedTyped ==
  ASSUME NEW w \in Tokens
  PROVE  /\ Long(Quoted(w), 3)
         /\ Quoted(w)[1] = Q /\ Quoted(w)[2] = w /\ Quoted(w)[3] = Q
<1>1. Quoted(w) = <<Q, w, Q>>
  BY DEF Quoted
<1>2. <<Q, w, Q>> \in Seq(Tokens)
  BY Facts
<1>. QED  BY <1>1, <1>2 DEF Texts, Long

\* A field is a name in quotes, a colon and the tokens of the value.
LEMMA FieldTyped ==
  ASSUME NEW w \in Tokens, NEW v, NEW n \in Nat, Long(v, n)
  PROVE  /\ Long(Field(w, v), 4 + n)
         /\ Field(w, v)[1] = Q /\ Field(w, v)[2] = w /\ Field(w, v)[3] = Q
         /\ Field(w, v)[4] = Mark("colon")
         /\ \A i \in 5..(4 + n) : Field(w, v)[i] = v[i - 4]
<1>. DEFINE q == Quoted(w)
            c == <<Mark("colon")>>
<1>1. Long(c, 1) /\ c[1] = Mark("colon")
  BY TokensTyped, Single DEF Marks
<1>2. Long(q, 3) /\ q[1] = Q /\ q[2] = w /\ q[3] = Q
  BY QuotedTyped
<1>3. Field(w, v) = (q \o c) \o v
  BY DEF Field
<1>. HIDE DEF q, c
<1>4. /\ Long(q \o c, 4) /\ (q \o c)[1] = Q /\ (q \o c)[2] = w
      /\ (q \o c)[3] = Q /\ (q \o c)[4] = Mark("colon")
  BY <1>1, <1>2 DEF Long, Texts
<1>. DEFINE h == q \o c
<1>5. /\ Long(h, 4) /\ h[1] = Q /\ h[2] = w /\ h[3] = Q /\ h[4] = Mark("colon")
      /\ Field(w, v) = h \o v
  BY <1>3, <1>4
<1>. HIDE DEF h
<1>6. /\ Long(h \o v, 4 + n) /\ (h \o v)[1] = Q /\ (h \o v)[2] = w
      /\ (h \o v)[3] = Q /\ (h \o v)[4] = Mark("colon")
      /\ \A i \in 5..(4 + n) : (h \o v)[i] = v[i - 4]
  BY <1>5 DEF Long, Texts
<1>. QED  BY <1>5, <1>6, Zenon

Enclosed(l, v, r) == <<l>> \o v \o <<r>>

\* What stands between two tokens stands one further on.
LEMMA EnclosedTyped ==
  ASSUME NEW l \in Tokens, NEW r \in Tokens, NEW v, NEW n \in Nat, Long(v, n)
  PROVE  /\ Long(Enclosed(l, v, r), n + 2)
         /\ Enclosed(l, v, r)[1] = l /\ Enclosed(l, v, r)[n + 2] = r
         /\ \A i \in 2..(n + 1) : Enclosed(l, v, r)[i] = v[i - 1]
<1>. DEFINE a == <<l>>
            z == <<r>>
            h == a \o v
<1>1. Long(a, 1) /\ a[1] = l /\ Long(z, 1) /\ z[1] = r
  BY Single
<1>2. Enclosed(l, v, r) = h \o z
  BY DEF Enclosed
<1>. HIDE DEF a, z
<1>3. /\ Long(h, n + 1) /\ h[1] = l
      /\ \A i \in 2..(n + 1) : h[i] = v[i - 1]
  BY <1>1 DEF Long, Texts
<1>. HIDE DEF h
<1>4. /\ Long(h \o z, n + 2) /\ (h \o z)[1] = l /\ (h \o z)[n + 2] = r
      /\ \A i \in 2..(n + 1) : (h \o z)[i] = v[i - 1]
  BY <1>1, <1>3 DEF Long, Texts
<1>. QED  BY <1>2, <1>4, Zenon

\* Braces around a text, token by token.
LEMMA BracesTyped ==
  ASSUME NEW v, NEW n \in Nat, Long(v, n)
  PROVE  /\ Long(Braces(v), n + 2)
         /\ Braces(v)[1] = Mark("lbrace") /\ Braces(v)[n + 2] = Mark("rbrace")
         /\ \A i \in 2..(n + 1) : Braces(v)[i] = v[i - 1]
<1>1. Mark("lbrace") \in Tokens /\ Mark("rbrace") \in Tokens
  BY TokensTyped DEF Marks
<1>2. Braces(v) = Enclosed(Mark("lbrace"), v, Mark("rbrace"))
  BY DEF Braces, Enclosed
<1>. DEFINE w == Enclosed(Mark("lbrace"), v, Mark("rbrace"))
<1>3. /\ Long(w, n + 2) /\ w[1] = Mark("lbrace") /\ w[n + 2] = Mark("rbrace")
      /\ \A i \in 2..(n + 1) : w[i] = v[i - 1]
  BY <1>1, EnclosedTyped
<1>. QED  BY <1>2, <1>3, Zenon

\* Brackets around a text, token by token.
LEMMA BracketsTyped ==
  ASSUME NEW v, NEW n \in Nat, Long(v, n)
  PROVE  /\ Long(Brackets(v), n + 2)
         /\ Brackets(v)[1] = Mark("lbracket") /\ Brackets(v)[n + 2] = Mark("rbracket")
         /\ \A i \in 2..(n + 1) : Brackets(v)[i] = v[i - 1]
<1>1. Mark("lbracket") \in Tokens /\ Mark("rbracket") \in Tokens
  BY TokensTyped DEF Marks
<1>2. Brackets(v) = Enclosed(Mark("lbracket"), v, Mark("rbracket"))
  BY DEF Brackets, Enclosed
<1>. DEFINE w == Enclosed(Mark("lbracket"), v, Mark("rbracket"))
<1>3. /\ Long(w, n + 2) /\ w[1] = Mark("lbracket") /\ w[n + 2] = Mark("rbracket")
      /\ \A i \in 2..(n + 1) : w[i] = v[i - 1]
  BY <1>1, EnclosedTyped
<1>. QED  BY <1>2, <1>3, Zenon
-----------------------------------------------------------------------------
(* Scans.                                                                  *)

Lexs == [kind : Kinds \cup {"string", "open"}, content : Texts]
ScanStates ==
  {s \in [at : {"text", "string"}, read : Texts, out : Seq(Lexs)] :
     s.at = "text" => s.read = <<>>}

\* What one token does to a scan.
LEMMA ScanSteps ==
  ASSUME NEW s \in ScanStates, NEW t \in Tokens
  PROVE  /\ Scan(s, t) \in ScanStates
         /\ s.at = "string" /\ t = Q =>
              /\ Scan(s, t).at = "text" /\ Scan(s, t).read = <<>>
              /\ Scan(s, t).out = Append(s.out, Lexeme("string", s.read))
         /\ s.at = "string" /\ t # Q =>
              /\ Scan(s, t).at = "string" /\ Scan(s, t).read = Append(s.read, t)
              /\ Scan(s, t).out = s.out
         /\ s.at = "text" /\ t = Q =>
              /\ Scan(s, t).at = "string" /\ Scan(s, t).read = <<>>
              /\ Scan(s, t).out = s.out
         /\ s.at = "text" /\ t # Q =>
              /\ Scan(s, t).at = "text" /\ Scan(s, t).read = <<>>
              /\ Scan(s, t).out = Append(s.out, Lexeme(t.kind, <<t>>))
<1>1. /\ s = [at |-> s.at, read |-> s.read, out |-> s.out]
      /\ s.at \in {"text", "string"} /\ s.read \in Texts /\ s.out \in Seq(Lexs)
      /\ s.at = "text" => s.read = <<>>
  BY DEF ScanStates
<1>2. /\ Lexeme("string", s.read) \in Lexs /\ Lexeme(t.kind, <<t>>) \in Lexs
      /\ Append(s.read, t) \in Texts
  <2>1. t.kind \in Kinds
    BY DEF Tokens
  <2>. QED  BY <1>1, <2>1, Single DEF Lexeme, Lexs, Texts
<1>3. CASE s.at = "string" /\ t = Q
  <2>1. Scan(s, t) = [at |-> "text", read |-> <<>>,
                      out |-> Append(s.out, Lexeme("string", s.read))]
    BY <1>3 DEF Scan
  <2>. QED  BY <1>1, <1>2, <1>3, <2>1 DEF ScanStates, Texts
<1>4. CASE s.at = "string" /\ t # Q
  <2>1. Scan(s, t) = [s EXCEPT !.read = Append(@, t)]
    BY <1>4 DEF Scan
  <2>2. Scan(s, t) = [at |-> "string", read |-> Append(s.read, t), out |-> s.out]
    BY <1>1, <1>4, <2>1
  <2>. QED  BY <1>1, <1>2, <1>4, <2>2 DEF ScanStates
<1>5. CASE s.at = "text" /\ t = Q
  <2>1. Scan(s, t) = [s EXCEPT !.at = "string"]
    BY <1>5 DEF Scan
  <2>2. Scan(s, t) = [at |-> "string", read |-> <<>>, out |-> s.out]
    BY <1>1, <1>5, <2>1
  <2>. QED  BY <1>1, <1>2, <1>5, <2>2 DEF ScanStates
<1>6. CASE s.at = "text" /\ t # Q
  <2>1. Scan(s, t) = [s EXCEPT !.out = Append(@, Lexeme(t.kind, <<t>>))]
    BY <1>6 DEF Scan
  <2>2. Scan(s, t) = [at |-> "text", read |-> <<>>,
                      out |-> Append(s.out, Lexeme(t.kind, <<t>>))]
    BY <1>1, <1>6, <2>1
  <2>. QED  BY <1>1, <1>2, <1>6, <2>2 DEF ScanStates, Texts
<1>. QED  BY <1>1, <1>3, <1>4, <1>5, <1>6

\* A quotation mark ends a string, which becomes a lexeme.
LEMMA StringEnds ==
  ASSUME NEW before \in ScanStates, before.at = "string"
  PROVE  /\ Scan(before, Q) \in ScanStates
         /\ Scan(before, Q).at = "text" /\ Scan(before, Q).read = <<>>
         /\ Scan(before, Q).out = Append(before.out, Lexeme("string", before.read))
BY ScanSteps, Facts

\* Any other token is read into the string.
LEMMA StringGoesOn ==
  ASSUME NEW before \in ScanStates, before.at = "string", NEW token \in Tokens, token # Q
  PROVE  /\ Scan(before, token) \in ScanStates
         /\ Scan(before, token).at = "string"
         /\ Scan(before, token).read = Append(before.read, token)
         /\ Scan(before, token).out = before.out
BY ScanSteps

\* Outside a string a quotation mark begins one.
LEMMA StringBegins ==
  ASSUME NEW before \in ScanStates, before.at = "text"
  PROVE  /\ Scan(before, Q) \in ScanStates
         /\ Scan(before, Q).at = "string" /\ Scan(before, Q).read = <<>>
         /\ Scan(before, Q).out = before.out
BY ScanSteps, Facts

\* Outside a string any other token is a lexeme of its own.
LEMMA TextGoesOn ==
  ASSUME NEW before \in ScanStates, before.at = "text", NEW token \in Tokens, token # Q
  PROVE  /\ Scan(before, token) \in ScanStates
         /\ Scan(before, token).at = "text" /\ Scan(before, token).read = <<>>
         /\ Scan(before, token).out = Append(before.out, Lexeme(token.kind, <<token>>))
BY ScanSteps

\* What holds at first, and after each token, holds at last.
LEMMA ScanInduction ==
  ASSUME NEW text \in Texts, NEW I, NEW s \in I,
         \A r \in I, t \in Tokens : Scan(r, t) \in I
  PROVE  \A i \in 0..Len(text) : Scans(s, text)[i] \in I
<1>. DEFINE S == {n \in Nat : n <= Len(text) => Scans(s, text)[n] \in I}
<1>0. Len(text) \in Nat /\ \A i \in 1..Len(text) : text[i] \in Tokens
  BY Textual
<1>1. 0 \in S
  BY <1>0, ScansRecursion
<1>2. ASSUME NEW n \in Nat, n \in S PROVE n + 1 \in S
  <2>1. SUFFICES ASSUME n + 1 <= Len(text) PROVE Scans(s, text)[n + 1] \in I
    OBVIOUS
  <2>2. Scans(s, text)[n + 1] = Scan(Scans(s, text)[n], text[n + 1])
    BY <1>0, <2>1, ScansRecursion
  <2>. QED  BY <1>0, <1>2, <2>1, <2>2
<1>3. Nat \subseteq S
  <2>. HIDE DEF S
  <2>. QED  BY <1>1, <1>2, Counting
<1>. QED  BY <1>0, <1>3

\* The scan of a text ends in text or in a string, which holds tokens.
LEMMA ScannedTyped ==
  ASSUME NEW text \in Texts, NEW s \in ScanStates
  PROVE  Scanned(s, text) \in ScanStates
<1>1. \A i \in 0..Len(text) : Scans(s, text)[i] \in ScanStates
  BY ScanInduction, ScanSteps
<1>. QED  BY <1>1, Textual DEF Scanned

\* A scan of two texts is the scan of the second from where the first ends.
LEMMA ScansJoined ==
  ASSUME NEW s, NEW a \in Texts, NEW b \in Texts
  PROVE  /\ \A i \in 0..Len(a) : Scans(s, a \o b)[i] = Scans(s, a)[i]
         /\ \A i \in 0..Len(b) :
              Scans(s, a \o b)[Len(a) + i] = Scans(Scanned(s, a), b)[i]
<1>. DEFINE ab == a \o b
            z == Scanned(s, a)
            S == {n \in Nat : n <= Len(a) => Scans(s, ab)[n] = Scans(s, a)[n]}
            T == {n \in Nat : n <= Len(b) =>
                                Scans(s, ab)[Len(a) + n] = Scans(z, b)[n]}
<1>1. /\ ab \in Texts /\ Len(a) \in Nat /\ Len(b) \in Nat
      /\ Len(ab) = Len(a) + Len(b)
      /\ \A i \in 1..Len(a) : ab[i] = a[i]
      /\ \A i \in 1..Len(a) : ab[i] = a[i]
      /\ \A i \in 1..Len(b) : ab[Len(a) + i] = b[i]
  BY Joined
<1>2. /\ Scans(s, ab)[0] = s /\ Scans(s, a)[0] = s /\ Scans(z, b)[0] = z
      /\ \A i \in 1..Len(ab) : Scans(s, ab)[i] = Scan(Scans(s, ab)[i - 1], ab[i])
      /\ \A i \in 1..Len(a) : Scans(s, a)[i] = Scan(Scans(s, a)[i - 1], a[i])
      /\ \A i \in 1..Len(b) : Scans(z, b)[i] = Scan(Scans(z, b)[i - 1], b[i])
  <2>. HIDE DEF ab, z
  <2>1. Scans(z, b)[0] = z /\ \A i \in 1..Len(b) :
                 Scans(z, b)[i] = Scan(Scans(z, b)[i - 1], b[i])
    BY <1>1, ScansRecursion
  <2>2. Scans(s, a)[0] = s /\ \A i \in 1..Len(a) :
                 Scans(s, a)[i] = Scan(Scans(s, a)[i - 1], a[i])
    BY <1>1, ScansRecursion
  <2>0. Len(ab) \in Nat
    BY <1>1
  <2>3. Scans(s, ab)[0] = s /\ \A i \in 1..Len(ab) :
                 Scans(s, ab)[i] = Scan(Scans(s, ab)[i - 1], ab[i])
    BY <2>0, ScansRecursion
  <2>. QED  BY <2>1, <2>2, <2>3
<1>. HIDE DEF ab, z
<1>3. 0 \in S
  BY <1>2
<1>4. ASSUME NEW n \in Nat, n \in S PROVE n + 1 \in S
  <2>1. SUFFICES ASSUME n + 1 <= Len(a)
                 PROVE  Scans(s, ab)[n + 1] = Scans(s, a)[n + 1]
    OBVIOUS
  <2>2. /\ n + 1 \in 1..Len(ab) /\ n + 1 \in 1..Len(a) /\ (n + 1) - 1 = n
        /\ Scans(s, ab)[n] = Scans(s, a)[n]
    BY <1>1, <1>4, <2>1
  <2>. QED  BY <1>1, <1>2, <2>2
<1>5. \A n \in 0..Len(a) : Scans(s, ab)[n] = Scans(s, a)[n]
  <2>1. Nat \subseteq S
    <3>. HIDE DEF S
    <3>. QED  BY <1>3, <1>4, Counting
  <2>. QED  BY <1>1, <2>1
<1>6. 0 \in T
  BY <1>1, <1>2, <1>5 DEF z, Scanned
<1>7. ASSUME NEW n \in Nat, n \in T PROVE n + 1 \in T
  <2>1. SUFFICES ASSUME n + 1 <= Len(b)
                 PROVE  Scans(s, ab)[Len(a) + (n + 1)] = Scans(z, b)[n + 1]
    OBVIOUS
  <2>2. /\ Len(a) + (n + 1) \in 1..Len(ab) /\ n + 1 \in 1..Len(b)
        /\ (n + 1) - 1 = n /\ (Len(a) + (n + 1)) - 1 = Len(a) + n
        /\ Scans(s, ab)[Len(a) + n] = Scans(z, b)[n]
        /\ ab[Len(a) + (n + 1)] = b[n + 1]
    BY <1>1, <1>7, <2>1
  <2>. QED  BY <1>2, <2>2
<1>8. \A n \in 0..Len(b) : Scans(s, ab)[Len(a) + n] = Scans(z, b)[n]
  <2>1. Nat \subseteq T
    <3>. HIDE DEF T
    <3>. QED  BY <1>6, <1>7, Counting
  <2>. QED  BY <1>1, <2>1
<1>. QED  BY <1>5, <1>8 DEF ab, z

\* A scan of two texts is the scan of the second from where the first ends.
LEMMA ScannedJoined ==
  ASSUME NEW s, NEW a \in Texts, NEW b \in Texts
  PROVE  Scanned(s, a \o b) = Scanned(Scanned(s, a), b)
<1>1. Len(a \o b) = Len(a) + Len(b) /\ Len(b) \in 0..Len(b)
  BY Joined
<1>. QED  BY <1>1, ScansJoined DEF Scanned

\* The scans of no token and of one.
LEMMA ScannedFew ==
  ASSUME NEW s, NEW t
  PROVE  Scanned(s, <<>>) = s /\ Scanned(s, <<t>>) = Scan(s, t)
<1>1. \A text : Len(text) \in Nat =>
        /\ Scans(s, text)[0] = s
        /\ \A i \in 1..Len(text) :
             Scans(s, text)[i] = Scan(Scans(s, text)[i - 1], text[i])
  BY ScansRecursion
<1>2. Len(<<>>) = 0 /\ Len(<<t>>) = 1 /\ <<t>>[1] = t
  OBVIOUS
<1>3. Scans(s, <<t>>)[1] = Scan(s, t)
  BY <1>1, <1>2
<1>. QED  BY <1>1, <1>2, <1>3 DEF Scanned

\* The scan of three tokens.
LEMMA ScannedThree ==
  ASSUME NEW s, NEW t, NEW u, NEW v, NEW text, text = <<t, u, v>>
  PROVE  Scanned(s, text) = Scan(Scan(Scan(s, t), u), v)
<1>1. /\ Scans(s, text)[0] = s
      /\ \A i \in 1..Len(text) :
           Scans(s, text)[i] = Scan(Scans(s, text)[i - 1], text[i])
  <2>1. Len(text) \in Nat
    OBVIOUS
  <2>. QED  BY <2>1, ScansRecursion
<1>2. Len(text) = 3 /\ text[1] = t /\ text[2] = u /\ text[3] = v
  OBVIOUS
<1>. DEFINE f == Scans(s, text)
<1>3. f[0] = s /\ f[1] = Scan(f[0], t) /\ f[2] = Scan(f[1], u) /\ f[3] = Scan(f[2], v)
  BY <1>1, <1>2
<1>. HIDE DEF f
<1>4. f[3] = Scan(Scan(Scan(s, t), u), v)
  BY <1>3, Zenon
<1>. QED  BY <1>2, <1>4 DEF Scanned, f

\* A string in quotes, read in plain text or (in reverse) in a string.
LEMMA QuotedScanned ==
  ASSUME NEW s \in ScanStates, NEW w \in Tokens, w # Q
  PROVE  /\ Scanned(s, Quoted(w)) \in ScanStates
         /\ Scanned(s, Quoted(w)).at = s.at
         /\ s.at = "text" => Scanned(s, Quoted(w)).out
                               = Append(s.out, Lexeme("string", <<w>>))
<1>. DEFINE r1 == Scan(s, Q)
            r2 == Scan(r1, w)
            r3 == Scan(r2, Q)
<1>1. Scanned(s, Quoted(w)) = r3
  <2>1. Quoted(w) = <<Q, w, Q>>
    BY DEF Quoted
  <2>2. Scanned(s, Quoted(w)) = Scan(Scan(Scan(s, Q), w), Q)
    BY <2>1, ScannedThree
  <2>. QED  BY <2>2
<1>2. CASE s.at = "text"
  <2>1. r1 \in ScanStates /\ r1.at = "string" /\ r1.read = <<>> /\ r1.out = s.out
    BY <1>2, StringBegins, Zenon
  <2>. HIDE DEF r1
  <2>2. r2 \in ScanStates /\ r2.at = "string" /\ r2.read = <<w>> /\ r2.out = s.out
    <3>1. Append(<<>>, w) = <<w>>
      OBVIOUS
    <3>. QED  BY <2>1, <3>1, StringGoesOn
  <2>. HIDE DEF r2
  <2>3. /\ r3 \in ScanStates /\ r3.at = "text"
        /\ r3.out = Append(s.out, Lexeme("string", <<w>>))
    BY <2>2, StringEnds
  <2>. QED  BY <1>1, <1>2, <2>3
<1>3. CASE s.at = "string"
  <2>1. r1 \in ScanStates /\ r1.at = "text"
    BY <1>3, StringEnds, Zenon
  <2>. HIDE DEF r1
  <2>2. r2 \in ScanStates /\ r2.at = "text"
    BY <2>1, TextGoesOn
  <2>. HIDE DEF r2
  <2>3. r3 \in ScanStates /\ r3.at = "string"
    BY <2>2, StringBegins, Zenon
  <2>. QED  BY <1>1, <1>3, <2>3
<1>. QED  BY <1>2, <1>3 DEF ScanStates
-----------------------------------------------------------------------------
(* Parses.                                                                 *)

Stacks == Seq({"lbrace", "lbracket"})
State(expect, stack) == [expect |-> expect, stack |-> stack]

\* Parse, expectation by expectation: what each kind of lexeme does where it may come.
LEMMA ParseCases ==
  ASSUME NEW e, NEW stack, NEW k
  PROVE  /\ e \in {"value", "item"} /\ k \in {"string", "number"} =>
              Parse(State(e, stack), k) = After(stack)
         /\ e \in {"value", "item"} /\ k = "lbrace" =>
              Parse(State(e, stack), k) = State("name", Append(stack, "lbrace"))
         /\ e \in {"value", "item"} /\ k = "lbracket" =>
              Parse(State(e, stack), k) = State("item", Append(stack, "lbracket"))
         /\ e \in {"name", "next"} /\ k = "string" =>
              Parse(State(e, stack), k) = State("colon", stack)
         /\ e = "colon" /\ k = "colon" =>
              Parse(State(e, stack), k) = State("value", stack)
         /\ e = "more" /\ k = "comma" =>
              Parse(State(e, stack), k)
                = State(IF Last(stack) = "lbrace" THEN "next" ELSE "value", stack)
         /\ e \in {"more", "name", "item"} /\ Matches(stack, k) =>
              Parse(State(e, stack), k) = After(Front(stack))
<1>. DEFINE s == State(e, stack)
<1>0. /\ s.expect = e /\ s.stack = stack
      /\ \A f : [s EXCEPT !.expect = f] = State(f, stack)
  BY DEF State
<1>. HIDE DEF s
<1>1. ASSUME e \in {"value", "item"}, k \in {"string", "number"}
      PROVE  Parse(s, k) = After(stack)
  BY <1>0, <1>1 DEF Parse, Matches
<1>2. ASSUME e \in {"value", "item"}, k = "lbrace"
      PROVE  Parse(s, k) = State("name", Append(stack, "lbrace"))
  <2>1. Parse(s, k) = Inside(stack, k)
    BY <1>0, <1>2 DEF Parse, Matches
  <2>. QED  BY <1>2, <2>1 DEF Inside, State
<1>3. ASSUME e \in {"value", "item"}, k = "lbracket"
      PROVE  Parse(s, k) = State("item", Append(stack, "lbracket"))
  <2>1. Parse(s, k) = Inside(stack, k)
    BY <1>0, <1>3 DEF Parse, Matches
  <2>. QED  BY <1>3, <2>1 DEF Inside, State
<1>4. ASSUME e \in {"name", "next"}, k = "string"
      PROVE  Parse(s, k) = State("colon", stack)
  BY <1>0, <1>4 DEF Parse, Matches
<1>5. ASSUME e = "colon", k = "colon"
      PROVE  Parse(s, k) = State("value", stack)
  BY <1>0, <1>5 DEF Parse, Matches
<1>6. ASSUME e = "more", k = "comma"
      PROVE  Parse(s, k)
               = State(IF Last(stack) = "lbrace" THEN "next" ELSE "value", stack)
  BY <1>0, <1>6 DEF Parse, Matches
<1>7. ASSUME e \in {"more", "name", "item"}, Matches(stack, k)
      PROVE  Parse(s, k) = After(Front(stack))
  BY <1>0, <1>7 DEF Parse, Matches
<1>. QED  BY <1>1, <1>2, <1>3, <1>4, <1>5, <1>6, <1>7 DEF s

\* The bracket that was opened last is the top of the stack.
LEMMA Stacked ==
  ASSUME NEW stack \in Stacks, NEW k \in {"lbrace", "lbracket"}
  PROVE  /\ Append(stack, k) # <<>> /\ Last(Append(stack, k)) = k
         /\ Front(Append(stack, k)) = stack /\ Append(stack, k) \in Stacks
<1>. DEFINE longer == Append(stack, k)
<1>1. /\ longer \in Stacks /\ longer # <<>> /\ Len(longer) = Len(stack) + 1
      /\ Len(stack) \in Nat /\ longer[Len(longer)] = k
      /\ \A i \in 1..Len(stack) : longer[i] = stack[i]
  BY DEF Stacks
<1>. HIDE DEF longer
<1>2. SubSeq(longer, 1, Len(longer) - 1) = stack
  BY <1>1 DEF Stacks
<1>. QED  BY <1>1, <1>2 DEF Last, Front, longer

\* What may follow inside brackets that have been opened.
LEMMA ParseInside ==
  ASSUME NEW stack \in Stacks
  PROVE  /\ Parse(State("more", Append(stack, "lbrace")), "comma")
              = State("next", Append(stack, "lbrace"))
         /\ Parse(State("more", Append(stack, "lbracket")), "comma")
              = State("value", Append(stack, "lbracket"))
         /\ \A e \in {"more", "name"} :
              Parse(State(e, Append(stack, "lbrace")), "rbrace") = After(stack)
         /\ \A e \in {"more", "item"} :
              Parse(State(e, Append(stack, "lbracket")), "rbracket") = After(stack)
         /\ \A k \in {"lbrace", "lbracket"} :
              After(Append(stack, k)) = State("more", Append(stack, k))
<1>1. \A k \in {"lbrace", "lbracket"} :
        /\ Append(stack, k) # <<>> /\ Last(Append(stack, k)) = k
        /\ Front(Append(stack, k)) = stack
  BY Stacked
<1>2. Matches(Append(stack, "lbrace"), "rbrace")
  BY <1>1 DEF Matches
<1>3. Matches(Append(stack, "lbracket"), "rbracket")
  BY <1>1 DEF Matches
<1>4. \A k \in {"lbrace", "lbracket"} :
        After(Append(stack, k)) = State("more", Append(stack, k))
  BY <1>1 DEF After, State
<1>5. /\ Parse(State("more", Append(stack, "lbrace")), "comma")
           = State("next", Append(stack, "lbrace"))
      /\ Parse(State("more", Append(stack, "lbracket")), "comma")
           = State("value", Append(stack, "lbracket"))
  BY <1>1, ParseCases
<1>6. \A e \in {"more", "name"} :
        Parse(State(e, Append(stack, "lbrace")), "rbrace") = After(stack)
  BY <1>1, <1>2, ParseCases
<1>7. \A e \in {"more", "item"} :
        Parse(State(e, Append(stack, "lbracket")), "rbracket") = After(stack)
  BY <1>1, <1>3, ParseCases
<1>. QED  BY <1>4, <1>5, <1>6, <1>7, Zenon

\* A parse that has failed, or is at its end, fails for good.
LEMMA ParseFails ==
  ASSUME NEW p, NEW k
  PROVE  /\ p.expect \in {"nothing", "end"} => Parse(p, k).expect = "nothing"
         /\ p.expect = "colon" /\ k # "colon" => Parse(p, k).expect = "nothing"
         /\ p.expect \in {"name", "next"} /\ k \notin {"string", "rbrace", "rbracket"} =>
              Parse(p, k).expect = "nothing"
         /\ p.expect = "value" =>
              IF k \in {"string", "number"}
              THEN Parse(p, k).expect \in {"end", "more"}
              ELSE k \in {"lbrace", "lbracket"} \/ Parse(p, k).expect = "nothing"
         /\ k = "open" => Parse(p, k).expect = "nothing"
BY DEF Parse, Fail, Matches, After

\* The parse of lexemes depends on their kinds only, and what begins a sequence
\* is parsed first.
LEMMA ParsesByKind ==
  ASSUME NEW a \in Seq(Lexs), NEW b \in Seq(Lexs), Len(a) <= Len(b),
         \A i \in 1..Len(a) : a[i].kind = b[i].kind
  PROVE  \A i \in 0..Len(a) : Parses(a)[i] = Parses(b)[i]
<1>. DEFINE S == {n \in Nat : n <= Len(a) => Parses(a)[n] = Parses(b)[n]}
<1>1. Len(a) \in Nat /\ Len(b) \in Nat
  OBVIOUS
<1>2. /\ Parses(a)[0] = ParseStart
      /\ \A i \in 1..Len(a) : Parses(a)[i] = Parse(Parses(a)[i - 1], a[i].kind)
  BY <1>1, ParsesRecursion
<1>3. /\ Parses(b)[0] = ParseStart
      /\ \A i \in 1..Len(b) : Parses(b)[i] = Parse(Parses(b)[i - 1], b[i].kind)
  BY <1>1, ParsesRecursion
<1>4. 0 \in S
  BY <1>2, <1>3
<1>5. ASSUME NEW n \in Nat, n \in S PROVE n + 1 \in S
  <2>1. SUFFICES ASSUME n + 1 <= Len(a) PROVE Parses(a)[n + 1] = Parses(b)[n + 1]
    OBVIOUS
  <2>2. /\ n + 1 \in 1..Len(a) /\ n + 1 \in 1..Len(b) /\ (n + 1) - 1 = n
        /\ Parses(a)[n] = Parses(b)[n] /\ a[n + 1].kind = b[n + 1].kind
    BY <1>1, <1>5, <2>1
  <2>3. /\ Parses(a)[n + 1] = Parse(Parses(a)[n], a[n + 1].kind)
        /\ Parses(b)[n + 1] = Parse(Parses(b)[n], b[n + 1].kind)
    BY <1>2, <1>3, <2>2
  <2>. QED  BY <2>2, <2>3
<1>6. Nat \subseteq S
  <2>. HIDE DEF S
  <2>. QED  BY <1>4, <1>5, Counting
<1>. QED  BY <1>1, <1>6

\* The parse of one lexeme more is one step of the parse.
LEMMA ParsedMore ==
  ASSUME NEW a \in Seq(Lexs), NEW l \in Lexs
  PROVE  /\ Parsed(<<>>) = ParseStart
         /\ Parsed(Append(a, l)) = Parse(Parsed(a), l.kind)
<1>. DEFINE b == Append(a, l)
<1>1. /\ b \in Seq(Lexs) /\ Len(a) \in Nat /\ Len(b) = Len(a) + 1
      /\ b[Len(b)] = l /\ \A i \in 1..Len(a) : b[i] = a[i]
  OBVIOUS
<1>. HIDE DEF b
<1>2. Parses(a)[Len(a)] = Parses(b)[Len(a)]
  BY <1>1, ParsesByKind
<1>3. Parses(b)[Len(b)] = Parse(Parses(b)[Len(b) - 1], b[Len(b)].kind)
  <2>1. Len(b) \in Nat /\ Len(b) \in 1..Len(b)
    BY <1>1
  <2>. QED  BY <2>1, ParsesRecursion
<1>4. Len(b) - 1 = Len(a)
  BY <1>1
<1>5. Parsed(<<>>) = ParseStart
  <2>1. Len(<<>>) \in Nat /\ Len(<<>>) = 0
    OBVIOUS
  <2>. QED  BY <2>1, ParsesRecursion DEF Parsed
<1>6. Parsed(b) = Parse(Parsed(a), l.kind)
  BY <1>1, <1>2, <1>3, <1>4, Zenon DEF Parsed
<1>. QED  BY <1>5, <1>6 DEF b

\* A parse that fails at some lexeme fails.
LEMMA FailureStays ==
  ASSUME NEW a \in Seq(Lexs), NEW i \in 0..Len(a),
         Parses(a)[i].expect = "nothing"
  PROVE  Parsed(a).expect = "nothing"
<1>. DEFINE S == {n \in Nat : i + n <= Len(a) => Parses(a)[i + n].expect = "nothing"}
<1>1. Len(a) \in Nat
  OBVIOUS
<1>2. \A j \in 1..Len(a) : Parses(a)[j] = Parse(Parses(a)[j - 1], a[j].kind)
  BY <1>1, ParsesRecursion
<1>3. 0 \in S
  OBVIOUS
<1>4. ASSUME NEW n \in Nat, n \in S PROVE n + 1 \in S
  <2>1. SUFFICES ASSUME i + (n + 1) <= Len(a)
                 PROVE  Parses(a)[i + (n + 1)].expect = "nothing"
    OBVIOUS
  <2>2. /\ i + (n + 1) \in 1..Len(a) /\ (i + (n + 1)) - 1 = i + n
        /\ Parses(a)[i + n].expect = "nothing"
    BY <1>1, <1>4, <2>1
  <2>3. Parses(a)[i + (n + 1)] = Parse(Parses(a)[i + n], a[i + (n + 1)].kind)
    BY <1>2, <2>2
  <2>. QED  BY <2>2, <2>3, ParseFails
<1>5. Nat \subseteq S
  <2>. HIDE DEF S
  <2>. QED  BY <1>3, <1>4, Counting
<1>6. Len(a) - i \in S /\ i + (Len(a) - i) = Len(a)
  BY <1>1, <1>5
<1>. QED  BY <1>1, <1>6 DEF Parsed
-----------------------------------------------------------------------------
(* What a piece of text does to a parse, whatever has been read before it.  *)

At(s, p) == s \in ScanStates /\ s.at = "text" /\ Parsed(s.out) = p
Takes(text, p, q) ==
  text \in Texts /\ \A s \in ScanStates : At(s, p) => At(Scanned(s, text), q)

\* A value, the fields of an object.
Valued(v) ==
  \A stack \in Stacks, e \in {"value", "item"} :
    Takes(v, State(e, stack), After(stack))
Listed(f) ==
  \A stack \in Stacks, e \in {"name", "next"} :
    Takes(f, State(e, Append(stack, "lbrace")), State("more", Append(stack, "lbrace")))

\* What two texts do to a parse, one after the other, they do joined.
LEMMA TakesJoined ==
  ASSUME NEW a, NEW b, NEW p, NEW q, NEW r, Takes(a, p, q), Takes(b, q, r)
  PROVE  Takes(a \o b, p, r)
<1>1. a \in Texts /\ b \in Texts
  BY DEF Takes
<1>2. a \o b \in Texts
  BY <1>1, Joined
<1>3. ASSUME NEW s \in ScanStates, At(s, p) PROVE At(Scanned(s, a \o b), r)
  <2>1. At(Scanned(s, a), q) /\ Scanned(s, a) \in ScanStates
    BY <1>3 DEF Takes, At
  <2>2. At(Scanned(Scanned(s, a), b), r)
    BY <2>1 DEF Takes
  <2>. QED  BY <1>1, <2>2, ScannedJoined
<1>. QED  BY <1>2, <1>3, Zenon DEF Takes

\* A token outside strings does to a parse what a lexeme of its kind does.
LEMMA TakesMark ==
  ASSUME NEW t \in Tokens, t # Q, NEW p
  PROVE  Takes(<<t>>, p, Parse(p, t.kind))
<1>1. ASSUME NEW s \in ScanStates, At(s, p)
      PROVE  At(Scanned(s, <<t>>), Parse(p, t.kind))
  <2>. DEFINE l == Lexeme(t.kind, <<t>>)
              r == Scan(s, t)
  <2>1. r \in ScanStates /\ r.at = "text" /\ r.out = Append(s.out, l)
    BY <1>1, ScanSteps DEF At
  <2>2. s.out \in Seq(Lexs) /\ l \in Lexs /\ l.kind = t.kind
    BY Single DEF ScanStates, Lexs, Lexeme, Tokens
  <2>. HIDE DEF l, r
  <2>3. Parsed(r.out) = Parse(p, t.kind)
    BY <1>1, <2>1, <2>2, ParsedMore, Zenon DEF At
  <2>4. Scanned(s, <<t>>) = r
    BY ScannedFew DEF r
  <2>. QED  BY <2>1, <2>3, <2>4 DEF At
<1>. QED  BY <1>1, Single, Zenon DEF Takes

\* A word in quotes does to a parse what a string does.
LEMMA TakesString ==
  ASSUME NEW w \in Tokens, w # Q, NEW p
  PROVE  Takes(Quoted(w), p, Parse(p, "string"))
<1>1. ASSUME NEW s \in ScanStates, At(s, p)
      PROVE  At(Scanned(s, Quoted(w)), Parse(p, "string"))
  <2>. DEFINE r == Scanned(s, Quoted(w))
              l == Lexeme("string", <<w>>)
  <2>1. r \in ScanStates /\ r.at = "text" /\ r.out = Append(s.out, l)
    BY <1>1, QuotedScanned DEF At
  <2>2. s.out \in Seq(Lexs) /\ l \in Lexs /\ l.kind = "string"
    BY Single DEF ScanStates, Lexs, Lexeme
  <2>. HIDE DEF r, l
  <2>3. Parsed(r.out) = Parse(p, "string")
    BY <1>1, <2>1, <2>2, ParsedMore, Zenon DEF At
  <2>. QED  BY <2>1, <2>3 DEF At, r
<1>2. Quoted(w) \in Texts
  BY QuotedTyped DEF Long
<1>. QED  BY <1>1, <1>2, Zenon DEF Takes

\* The empty text leaves a parse where it is.
LEMMA TakesNothing == ASSUME NEW p PROVE Takes(<<>>, p, p)
<1>1. <<>> \in Texts
  BY DEF Texts
<1>2. \A s : Scanned(s, <<>>) = s
  BY ScannedFew
<1>. QED  BY <1>1, <1>2, Zenon DEF Takes

\* The punctuation.
LEMMA TakesPunctuation ==
  ASSUME NEW k \in Marks, k # "quote", NEW p
  PROVE  Takes(<<Mark(k)>>, p, Parse(p, k))
<1>1. Mark(k) \in Tokens /\ Mark(k) # Q /\ Mark(k).kind = k
  BY TokensTyped, Facts
<1>. QED  BY <1>1, TakesMark

\* Strings and numbers are values.
LEMMA ScalarsValued ==
  ASSUME NEW w \in Tokens, w # Q
  PROVE  /\ Valued(Quoted(w))
         /\ w.kind = "number" => Valued(<<w>>)
<1>1. \A stack \in Stacks, e \in {"value", "item"}, k \in {"string", "number"} :
        Parse(State(e, stack), k) = After(stack)
  BY ParseCases
<1>2. \A p : Takes(Quoted(w), p, Parse(p, "string")) /\ Takes(<<w>>, p, Parse(p, w.kind))
  BY TakesString, TakesMark
<1>3. \A stack \in Stacks, e \in {"value", "item"} :
        Takes(Quoted(w), State(e, stack), After(stack))
  BY <1>1, <1>2
<1>4. w.kind = "number" => \A stack \in Stacks, e \in {"value", "item"} :
                             Takes(<<w>>, State(e, stack), After(stack))
  BY <1>1, <1>2
<1>. QED  BY <1>3, <1>4 DEF Valued

\* A name, a colon and a value are a field.
LEMMA FieldListed ==
  ASSUME NEW w \in Tokens, w # Q, NEW v, Valued(v)
  PROVE  Listed(Field(w, v))
<1>1. SUFFICES ASSUME NEW stack \in Stacks, NEW e \in {"name", "next"}
      PROVE  Takes(Field(w, v), State(e, Append(stack, "lbrace")),
                   State("more", Append(stack, "lbrace")))
  BY DEF Listed
<1>. DEFINE inner == Append(stack, "lbrace")
<1>2. inner \in Stacks /\ After(inner) = State("more", inner)
  BY Stacked, ParseInside
<1>. HIDE DEF inner
<1>3. Takes(Quoted(w), State(e, inner), State("colon", inner))
  <2>1. Parse(State(e, inner), "string") = State("colon", inner)
    BY ParseCases
  <2>. QED  BY <2>1, TakesString
<1>4. Takes(<<Mark("colon")>>, State("colon", inner), State("value", inner))
  <2>1. Parse(State("colon", inner), "colon") = State("value", inner)
    BY ParseCases
  <2>2. "colon" \in Marks /\ "colon" # "quote"
    BY DEF Marks
  <2>3. Takes(<<Mark("colon")>>, State("colon", inner), Parse(State("colon", inner), "colon"))
    BY <2>2, TakesPunctuation
  <2>. QED  BY <2>1, <2>3
<1>5. Takes(v, State("value", inner), State("more", inner))
  BY <1>2 DEF Valued
<1>. DEFINE q == Quoted(w)
            c == <<Mark("colon")>>
<1>6. Field(w, v) = (q \o c) \o v
  BY DEF Field
<1>. HIDE DEF q, c
<1>7. Takes(q \o c, State(e, inner), State("value", inner))
  BY <1>3, <1>4, TakesJoined, Zenon DEF q, c
<1>8. Takes((q \o c) \o v, State(e, inner), State("more", inner))
  BY <1>5, <1>7, TakesJoined, Zenon
<1>. QED  BY <1>6, <1>8, Zenon DEF inner

\* Fields, a comma and fields are fields.
LEMMA MoreListed ==
  ASSUME NEW f, NEW g, Listed(f), Listed(g)
  PROVE  Listed(f \o Also \o g)
<1>1. SUFFICES ASSUME NEW stack \in Stacks, NEW e \in {"name", "next"}
      PROVE  Takes(f \o Also \o g, State(e, Append(stack, "lbrace")),
                   State("more", Append(stack, "lbrace")))
  BY DEF Listed
<1>. DEFINE inner == Append(stack, "lbrace")
<1>2. /\ Takes(f, State(e, inner), State("more", inner))
      /\ Takes(g, State("next", inner), State("more", inner))
  BY DEF Listed
<1>3. Takes(Also, State("more", inner), State("next", inner))
  <2>1. Parse(State("more", inner), "comma") = State("next", inner)
    BY ParseInside
  <2>2. "comma" \in Marks /\ "comma" # "quote"
    BY DEF Marks
  <2>3. Takes(Also, State("more", inner), Parse(State("more", inner), "comma"))
    BY <2>2, TakesPunctuation DEF Also
  <2>. QED  BY <2>1, <2>3
<1>. HIDE DEF inner
<1>4. Takes(f \o Also, State(e, inner), State("next", inner))
  BY <1>2, <1>3, TakesJoined, Zenon
<1>5. Takes((f \o Also) \o g, State(e, inner), State("more", inner))
  BY <1>2, <1>4, TakesJoined, Zenon
<1>. QED  BY <1>5, Zenon DEF inner

\* Fields in braces, or none, are a value.
LEMMA BracesValued ==
  ASSUME NEW f, Listed(f) \/ f = <<>>
  PROVE  Valued(Braces(f))
<1>1. SUFFICES ASSUME NEW stack \in Stacks, NEW e \in {"value", "item"}
      PROVE  Takes(Braces(f), State(e, stack), After(stack))
  BY DEF Valued
<1>. DEFINE inner == Append(stack, "lbrace")
            l == <<Mark("lbrace")>>
            r == <<Mark("rbrace")>>
<1>2. Takes(l, State(e, stack), State("name", inner))
  <2>1. Parse(State(e, stack), "lbrace") = State("name", inner)
    BY ParseCases
  <2>2. "lbrace" \in Marks /\ "lbrace" # "quote"
    BY DEF Marks
  <2>3. Takes(l, State(e, stack), Parse(State(e, stack), "lbrace"))
    BY <2>2, TakesPunctuation
  <2>. QED  BY <2>1, <2>3
<1>3. \A d \in {"more", "name"} : Takes(r, State(d, inner), After(stack))
  <2>1. \A d \in {"more", "name"} : Parse(State(d, inner), "rbrace") = After(stack)
    BY ParseInside
  <2>2. "rbrace" \in Marks /\ "rbrace" # "quote"
    BY DEF Marks
  <2>3. \A p : Takes(r, p, Parse(p, "rbrace"))
    BY <2>2, TakesPunctuation
  <2>. HIDE DEF r, inner
  <2>. QED  BY <2>1, <2>3
<1>4. PICK d \in {"more", "name"} : Takes(f, State("name", inner), State(d, inner))
  BY TakesNothing DEF Listed
<1>5. Braces(f) = (l \o f) \o r
  BY DEF Braces
<1>. HIDE DEF l, r, inner
<1>6. Takes(l \o f, State(e, stack), State(d, inner))
  BY <1>2, <1>4, TakesJoined, Zenon
<1>7. Takes((l \o f) \o r, State(e, stack), After(stack))
  BY <1>3, <1>6, TakesJoined, Zenon
<1>. QED  BY <1>5, <1>7, Zenon

\* A list of two objects.
LEMMA PairValued ==
  ASSUME NEW f, NEW g, Listed(f), Listed(g)
  PROVE  Valued(Brackets(Braces(f) \o Also \o Braces(g)))
<1>1. SUFFICES ASSUME NEW stack \in Stacks, NEW e \in {"value", "item"}
      PROVE  Takes(Brackets(Braces(f) \o Also \o Braces(g)), State(e, stack), After(stack))
  BY DEF Valued
<1>. DEFINE inner == Append(stack, "lbracket")
            l == <<Mark("lbracket")>>
            r == <<Mark("rbracket")>>
            a == Braces(f)
            b == Braces(g)
<1>2. Takes(l, State(e, stack), State("item", inner))
  <2>1. Parse(State(e, stack), "lbracket") = State("item", inner)
    BY ParseCases
  <2>2. "lbracket" \in Marks /\ "lbracket" # "quote"
    BY DEF Marks
  <2>3. Takes(l, State(e, stack), Parse(State(e, stack), "lbracket"))
    BY <2>2, TakesPunctuation
  <2>. QED  BY <2>1, <2>3
<1>3. Takes(r, State("more", inner), After(stack))
  <2>1. Parse(State("more", inner), "rbracket") = After(stack)
    BY ParseInside
  <2>2. "rbracket" \in Marks /\ "rbracket" # "quote"
    BY DEF Marks
  <2>3. \A p : Takes(r, p, Parse(p, "rbracket"))
    BY <2>2, TakesPunctuation
  <2>. HIDE DEF r, inner
  <2>. QED  BY <2>1, <2>3
<1>4. Takes(Also, State("more", inner), State("value", inner))
  <2>1. Parse(State("more", inner), "comma") = State("value", inner)
    BY ParseInside
  <2>2. "comma" \in Marks /\ "comma" # "quote"
    BY DEF Marks
  <2>3. \A p : Takes(Also, p, Parse(p, "comma"))
    BY <2>2, TakesPunctuation DEF Also
  <2>. HIDE DEF inner
  <2>. QED  BY <2>1, <2>3
<1>5. inner \in Stacks /\ After(inner) = State("more", inner)
  BY Stacked, ParseInside
<1>6. Valued(a) /\ Valued(b)
  BY BracesValued
<1>7. Brackets(Braces(f) \o Also \o Braces(g)) = (l \o ((a \o Also) \o b)) \o r
  BY DEF Brackets
<1>. HIDE DEF l, r, inner, a, b
<1>8. /\ Takes(a, State("item", inner), State("more", inner))
      /\ Takes(b, State("value", inner), State("more", inner))
  BY <1>5, <1>6 DEF Valued
<1>9. Takes(a \o Also, State("item", inner), State("value", inner))
  BY <1>4, <1>8, TakesJoined, Zenon
<1>10. Takes((a \o Also) \o b, State("item", inner), State("more", inner))
  BY <1>8, <1>9, TakesJoined, Zenon
<1>11. Takes(l \o ((a \o Also) \o b), State(e, stack), State("more", inner))
  BY <1>2, <1>10, TakesJoined, Zenon
<1>12. Takes((l \o ((a \o Also) \o b)) \o r, State(e, stack), After(stack))
  BY <1>3, <1>11, TakesJoined, Zenon
<1>. QED  BY <1>7, <1>12, Zenon
-----------------------------------------------------------------------------
(* The data of a reply.                                                    *)

\* The names, strings and numbers of the data are tokens of every length there is.
LEMMA LabelsTyped ==
  /\ \A id \in {"name1", "value1", "name2", "value2"}, n \in Nat \ {0} :
       /\ Word(id, n) \in Tokens /\ Word(id, n) # Q /\ Word(id, n).width = n
       /\ Word(id, n).kind = "word" /\ Word(id, n).id = id
       /\ Number(id, n) \in Tokens /\ Number(id, n) # Q
       /\ Number(id, n).kind = "number" /\ Number(id, n).width = n
       /\ Number(id, n).id = id
  /\ NameLengths \subseteq Nat \ {0} /\ StringLengths \subseteq Nat \ {0}
  /\ NumberLengths \subseteq Nat \ {0}
<1>1. {"name1", "value1", "name2", "value2"} \subseteq Labels
  BY DEF Labels
<1>. QED  BY <1>1, TokensTyped, Facts, LengthsAssumption

\* A field of an object: its name and its value.
LEMMA FieldsMade ==
  ASSUME NEW name \in {"name1", "name2"}, NEW value \in {"value1", "value2"},
         NEW f \in Fields(name, value)
  PROVE  \E w \in Names(name), v \in Scalars(value) :
           /\ f = Field(w, v)
           /\ w \in Tokens /\ w # Q /\ w.kind = "word" /\ w.id = name
           /\ w = Word(name, w.width) /\ w.width \in Nat \ {0}
           /\ Valued(v)
           /\ \E t \in Tokens :
                /\ t # Q /\ t.id = value
                /\ \/ v = Quoted(t) /\ t.kind = "word"
                   \/ v = <<t>> /\ t.kind = "number"
<1>1. PICK w \in Names(name), v \in Scalars(value) : f = Field(w, v)
  BY DEF Fields
<1>2. PICK n \in NameLengths : w = Word(name, n)
  BY DEF Names
<1>3. /\ n \in Nat \ {0} /\ w.width = n /\ w \in Tokens /\ w # Q
      /\ w.kind = "word" /\ w.id = name
  BY <1>2, LabelsTyped
<1>4. \E t \in Tokens :
        /\ t # Q /\ t.id = value
        /\ \/ v = Quoted(t) /\ t.kind = "word"
           \/ v = <<t>> /\ t.kind = "number"
  <2>1. CASE \E m \in StringLengths : v = Quoted(Word(value, m))
    <3>1. PICK m \in StringLengths : v = Quoted(Word(value, m))
      BY <2>1
    <3>2. /\ Word(value, m) \in Tokens /\ Word(value, m) # Q
          /\ Word(value, m).kind = "word" /\ Word(value, m).id = value
      BY LabelsTyped
    <3>. QED  BY <3>1, <3>2, Zenon
  <2>2. CASE \E m \in NumberLengths : v = <<Number(value, m)>>
    <3>1. PICK m \in NumberLengths : v = <<Number(value, m)>>
      BY <2>2
    <3>2. /\ Number(value, m) \in Tokens /\ Number(value, m) # Q
          /\ Number(value, m).kind = "number" /\ Number(value, m).id = value
      BY LabelsTyped
    <3>. QED  BY <3>1, <3>2, Zenon
  <2>. QED  BY <1>1, <2>1, <2>2, Zenon DEF Scalars
<1>5. Valued(v)
  BY <1>4, ScalarsValued
<1>6. w = Word(name, w.width) /\ w.width \in Nat \ {0}
  BY <1>2, <1>3
<1>. QED  BY <1>1, <1>3, <1>4, <1>5, <1>6, Zenon

\* The fields of the data are fields in the sense of JSON.
LEMMA FieldsListed ==
  ASSUME NEW name \in {"name1", "name2"}, NEW value \in {"value1", "value2"},
         NEW f \in Fields(name, value)
  PROVE  Listed(f)
BY FieldsMade, FieldListed

\* The fields of the reply to auth, and of the envelope.
LEMMA KnownFields ==
  /\ Listed(KeyField) /\ Listed(ExpiryField) /\ Listed(Permissions)
  /\ Listed(Field(Word("appTimeout", 10), <<Number("0", 1)>>))
  /\ Listed(Field(Word("errorCode", 9), <<Number("0", 1)>>))
  /\ Listed(Field(Word("state", 5), <<Number("0", 1)>>))
<1>1. \A id \in Labels, n \in Nat \ {0} :
        /\ Word(id, n) \in Tokens /\ Word(id, n) # Q
        /\ Valued(Quoted(Word(id, n))) /\ Valued(<<Number(id, n)>>)
  <2>. TAKE id \in Labels, n \in Nat \ {0}
  <2>1. /\ Word(id, n) \in Tokens /\ Word(id, n) # Q
        /\ Number(id, n) \in Tokens /\ Number(id, n) # Q
        /\ Number(id, n).kind = "number"
    BY TokensTyped, Facts
  <2>. QED  BY <2>1, ScalarsValued
<1>2. \A id \in Labels, n \in Nat \ {0} :
        \A v : Valued(v) => Listed(Field(Word(id, n), v))
  BY <1>1, FieldListed
<1>3. Listed(KeyField)
  <2>1. "key" \in Labels /\ 3 \in Nat \ {0}
        /\ "sessionKey" \in Labels /\ 12 \in Nat \ {0}
    BY DEF Labels
  <2>. QED  BY <1>1, <1>2, <2>1, Zenon DEF KeyField, SessionKey
<1>4. Listed(ExpiryField)
  <2>1. "expiresIn" \in Labels /\ 9 \in Nat \ {0}
        /\ "expiry" \in Labels /\ 3 \in Nat \ {0}
    BY DEF Labels
  <2>. QED  BY <1>1, <1>2, <2>1, Zenon DEF ExpiryField
<1>5. Listed(Permissions)
  <2>. DEFINE one == Field(Word("door1", 8), Braces(<<>>))
              two == Field(Word("door2", 8), Braces(<<>>))
  <2>1. Valued(Braces(<<>>))
    BY BracesValued
  <2>2. "door1" \in Labels /\ "door2" \in Labels /\ "devicePermissions" \in Labels
        /\ 8 \in Nat \ {0} /\ 17 \in Nat \ {0}
    BY DEF Labels
  <2>3. Listed(one) /\ Listed(two)
    BY <1>2, <2>1, <2>2, Zenon
  <2>. HIDE DEF one, two
  <2>4. Valued(Braces(one \o Also \o two))
    BY <2>3, MoreListed, BracesValued, Zenon
  <2>5. Permissions = Field(Word("devicePermissions", 17), Braces(one \o Also \o two))
    BY DEF Permissions, one, two
  <2>. QED  BY <1>2, <2>2, <2>4, <2>5, Zenon
<1>6. \A id \in {"appTimeout", "errorCode", "state"}, n \in Nat \ {0} :
        Listed(Field(Word(id, n), <<Number("0", 1)>>))
  <2>1. "0" \in Labels /\ 1 \in Nat \ {0}
        /\ \A id \in {"appTimeout", "errorCode", "state"} : id \in Labels
    BY DEF Labels
  <2>2. Valued(<<Number("0", 1)>>)
    BY <1>1, <2>1, Zenon
  <2>. QED  BY <1>2, <2>1, <2>2, Zenon
<1>. QED  BY <1>3, <1>4, <1>5, <1>6

\* Every reply's data is a value.
LEMMA DatasValued == \A d \in Datas : Valued(d)
<1>1. \A d \in Objects : Valued(d)
  <2>. TAKE d \in Objects
  <2>1. \/ \E f \in Fields("name1", "value1") : d = Braces(f)
        \/ \E f \in Fields("name1", "value1"), g \in Fields("name2", "value2") :
             d = Braces(f \o Also \o g)
    BY DEF Objects
  <2>2. CASE \E f \in Fields("name1", "value1") : d = Braces(f)
    BY <2>2, FieldsListed, BracesValued
  <2>3. CASE \E f \in Fields("name1", "value1"), g \in Fields("name2", "value2") :
               d = Braces(f \o Also \o g)
    <3>1. PICK f \in Fields("name1", "value1"), g \in Fields("name2", "value2") :
                 d = Braces(f \o Also \o g)
      BY <2>3
    <3>2. Listed(f) /\ Listed(g)
      BY FieldsListed
    <3>. QED  BY <3>1, <3>2, MoreListed, BracesValued, Zenon
  <2>. QED  BY <2>1, <2>2, <2>3
<1>2. \A d \in Lists : Valued(d)
  <2>. TAKE d \in Lists
  <2>1. PICK f \in Fields("name1", "value1"), g \in Fields("name2", "value2") :
               d = Brackets(Braces(f) \o Also \o Braces(g))
    BY DEF Lists
  <2>2. Listed(f) /\ Listed(g)
    BY FieldsListed
  <2>. QED  BY <2>1, <2>2, PairValued, Zenon
<1>3. \A d \in Strings : Valued(d)
  <2>. TAKE d \in Strings
  <2>1. PICK n \in StringLengths : d = Quoted(Word("value1", n))
    BY DEF Strings
  <2>2. Word("value1", n) \in Tokens /\ Word("value1", n) # Q
    BY LabelsTyped
  <2>. QED  BY <2>1, <2>2, ScalarsValued, Zenon
<1>4. Valued(Null)
  <2>1. "null" \in Labels /\ 4 \in Nat \ {0}
    BY DEF Labels
  <2>2. /\ Number("null", 4) \in Tokens /\ Number("null", 4) # Q
        /\ Number("null", 4).kind = "number"
    BY <2>1, TokensTyped, Facts
  <2>. QED  BY <2>2, ScalarsValued, Zenon DEF Null
<1>5. /\ Valued(ExpiryFirst) /\ Valued(KeyFirst)
      /\ Valued(DoorsFirst) /\ Valued(DoorsLater)
  BY KnownFields, MoreListed, BracesValued, Zenon
    DEF ExpiryFirst, KeyFirst, DoorsFirst, DoorsLater
<1>. QED  BY <1>1, <1>2, <1>3, <1>4, <1>5, Zenon DEF Datas

\* The envelope: what stands before the data, and behind it.
Open == <<"lbrace">>

\* What stands before the data opens an object and expects a value; what stands
\* behind it ends that object.
LEMMA EnvelopeTaken ==
  /\ Takes(DataPrefix, ParseStart, State("value", Open))
  /\ Takes(DataSuffix, State("more", Open), State("end", <<>>))
  /\ Open \in Stacks /\ After(Open) = State("more", Open)
<1>. DEFINE name == Quoted(Word("data", 4))
            l == <<Mark("lbrace")>>
            c == <<Mark("colon")>>
            r == <<Mark("rbrace")>>
            f1 == Field(Word("appTimeout", 10), <<Number("0", 1)>>)
            f2 == Field(Word("errorCode", 9), <<Number("0", 1)>>)
            f3 == Field(Word("state", 5), <<Number("0", 1)>>)
<1>1. /\ Open \in Stacks /\ <<>> \in Stacks /\ Append(<<>>, "lbrace") = Open
      /\ After(Open) = State("more", Open) /\ After(<<>>) = State("end", <<>>)
      /\ ParseStart = State("value", <<>>)
  BY DEF Open, Stacks, After, State, ParseStart
<1>. HIDE DEF Open
<1>2. \A p, k : k \in {"lbrace", "rbrace", "colon", "comma"} =>
                  Takes(<<Mark(k)>>, p, Parse(p, k))
  <2>1. {"lbrace", "rbrace", "colon", "comma"} \subseteq Marks \ {"quote"}
    BY DEF Marks
  <2>. QED  BY <2>1, TakesPunctuation
<1>3. /\ Parse(State("value", <<>>), "lbrace") = State("name", Open)
      /\ Parse(State("name", Open), "string") = State("colon", Open)
      /\ Parse(State("colon", Open), "colon") = State("value", Open)
  <2>1. \A stack :
          /\ Parse(State("value", stack), "lbrace") = State("name", Append(stack, "lbrace"))
          /\ Parse(State("name", stack), "string") = State("colon", stack)
          /\ Parse(State("colon", stack), "colon") = State("value", stack)
    BY ParseCases
  <2>. QED  BY <1>1, <2>1
<1>4. /\ Parse(State("more", Open), "comma") = State("next", Open)
      /\ Parse(State("more", Open), "rbrace") = State("end", <<>>)
  BY <1>1, ParseInside
<1>5. /\ Takes(l, State("value", <<>>), State("name", Open))
      /\ Takes(c, State("colon", Open), State("value", Open))
      /\ Takes(Also, State("more", Open), State("next", Open))
      /\ Takes(r, State("more", Open), State("end", <<>>))
  BY <1>2, <1>3, <1>4 DEF Also
<1>6. Takes(name, State("name", Open), State("colon", Open))
  <2>1. "data" \in Labels /\ 4 \in Nat \ {0}
    BY DEF Labels
  <2>2. Word("data", 4) \in Tokens /\ Word("data", 4) # Q
    BY <2>1, TokensTyped, Facts
  <2>. QED  BY <1>3, <2>2, TakesString
<1>7. \A f \in {f1, f2, f3} : Takes(f, State("next", Open), State("more", Open))
  <2>1. Listed(f1) /\ Listed(f2) /\ Listed(f3)
    BY KnownFields
  <2>. HIDE DEF f1, f2, f3
  <2>. QED  BY <1>1, <2>1 DEF Listed
<1>8. DataPrefix = (l \o name) \o c /\ DataSuffix = ((Also \o f1) \o Also) \o (((f2 \o Also) \o f3) \o r)
  BY DEF DataPrefix, DataSuffix, Ending
<1>. HIDE DEF name, l, c, r, f1, f2, f3
<1>9. Takes(DataPrefix, State("value", <<>>), State("value", Open))
  BY <1>5, <1>6, <1>8, TakesJoined, Zenon
<1>10. Takes(((f2 \o Also) \o f3) \o r, State("next", Open), State("end", <<>>))
  <2>1. Takes(f2 \o Also, State("next", Open), State("next", Open))
    BY <1>5, <1>7, TakesJoined, Zenon
  <2>2. Takes((f2 \o Also) \o f3, State("next", Open), State("more", Open))
    BY <2>1, <1>7, TakesJoined, Zenon
  <2>. QED  BY <1>5, <2>2, TakesJoined, Zenon
<1>11. Takes((Also \o f1) \o Also, State("more", Open), State("next", Open))
  <2>1. Takes(Also \o f1, State("more", Open), State("more", Open))
    BY <1>5, <1>7, TakesJoined, Zenon
  <2>. QED  BY <1>5, <2>1, TakesJoined, Zenon
<1>12. Takes(DataSuffix, State("more", Open), State("end", <<>>))
  BY <1>8, <1>10, <1>11, TakesJoined, Zenon
<1>. QED  BY <1>1, <1>9, <1>12, Zenon

\* A scan begins in text and has read nothing.
LEMMA StartTyped == ScanStart \in ScanStates /\ At(ScanStart, ParseStart)
<1>1. ScanStart \in ScanStates /\ ScanStart.at = "text" /\ ScanStart.out = <<>>
  BY DEF ScanStart, ScanStates, Texts
<1>2. Parsed(<<>>) = ParseStart
  <2>1. Len(<<>>) \in Nat /\ Len(<<>>) = 0
    OBVIOUS
  <2>. QED  BY <2>1, ParsesRecursion DEF Parsed
<1>. QED  BY <1>1, <1>2 DEF At

\* What the hub sends is JSON.
LEMMA PlaintextIsJson ==
  ASSUME NEW d \in Datas
  PROVE  /\ At(Scanned(ScanStart, Plaintext(d)), State("end", <<>>))
         /\ IsJson(Lexemes(Plaintext(d)))
<1>1. Takes(d, State("value", Open), State("more", Open))
  BY DatasValued, EnvelopeTaken DEF Valued
<1>2. Takes((DataPrefix \o d) \o DataSuffix, ParseStart, State("end", <<>>))
  BY <1>1, EnvelopeTaken, TakesJoined, Zenon
<1>3. At(Scanned(ScanStart, Plaintext(d)), State("end", <<>>))
  BY <1>2, StartTyped, Zenon DEF Takes, Plaintext
<1>4. IsJson(Lexemes(Plaintext(d)))
  <2>. DEFINE s == Scanned(ScanStart, Plaintext(d))
  <2>1. s.at = "text" /\ Parsed(s.out) = State("end", <<>>)
    BY <1>3 DEF At
  <2>. HIDE DEF s
  <2>2. (IF s.at = "string" THEN Append(s.out, Lexeme("open", <<>>)) ELSE s.out) = s.out
    BY <2>1
  <2>3. Lexemes(Plaintext(d)) = s.out
    BY <2>2, Zenon DEF Lexemes, s
  <2>. QED  BY <2>1, <2>3 DEF IsJson, State
<1>. QED  BY <1>3, <1>4
-----------------------------------------------------------------------------
(* Decryption: where the lost block ends.                                  *)

\* A text gets longer with every token.
LEMMA EndsGrow ==
  ASSUME NEW text \in Texts
  PROVE  /\ \A i \in 0..Len(text) : Ends(text)[i] \in Nat
         /\ \A i, j \in 0..Len(text) :
              i <= j => Ends(text)[i] + (j - i) <= Ends(text)[j]
<1>. DEFINE end == Ends(text)
            S == {n \in Nat : n <= Len(text) => end[n] \in Nat}
            T(i) == {n \in Nat : i + n <= Len(text) => end[i] + n <= end[i + n]}
<1>0. /\ Len(text) \in Nat
      /\ \A i \in 1..Len(text) : text[i].width \in Nat /\ 1 <= text[i].width
  BY Textual DEF Tokens
<1>1. end[0] = 0 /\ \A i \in 1..Len(text) : end[i] = end[i - 1] + text[i].width
  BY <1>0, EndsRecursion
<1>. HIDE DEF end
<1>2. 0 \in S
  BY <1>1
<1>3. ASSUME NEW n \in Nat, n \in S PROVE n + 1 \in S
  <2>1. SUFFICES ASSUME n + 1 <= Len(text) PROVE end[n + 1] \in Nat
    OBVIOUS
  <2>2. end[n + 1] = end[n] + text[n + 1].width /\ end[n] \in Nat
    BY <1>0, <1>1, <1>3, <2>1
  <2>. QED  BY <1>0, <2>1, <2>2
<1>4. \A i \in 0..Len(text) : end[i] \in Nat
  <2>1. Nat \subseteq S
    <3>. HIDE DEF S
    <3>. QED  BY <1>2, <1>3, Counting
  <2>. QED  BY <1>0, <2>1
<1>5. ASSUME NEW i \in 0..Len(text) PROVE Nat \subseteq T(i)
  <2>1. 0 \in T(i)
    BY <1>4
  <2>2. ASSUME NEW n \in Nat, n \in T(i) PROVE n + 1 \in T(i)
    <3>1. SUFFICES ASSUME i + (n + 1) <= Len(text)
                   PROVE  end[i] + (n + 1) <= end[i + (n + 1)]
      OBVIOUS
    <3>2. /\ i + (n + 1) \in 1..Len(text) /\ (i + (n + 1)) - 1 = i + n
          /\ end[i] + n <= end[i + n] /\ end[i] \in Nat /\ end[i + n] \in Nat
      BY <1>0, <1>4, <2>2, <3>1
    <3>3. end[i + (n + 1)] = end[i + n] + text[i + (n + 1)].width
      BY <1>1, <3>2
    <3>4. text[i + (n + 1)].width \in Nat /\ 1 <= text[i + (n + 1)].width
      BY <1>0, <3>2
    <3>. QED  BY <3>2, <3>3, <3>4
  <2>. HIDE DEF T
  <2>. QED  BY <2>1, <2>2, Counting
<1>6. ASSUME NEW i \in 0..Len(text), NEW j \in 0..Len(text), i <= j
      PROVE  end[i] + (j - i) <= end[j]
  <2>1. j - i \in T(i) /\ i + (j - i) = j
    BY <1>0, <1>5, <1>6
  <2>. QED  BY <1>0, <2>1
<1>. QED  BY <1>4, <1>6 DEF end

\* The token in which the lost block ends.
IsCut(text, k) ==
  k \in 1..Len(text) /\ Ends(text)[k - 1] <= Lost /\ Lost < Ends(text)[k]

Remains(text, k) ==
  <<[text[k] EXCEPT !.width = Ends(text)[k] - Lost]>> \o
  SubSeq(text, k + 1, Len(text))

\* The lost block ends in some token of a text that is longer.
LEMMA CutExists ==
  ASSUME NEW text \in Texts, NEW m \in 1..Len(text), Lost < Ends(text)[m]
  PROVE  \E k \in 1..m : IsCut(text, k)
<1>. DEFINE end == Ends(text)
            S == {n \in Nat : n <= m => end[n] <= Lost}
<1>0. Len(text) \in Nat /\ Lost \in Nat
  BY Textual DEF Lost
<1>1. end[0] = 0 /\ \A i \in 0..Len(text) : end[i] \in Nat
  BY <1>0, EndsRecursion, EndsGrow
<1>2. SUFFICES ASSUME \A k \in 1..m : ~(end[k - 1] <= Lost /\ Lost < end[k])
               PROVE  FALSE
  BY <1>0 DEF IsCut
<1>. HIDE DEF end
<1>3. 0 \in S
  BY <1>0, <1>1
<1>4. ASSUME NEW n \in Nat, n \in S PROVE n + 1 \in S
  <2>1. SUFFICES ASSUME n + 1 <= m PROVE end[n + 1] <= Lost
    OBVIOUS
  <2>2. /\ n + 1 \in 1..m /\ (n + 1) - 1 = n /\ end[n] <= Lost
        /\ end[n + 1] \in Nat
    BY <1>0, <1>1, <1>4, <2>1
  <2>3. ~(Lost < end[n + 1])
    BY <1>2, <2>2
  <2>. QED  BY <1>0, <2>2, <2>3
<1>5. m \in S
  <2>1. Nat \subseteq S
    <3>. HIDE DEF S
    <3>. QED  BY <1>3, <1>4, Counting
  <2>. QED  BY <1>0, <2>1
<1>6. end[m] <= Lost /\ Lost < end[m] /\ end[m] \in Nat
  BY <1>0, <1>1, <1>5 DEF end
<1>. QED  BY <1>0, <1>6

\* The lost block ends in one token only.
LEMMA CutUnique ==
  ASSUME NEW text \in Texts, NEW k, IsCut(text, k), NEW i, IsCut(text, i)
  PROVE  i = k
<1>. DEFINE end == Ends(text)
<1>1. /\ Len(text) \in Nat /\ Lost \in Nat
      /\ k \in 1..Len(text) /\ end[k - 1] <= Lost /\ Lost < end[k]
      /\ i \in 1..Len(text) /\ end[i - 1] <= Lost /\ Lost < end[i]
  BY Textual DEF IsCut, Lost
<1>2. /\ \A a \in 0..Len(text) : end[a] \in Nat
      /\ \A a, b \in 0..Len(text) : a <= b => end[a] + (b - a) <= end[b]
  BY EndsGrow
<1>. HIDE DEF end
<1>3. ASSUME i < k PROVE FALSE
  <2>1. i \in 0..Len(text) /\ k - 1 \in 0..Len(text) /\ i <= k - 1
    BY <1>1, <1>3
  <2>2. end[i] + ((k - 1) - i) <= end[k - 1] /\ end[i] \in Nat /\ end[k - 1] \in Nat
    BY <1>2, <2>1
  <2>. QED  BY <1>1, <2>1, <2>2
<1>4. ASSUME k < i PROVE FALSE
  <2>1. k \in 0..Len(text) /\ i - 1 \in 0..Len(text) /\ k <= i - 1
    BY <1>1, <1>4
  <2>2. end[k] + ((i - 1) - k) <= end[i - 1] /\ end[k] \in Nat /\ end[i - 1] \in Nat
    BY <1>2, <2>1
  <2>. QED  BY <1>1, <2>1, <2>2
<1>. QED  BY <1>1, <1>3, <1>4

\* Decryption leaves the rest of the token in which the block ends, and what follows.
LEMMA Decrypted ==
  ASSUME NEW text \in Texts, NEW k, IsCut(text, k)
  PROVE  DecryptPairingReply(text) = Remains(text, k)
<1>. DEFINE first == CHOOSE i \in 1..Len(text) :
                       Ends(text)[i - 1] <= Lost /\ Lost < Ends(text)[i]
<1>1. \E i \in 1..Len(text) : Ends(text)[i - 1] <= Lost /\ Lost < Ends(text)[i]
  BY DEF IsCut
<1>2. IsCut(text, first)
  <2>1. first \in 1..Len(text) /\ Ends(text)[first - 1] <= Lost
        /\ Lost < Ends(text)[first]
    BY <1>1
  <2>. QED  BY <2>1 DEF IsCut
<1>3. first = k
  <2>. HIDE DEF first
  <2>. QED  BY <1>2, CutUnique
<1>4. DecryptPairingReply(text) = Remains(text, first)
  BY Zenon DEF DecryptPairingReply, Remains
<1>. QED  BY <1>3, <1>4

\* What is left is a text, of which only the first token may be shorter.
LEMMA TailTyped ==
  ASSUME NEW text \in Texts, NEW k, IsCut(text, k)
  PROVE  /\ Remains(text, k) \in Texts
         /\ Len(Remains(text, k)) = Len(text) - k + 1
         /\ Remains(text, k)[1].width = Ends(text)[k] - Lost
         /\ Remains(text, k)[1] \in Tokens
         /\ Remains(text, k)[1].kind = text[k].kind /\ Remains(text, k)[1].id = text[k].id
         /\ \A i \in 2..(Len(text) - k + 1) : Remains(text, k)[i] = text[k + i - 1]
<1>. DEFINE n == Ends(text)[k] - Lost
            t == [text[k] EXCEPT !.width = n]
            rest == SubSeq(text, k + 1, Len(text))
<1>1. /\ Len(text) \in Nat /\ k \in 1..Len(text) /\ n \in Nat \ {0}
      /\ text[k] \in Tokens
  <2>1. Len(text) \in Nat /\ k \in 1..Len(text) /\ text[k] \in Tokens
    BY Textual DEF IsCut
  <2>2. Ends(text)[k] \in Nat /\ Lost < Ends(text)[k]
    BY <2>1, EndsGrow DEF IsCut
  <2>. QED  BY <2>1, <2>2 DEF Lost
<1>. HIDE DEF n
<1>2. t \in Tokens /\ t.kind = text[k].kind /\ t.id = text[k].id /\ t.width = n
  BY <1>1 DEF Tokens
<1>3. /\ rest \in Texts /\ Len(rest) = Len(text) - k
      /\ \A i \in 1..(Len(text) - k) : rest[i] = text[k + i]
  BY <1>1 DEF Texts
<1>. HIDE DEF t, rest
<1>4. /\ <<t>> \o rest \in Texts /\ Len(<<t>> \o rest) = Len(text) - k + 1
      /\ (<<t>> \o rest)[1] = t
      /\ \A i \in 2..(Len(text) - k + 1) : (<<t>> \o rest)[i] = rest[i - 1]
  <2>. DEFINE one == <<t>>
              z == one \o rest
              m == Len(one)
  <2>1. one \in Texts /\ one[1] = t /\ m \in Nat /\ 1 <= m /\ m <= 1
    BY <1>2, Single, Textual DEF Long
  <2>. HIDE DEF one
  <2>2. /\ z \in Texts /\ Len(z) = m + Len(rest) /\ Len(rest) \in Nat
        /\ \A i \in 1..m : z[i] = one[i]
        /\ \A i \in 1..Len(rest) : z[m + i] = rest[i]
    BY <1>3, <2>1, Joined
  <2>. HIDE DEF z, m
  <2>3. m = 1 /\ Len(z) = Len(text) - k + 1 /\ z[1] = t
    BY <1>1, <1>3, <2>1, <2>2
  <2>4. ASSUME NEW i \in 2..(Len(text) - k + 1) PROVE z[i] = rest[i - 1]
    <3>1. i - 1 \in 1..Len(rest) /\ m + (i - 1) = i
      BY <1>1, <1>3, <2>3
    <3>. QED  BY <2>2, <3>1
  <2>5. /\ z \in Texts /\ Len(z) = Len(text) - k + 1 /\ z[1] = t
        /\ \A i \in 2..(Len(text) - k + 1) : z[i] = rest[i - 1]
    BY <2>2, <2>3, <2>4
  <2>. QED  BY <2>5, Zenon DEF z, one
<1>5. \A i \in 2..(Len(text) - k + 1) : rest[i - 1] = text[k + i - 1]
  BY <1>1, <1>3
<1>6. Remains(text, k) = <<t>> \o rest
  BY DEF Remains, t, rest, n
<1>. QED  BY <1>2, <1>4, <1>5, <1>6 DEF n

\* After its first token what remains is the text from the cut on.
Shifted(text, k) == \A i \in 2..(Len(text) - k + 1) : Remains(text, k)[i] = text[k + i - 1]

\* What remains after a cut is so shifted.
LEMMA TailShifted ==
  ASSUME NEW text \in Texts, NEW k, IsCut(text, k)
  PROVE  Shifted(text, k)
BY TailTyped DEF Shifted

\* What stands behind the cut stays where it is.
LEMMA TailJoined ==
  ASSUME NEW a \in Texts, NEW b \in Texts, NEW k \in 1..Len(a), IsCut(a \o b, k)
  PROVE  \E y \in Texts :
           /\ Remains(a \o b, k) = y \o b
           /\ Len(y) = Len(a) - k + 1
           /\ \A i \in 1..Len(y) : y[i] = Remains(a \o b, k)[i]
<1>. DEFINE ab == a \o b
            t == Remains(ab, k)
            n == Len(a) - k + 1
            y == SubSeq(t, 1, n)
<1>1. /\ ab \in Texts /\ Len(ab) = Len(a) + Len(b)
      /\ Len(a) \in Nat /\ Len(b) \in Nat
      /\ \A i \in 1..Len(b) : ab[Len(a) + i] = b[i]
      /\ IsCut(ab, k)
  BY Joined
<1>. HIDE DEF ab
<1>2. /\ t \in Texts /\ Len(t) = Len(ab) - k + 1
      /\ \A i \in 2..(Len(ab) - k + 1) : t[i] = ab[k + i - 1]
  <2>. HIDE DEF t, n
  <2>0. ab \in Texts /\ IsCut(ab, k)
    BY <1>1
  <2>1. Remains(ab, k) \in Texts
    BY <2>0, TailTyped, Zenon
  <2>2. Len(Remains(ab, k)) = Len(ab) - k + 1
    BY <2>0, TailTyped, Zenon
  <2>3. Shifted(ab, k)
    BY <2>0, TailShifted, Zenon
  <2>. QED  BY <2>1, <2>2, <2>3 DEF t, Shifted
<1>. HIDE DEF t
<1>3. Len(t) = n + Len(b) /\ n \in 1..Len(t) /\ n \in Nat
  BY <1>1, <1>2
<1>4. \A i \in 1..Len(b) : t[n + i] = b[i]
  <2>. TAKE j \in 1..Len(b)
  <2>1. n + j \in 2..(Len(ab) - k + 1) /\ k + (n + j) - 1 = Len(a) + j
    BY <1>1, <1>3
  <2>2. t[n + j] = ab[k + (n + j) - 1]
    BY <1>2, <2>1
  <2>. QED  BY <1>1, <2>1, <2>2
<1>. HIDE DEF n
<1>5. /\ y \in Texts /\ Len(y) = n
      /\ \A i \in 1..n : y[i] = t[i]
  BY <1>2, <1>3 DEF Texts
<1>. HIDE DEF y
<1>6. y \o b = t
  <2>. DEFINE z == y \o b
  <2>1. /\ Len(z) = n + Len(b) /\ z \in Texts
        /\ \A i \in 1..n : z[i] = y[i]
        /\ \A i \in 1..Len(b) : z[n + i] = b[i]
    BY <1>5, Joined
  <2>. HIDE DEF z
  <2>2. ASSUME NEW x \in 1..(n + Len(b)) PROVE z[x] = t[x]
    <3>1. CASE x \in 1..n
      BY <1>5, <2>1, <3>1
    <3>2. CASE n + 1 <= x
      <4>. DEFINE j == x - n
      <4>1. n + j = x /\ j \in 1..Len(b)
        BY <1>1, <1>3, <3>2
      <4>. HIDE DEF j
      <4>2. z[n + j] = b[j]
        BY <2>1, <4>1
      <4>3. t[n + j] = b[j]
        BY <1>4, <4>1
      <4>. QED  BY <4>1, <4>2, <4>3
    <3>. QED  BY <1>1, <1>3, <3>1, <3>2
  <2>3. z \in Texts /\ Len(z) = n + Len(b) /\ \A i \in 1..Len(z) : z[i] = t[i]
    BY <2>1, <2>2
  <2>4. z = t
    BY <1>2, <1>3, <2>3 DEF Texts
  <2>. QED  BY <2>4 DEF z
<1>. QED  BY <1>5, <1>6 DEF ab, t, n
-----------------------------------------------------------------------------
(* The error code.                                                         *)

\* What has been read stays read.
LEMMA ReadStays ==
  ASSUME NEW text \in Texts, NEW s \in ScanStates
  PROVE  /\ Len(s.out) <= Len(Scanned(s, text).out)
         /\ \A i \in 1..Len(s.out) : Scanned(s, text).out[i] = s.out[i]
<1>. DEFINE I == {r \in ScanStates : /\ Len(s.out) <= Len(r.out)
                                     /\ \A i \in 1..Len(s.out) : r.out[i] = s.out[i]}
<1>0. s.out \in Seq(Lexs)
  BY DEF ScanStates
<1>1. s \in I
  BY <1>0
<1>2. ASSUME NEW r \in I, NEW t \in Tokens PROVE Scan(r, t) \in I
  <2>1. r \in ScanStates /\ r.out \in Seq(Lexs) /\ r.at \in {"text", "string"}
    BY DEF ScanStates
  <2>2. \/ Scan(r, t).out = r.out
        \/ Scan(r, t).out = Append(r.out, Lexeme("string", r.read))
        \/ Scan(r, t).out = Append(r.out, Lexeme(t.kind, <<t>>))
    BY <2>1, ScanSteps
  <2>3. \A x : /\ Len(s.out) <= Len(Append(r.out, x))
               /\ \A i \in 1..Len(s.out) : Append(r.out, x)[i] = s.out[i]
    BY <1>0, <2>1
  <2>4. /\ Len(s.out) <= Len(Scan(r, t).out)
        /\ \A i \in 1..Len(s.out) : Scan(r, t).out[i] = s.out[i]
    BY <2>2, <2>3, Zenon
  <2>. QED  BY <2>1, <2>4, ScanSteps
<1>3. Len(text) \in 0..Len(text)
  BY Textual
<1>. HIDE DEF I
<1>4. Scanned(s, text) \in I
  BY <1>1, <1>2, <1>3, ScanInduction DEF Scanned
<1>. QED  BY <1>4 DEF I

\* A text with an even number of quotes leaves a scan in or out of a string.
Even(text) ==
  text \in Texts /\ \A s \in ScanStates : Scanned(s, text).at = s.at

\* Two texts that leave a scan in or out of a string do so joined.
LEMMA EvenJoined ==
  ASSUME NEW a, NEW b, Even(a), Even(b)
  PROVE  Even(a \o b)
<1>1. a \in Texts /\ b \in Texts /\ a \o b \in Texts
  BY Joined DEF Even
<1>2. ASSUME NEW s \in ScanStates PROVE Scanned(s, a \o b).at = s.at
  <2>1. Scanned(s, a) \in ScanStates /\ Scanned(s, a).at = s.at
    BY <1>1, ScannedTyped DEF Even
  <2>2. Scanned(Scanned(s, a), b).at = s.at
    BY <2>1 DEF Even
  <2>. QED  BY <1>1, <2>2, ScannedJoined
<1>. QED  BY <1>1, <1>2 DEF Even

\* A word does not end a string, and in quotes ends what it begins.
LEMMA EvenTokens ==
  ASSUME NEW w \in Tokens, w # Q
  PROVE  Even(<<w>>) /\ Even(Quoted(w))
<1>1. <<w>> \in Texts /\ Quoted(w) \in Texts
  BY Single, QuotedTyped DEF Long
<1>2. \A s \in ScanStates : Scanned(s, Quoted(w)).at = s.at
  BY QuotedScanned
<1>3. ASSUME NEW s \in ScanStates PROVE Scanned(s, <<w>>).at = s.at
  <2>0. s.at \in {"text", "string"}
    BY DEF ScanStates
  <2>1. Scan(s, w).at = s.at
    BY <2>0, StringGoesOn, TextGoesOn
  <2>. QED  BY <2>1, ScannedFew
<1>. QED  BY <1>1, <1>2, <1>3 DEF Even

\* Three texts may be joined in either order.
Assoc(a, b, c) == (a \o b) \o c = a \o (b \o c) /\ b \o c \in Texts

\* Concatenation is associative.
LEMMA Associated ==
  ASSUME NEW head \in Texts, NEW middle \in Texts, NEW last \in Texts
  PROVE  Assoc(head, middle, last)
BY ConcatAssociative DEF Texts, Assoc

ErrorCode == Word("errorCode", 9)
ErrorCodeField == Field(ErrorCode, <<Number("0", 1)>>)

\* The end of a reply begins with the name of its error code.
LEMMA EndingTyped ==
  /\ ErrorCode \in Tokens /\ ErrorCode # Q
  /\ Even(Ending) /\ Ending \in Texts /\ 5 <= Len(Ending)
  /\ Ending[1] = Q /\ Ending[2] = ErrorCode /\ Ending[3] = Q
  /\ Ending[4] = Mark("colon")
  /\ \E z \in Texts : Ending = Quoted(ErrorCode) \o z
<1>. DEFINE q == Quoted(ErrorCode)
            c == <<Mark("colon")>>
            n == <<Number("0", 1)>>
            r == <<Mark("rbrace")>>
            w == Word("state", 5)
            p == Quoted(w)
<1>1. /\ Mark("colon") \in Tokens /\ Mark("colon") # Q
      /\ Mark("comma") \in Tokens /\ Mark("comma") # Q
      /\ Mark("rbrace") \in Tokens /\ Mark("rbrace") # Q
      /\ Number("0", 1) \in Tokens /\ Number("0", 1) # Q
      /\ w \in Tokens /\ w # Q /\ ErrorCode \in Tokens /\ ErrorCode # Q
  <2>1. {"colon", "comma", "rbrace"} \subseteq Marks \ {"quote"}
    BY DEF Marks
  <2>2. {"0", "state", "errorCode"} \subseteq Labels
    BY DEF Labels
  <2>. QED  BY <2>1, <2>2, TokensTyped, Facts DEF ErrorCode
<1>2. Even(c) /\ Even(n) /\ Even(r) /\ Even(Also) /\ Even(p) /\ Even(q)
  BY <1>1, EvenTokens DEF Also
<1>3. /\ Ending = ((ErrorCodeField \o Also) \o ((p \o c) \o n)) \o r
      /\ ErrorCodeField = (q \o c) \o n
  BY DEF Ending, ErrorCodeField, Field, ErrorCode
<1>4. /\ Long(ErrorCodeField, 5) /\ ErrorCodeField[1] = Q
      /\ ErrorCodeField[2] = ErrorCode /\ ErrorCodeField[3] = Q
      /\ ErrorCodeField[4] = Mark("colon")
  <2>1. Long(n, 1)
    BY <1>1, Single
  <2>2. /\ Long(ErrorCodeField, 4 + 1) /\ ErrorCodeField[1] = Q
        /\ ErrorCodeField[2] = ErrorCode /\ ErrorCodeField[3] = Q
        /\ ErrorCodeField[4] = Mark("colon")
    <3>. HIDE DEF n
    <3>1. ErrorCodeField = Field(ErrorCode, n)
      BY DEF ErrorCodeField, n
    <3>. QED  BY <1>1, <2>1, <3>1, FieldTyped
  <2>. QED  BY <2>2
<1>. HIDE DEF q, c, n, r, p
<1>5. Even((p \o c) \o n) /\ Even(ErrorCodeField) /\ Even(ErrorCodeField \o Also)
  BY <1>2, <1>3, EvenJoined, Zenon
<1>. DEFINE m == (p \o c) \o n
<1>6. Even(m) /\ Ending = ((ErrorCodeField \o Also) \o m) \o r
  BY <1>3, <1>5
<1>. HIDE DEF m
<1>7. Even(Ending) /\ Ending \in Texts
  <2>1. Even(Ending)
    BY <1>2, <1>5, <1>6, EvenJoined, Zenon
  <2>. QED  BY <2>1 DEF Even
<1>8. /\ q \in Texts /\ c \in Texts /\ n \in Texts /\ r \in Texts /\ Also \in Texts
      /\ m \in Texts /\ ErrorCodeField \in Texts
  BY <1>2, <1>5, <1>6 DEF Even
<1>9. \E z \in Texts : Ending = ErrorCodeField \o z
  <2>1. (ErrorCodeField \o Also) \o m = ErrorCodeField \o (Also \o m) /\ Also \o m \in Texts
    <3>1. Assoc(ErrorCodeField, Also, m)
      BY <1>8, Associated, Zenon
    <3>. QED  BY <3>1, Zenon DEF Assoc
  <2>2. (ErrorCodeField \o (Also \o m)) \o r = ErrorCodeField \o ((Also \o m) \o r)
        /\ (Also \o m) \o r \in Texts
    <3>1. Assoc(ErrorCodeField, Also \o m, r)
      BY <1>8, <2>1, Associated, Zenon
    <3>. QED  BY <3>1, Zenon DEF Assoc
  <2>. QED  BY <1>6, <2>1, <2>2, Zenon
<1>10. PICK z \in Texts : Ending = ErrorCodeField \o z
  BY <1>9
<1>11. /\ 5 <= Len(Ending) /\ Ending[1] = Q /\ Ending[2] = ErrorCode
       /\ Ending[3] = Q /\ Ending[4] = Mark("colon")
  <2>1. 5 <= Len(ErrorCodeField) /\ Len(ErrorCodeField) \in Nat
    BY <1>4, Textual DEF Long
  <2>2. /\ Len(ErrorCodeField \o z) = Len(ErrorCodeField) + Len(z) /\ Len(z) \in Nat
        /\ \A i \in 1..Len(ErrorCodeField) : (ErrorCodeField \o z)[i] = ErrorCodeField[i]
    BY <1>8, Joined
  <2>. HIDE DEF ErrorCodeField
  <2>3. {1, 2, 3, 4} \subseteq 1..Len(ErrorCodeField)
    BY <2>1
  <2>. QED  BY <1>4, <1>10, <2>1, <2>2, <2>3
<1>12. \E y \in Texts : Ending = q \o y
  <2>0. (q \o c) \o n = q \o (c \o n) /\ c \o n \in Texts
    <3>1. q \in Texts /\ c \in Texts /\ n \in Texts
      BY <1>8
    <3>2. Assoc(q, c, n)
      BY <3>1, Associated, Zenon
    <3>. QED  BY <3>2, Zenon DEF Assoc
  <2>1. ErrorCodeField = q \o (c \o n)
    BY <1>3, <2>0, Zenon
  <2>2. (q \o (c \o n)) \o z = q \o ((c \o n) \o z) /\ (c \o n) \o z \in Texts
    <3>1. q \in Texts /\ c \o n \in Texts
      BY <1>8, <2>0
    <3>2. Assoc(q, c \o n, z)
      BY <3>1, Associated, Zenon
    <3>. QED  BY <3>2, Zenon DEF Assoc
  <2>. QED  BY <1>10, <2>1, <2>2, Zenon
<1>. QED  BY <1>1, <1>7, <1>11, <1>12 DEF q

\* A text that ends as a reply does and is JSON shows the error code.
LEMMA EndingRead ==
  ASSUME NEW x \in Texts, IsJson(Lexemes(x \o Ending))
  PROVE  HasField(Lexemes(x \o Ending), ErrorCode)
<1>. DEFINE s == Scanned(ScanStart, x)
            e == Scanned(s, Ending)
            l == Lexeme("string", <<ErrorCode>>)
<1>1. s \in ScanStates
  BY StartTyped, ScannedTyped
<1>2. /\ e \in ScanStates /\ e.at = s.at
      /\ Scanned(ScanStart, x \o Ending) = e
  BY <1>1, EndingTyped, ScannedTyped, ScannedJoined DEF Even
<1>3. Lexemes(x \o Ending) = IF e.at = "string" THEN Append(e.out, Lexeme("open", <<>>))
                             ELSE e.out
  BY <1>2, Zenon DEF Lexemes
<1>4. e.out \in Seq(Lexs) /\ Lexeme("open", <<>>) \in Lexs
      /\ Lexeme("open", <<>>).kind = "open"
  BY <1>2 DEF ScanStates, Lexs, Lexeme, Texts
<1>. HIDE DEF e
<1>5. ASSUME e.at = "string" PROVE FALSE
  <2>1. Lexemes(x \o Ending) = Append(e.out, Lexeme("open", <<>>))
    BY <1>3, <1>5
  <2>2. Parsed(Lexemes(x \o Ending)) = Parse(Parsed(e.out), "open")
    BY <1>4, <2>1, ParsedMore
  <2>3. Parse(Parsed(e.out), "open").expect = "nothing"
    BY ParseFails
  <2>4. Parsed(Lexemes(x \o Ending)).expect = "end"
    BY DEF IsJson
  <2>. QED  BY <2>2, <2>3, <2>4
<1>6. s.at = "text"
  BY <1>1, <1>2, <1>5 DEF ScanStates
<1>7. PICK z \in Texts : Ending = Quoted(ErrorCode) \o z
  BY EndingTyped
<1>. DEFINE r == Scanned(s, Quoted(ErrorCode))
<1>8. r \in ScanStates /\ r.out = Append(s.out, l)
  BY <1>1, <1>6, EndingTyped, QuotedScanned
<1>9. e = Scanned(r, z)
  <2>1. Quoted(ErrorCode) \in Texts
    BY EndingTyped, QuotedTyped DEF Long
  <2>. QED  BY <1>7, <2>1, ScannedJoined DEF e
<1>10. l \in Lexs
  BY EndingTyped, Single DEF Lexs, Lexeme
<1>11. \E i \in 1..Len(r.out) : r.out[i] = l
  <2>1. s.out \in Seq(Lexs)
    BY <1>1 DEF ScanStates
  <2>. HIDE DEF l, s, r
  <2>2. Len(s.out) + 1 \in 1..Len(r.out) /\ r.out[Len(s.out) + 1] = l
    BY <1>8, <1>10, <2>1
  <2>. QED  BY <2>2
<1>12. \E i \in DOMAIN e.out : e.out[i] = l
  <2>. HIDE DEF l, r
  <2>1. /\ Len(r.out) <= Len(e.out)
        /\ \A i \in 1..Len(r.out) : e.out[i] = r.out[i]
    BY <1>8, <1>9, ReadStays
  <2>2. r.out \in Seq(Lexs)
    BY <1>8 DEF ScanStates
  <2>. QED  BY <1>4, <1>11, <2>1, <2>2
<1>13. Lexemes(x \o Ending) = e.out
  BY <1>3, <1>5
<1>. QED  BY <1>12, <1>13, Zenon DEF HasField
\* The first five tokens of a reply, and where they end.
LEMMA PrefixTyped ==
  /\ Long(DataPrefix, 5)
  /\ DataPrefix[1] = Mark("lbrace") /\ DataPrefix[2] = Q
  /\ DataPrefix[3] = Word("data", 4) /\ DataPrefix[4] = Q
  /\ DataPrefix[5] = Mark("colon")
<1>. DEFINE l == <<Mark("lbrace")>>
            q == Quoted(Word("data", 4))
            c == <<Mark("colon")>>
            h == l \o q
<1>1. Mark("lbrace") \in Tokens /\ Mark("colon") \in Tokens /\ Word("data", 4) \in Tokens
  <2>1. "lbrace" \in Marks /\ "colon" \in Marks /\ "data" \in Labels
    BY DEF Marks, Labels
  <2>. QED  BY <2>1, TokensTyped
<1>2. /\ Long(l, 1) /\ l[1] = Mark("lbrace") /\ Long(c, 1) /\ c[1] = Mark("colon")
      /\ Long(q, 3) /\ q[1] = Q /\ q[2] = Word("data", 4) /\ q[3] = Q
  BY <1>1, Single, QuotedTyped
<1>3. DataPrefix = h \o c
  BY DEF DataPrefix
<1>. HIDE DEF l, q, c
<1>4. /\ Long(h, 4) /\ h[1] = Mark("lbrace") /\ h[2] = Q /\ h[3] = Word("data", 4)
      /\ h[4] = Q
  BY <1>2 DEF Long, Texts
<1>. HIDE DEF h
<1>5. /\ Long(h \o c, 5) /\ (h \o c)[1] = Mark("lbrace") /\ (h \o c)[2] = Q
      /\ (h \o c)[3] = Word("data", 4) /\ (h \o c)[4] = Q
      /\ (h \o c)[5] = Mark("colon")
  BY <1>2, <1>4 DEF Long, Texts
<1>. QED  BY <1>3, <1>5, Zenon

\* Eight characters, five tokens, stand before the data.
LEMMA PrefixEnds ==
  ASSUME NEW text \in Texts
  PROVE  /\ DataPrefix \o text \in Texts /\ 5 <= Len(DataPrefix \o text)
         /\ Ends(DataPrefix \o text)[5] = 8
         /\ \A i \in 1..5 : (DataPrefix \o text)[i] = DataPrefix[i]
         /\ \A i \in 1..Len(text) : (DataPrefix \o text)[5 + i] = text[i]
         /\ Len(DataPrefix \o text) = 5 + Len(text)
<1>. DEFINE all == DataPrefix \o text
            end == Ends(all)
<1>0. /\ DataPrefix \in Texts /\ 5 <= Len(DataPrefix) /\ Len(DataPrefix) <= 5
  BY PrefixTyped DEF Long
<1>1. /\ all \in Texts /\ Len(all) = Len(DataPrefix) + Len(text) /\ Len(text) \in Nat
      /\ Len(DataPrefix) \in Nat
      /\ \A i \in 1..Len(DataPrefix) : all[i] = DataPrefix[i]
      /\ \A i \in 1..Len(text) : all[Len(DataPrefix) + i] = text[i]
  BY <1>0, Joined
<1>. HIDE DEF all
<1>2. /\ 5 <= Len(all) /\ Len(all) \in Nat /\ Len(all) = 5 + Len(text)
      /\ \A i \in 1..5 : all[i] = DataPrefix[i]
      /\ \A i \in 1..Len(text) : all[5 + i] = text[i]
  BY <1>0, <1>1
<1>3. /\ all[1].width = 1 /\ all[2].width = 1 /\ all[3].width = 4 /\ all[4].width = 1
      /\ all[5].width = 1
  <2>1. "lbrace" \in Marks /\ "colon" \in Marks /\ "data" \in Labels
    BY DEF Marks, Labels
  <2>2. /\ Mark("lbrace").width = 1 /\ Mark("colon").width = 1 /\ Word("data", 4).width = 4
    BY <2>1, TokensTyped
  <2>. QED  BY <1>2, <2>2, PrefixTyped, Facts
<1>4. /\ end[0] = 0
      /\ \A i \in 1..Len(all) : end[i] = end[i - 1] + all[i].width
  BY <1>2, EndsRecursion
<1>. HIDE DEF end
<1>5. end[1] = 1 /\ end[2] = 2 /\ end[3] = 6 /\ end[4] = 7 /\ end[5] = 8
  <2>1. {1, 2, 3, 4, 5} \subseteq 1..Len(all)
    BY <1>2
  <2>2. /\ end[1] = end[0] + all[1].width /\ end[2] = end[1] + all[2].width
        /\ end[3] = end[2] + all[3].width /\ end[4] = end[3] + all[4].width
        /\ end[5] = end[4] + all[5].width
    BY <1>4, <2>1
  <2>. QED  BY <1>3, <1>4, <2>2
<1>. QED  BY <1>1, <1>2, <1>5 DEF all, end

\* A reply up to the field of the error code.
Body(d) ==
  (DataPrefix \o d) \o ((Also \o Field(Word("appTimeout", 10), <<Number("0", 1)>>)) \o Also)

\* The lost block ends before that field.
LEMMA BodyCut ==
  ASSUME NEW d \in Texts
  PROVE  /\ Plaintext(d) = Body(d) \o Ending /\ Body(d) \in Texts
         /\ Plaintext(d) \in Texts
         /\ \E k \in 1..Len(Body(d)) : IsCut(Plaintext(d), k)
<1>. DEFINE f == Field(Word("appTimeout", 10), <<Number("0", 1)>>)
            b == (Also \o f) \o Also
            p == DataPrefix \o d
<1>1. /\ Word("appTimeout", 10) \in Tokens /\ Word("appTimeout", 10).width = 10
      /\ Number("0", 1) \in Tokens /\ Mark("comma") \in Tokens
  <2>1. "appTimeout" \in Labels /\ "0" \in Labels /\ "comma" \in Marks
    BY DEF Marks, Labels
  <2>. QED  BY <2>1, TokensTyped
<1>2. Long(f, 5) /\ f[2] = Word("appTimeout", 10)
  <2>. DEFINE n == <<Number("0", 1)>>
  <2>1. Long(n, 1)
    BY <1>1, Single
  <2>. HIDE DEF n
  <2>2. Long(Field(Word("appTimeout", 10), n), 4 + 1)
        /\ Field(Word("appTimeout", 10), n)[2] = Word("appTimeout", 10)
    BY <1>1, <2>1, FieldTyped
  <2>. QED  BY <2>2 DEF n
<1>3. Long(Also, 1)
  BY <1>1, Single DEF Also
<1>. HIDE DEF f
<1>4. Long(b, 7) /\ b[3] = Word("appTimeout", 10)
  <2>. DEFINE h == Also \o f
  <2>1. Long(h, 6) /\ h[3] = Word("appTimeout", 10)
    BY <1>2, <1>3 DEF Long, Texts
  <2>. HIDE DEF h
  <2>2. Long(h \o Also, 7) /\ (h \o Also)[3] = Word("appTimeout", 10)
    BY <1>3, <2>1 DEF Long, Texts
  <2>. QED  BY <2>2, Zenon DEF h
<1>5. Plaintext(d) = p \o (b \o Ending) /\ Body(d) = p \o b
  <2>1. DataSuffix = b \o Ending
    BY Zenon DEF DataSuffix, f
  <2>. QED  BY <2>1, Zenon DEF Plaintext, Body, f
<1>. HIDE DEF b, p
<1>6. /\ b \in Texts /\ p \in Texts /\ Ending \in Texts /\ b \o Ending \in Texts
      /\ 7 <= Len(b) /\ Len(b) <= 7
  BY <1>4, PrefixEnds, EndingTyped, Joined DEF Long, p
<1>7. Plaintext(d) = Body(d) \o Ending
  <2>1. b \in Texts /\ p \in Texts /\ Ending \in Texts
    BY <1>6
  <2>2. (p \o b) \o Ending = p \o (b \o Ending)
    <3>1. Assoc(p, b, Ending)
      BY <2>1, Associated, Zenon
    <3>. QED  BY <3>1, Zenon DEF Assoc
  <2>. QED  BY <1>5, <2>2, Zenon
<1>. DEFINE text == Plaintext(d)
            end == Ends(text)
<1>8. Body(d) \in Texts /\ text \in Texts /\ Len(Body(d)) = Len(p) + Len(b)
      /\ Len(p) \in Nat /\ Len(Body(d)) <= Len(text) /\ Len(text) \in Nat
      /\ text[Len(p) + 3] = Word("appTimeout", 10)
  <2>. DEFINE x == Body(d)
  <2>1. /\ x \in Texts /\ Len(x) = Len(p) + Len(b) /\ Len(p) \in Nat
        /\ Len(b) \in Nat /\ \A i \in 1..Len(b) : x[Len(p) + i] = b[i]
    <3>1. b \in Texts /\ p \in Texts
      BY <1>6
    <3>2. /\ p \o b \in Texts /\ Len(p \o b) = Len(p) + Len(b) /\ Len(p) \in Nat
          /\ Len(b) \in Nat /\ \A i \in 1..Len(b) : (p \o b)[Len(p) + i] = b[i]
      BY <3>1, Joined, Zenon
    <3>. QED  BY <1>5, <3>2, Zenon
  <2>. HIDE DEF x
  <2>2. /\ x \o Ending \in Texts /\ Len(x \o Ending) = Len(x) + Len(Ending)
        /\ Len(Ending) \in Nat /\ \A i \in 1..Len(x) : (x \o Ending)[i] = x[i]
    BY <2>1, EndingTyped, Joined, Zenon
  <2>. HIDE DEF text
  <2>3. /\ text \in Texts /\ Len(text) = Len(x) + Len(Ending)
        /\ Len(Ending) \in Nat /\ \A i \in 1..Len(x) : text[i] = x[i]
    BY <1>7, <2>2, Zenon DEF text, x
  <2>4. text[Len(p) + 3] = x[Len(p) + 3] /\ x[Len(p) + 3] = b[3]
    BY <1>6, <2>1, <2>3
  <2>. QED  BY <1>4, <2>1, <2>3, <2>4 DEF x
<1>9. 5 <= Len(p) /\ end[5] = 8
  <2>1. \E z \in Texts : text = DataPrefix \o z
    <3>1. DataPrefix \in Texts /\ p = DataPrefix \o d
      BY PrefixTyped DEF Long, p
    <3>2. p \o (b \o Ending) = DataPrefix \o (d \o (b \o Ending))
          /\ d \o (b \o Ending) \in Texts
      <4>1. b \o Ending \in Texts
        BY <1>6
      <4>2. (DataPrefix \o d) \o (b \o Ending) = DataPrefix \o (d \o (b \o Ending))
            /\ d \o (b \o Ending) \in Texts
        <5>1. Assoc(DataPrefix, d, b \o Ending)
          BY <3>1, <4>1, Associated, Zenon
        <5>. QED  BY <5>1, Zenon DEF Assoc
      <4>. QED  BY <3>1, <4>2, Zenon
    <3>. QED  BY <1>5, <3>2, Zenon
  <2>2. 5 <= Len(p)
    BY PrefixEnds DEF p
  <2>3. PICK z \in Texts : text = DataPrefix \o z
    BY <2>1
  <2>4. Ends(DataPrefix \o z)[5] = 8
    BY PrefixEnds, Zenon
  <2>5. end[5] = 8
    BY <2>3, <2>4, Zenon
  <2>. QED  BY <2>2, <2>5
<1>. HIDE DEF text
<1>10. Lost < end[Len(p) + 3]
  <2>1. /\ Len(p) + 3 \in 1..Len(text) /\ (Len(p) + 3) - 1 = Len(p) + 2
        /\ 5 \in 0..Len(text) /\ Len(p) + 2 \in 0..Len(text)
    BY <1>6, <1>8, <1>9
  <2>2. end[Len(p) + 3] = end[Len(p) + 2] + 10
    BY <1>1, <1>8, <2>1, EndsRecursion
  <2>3. end[5] <= end[Len(p) + 2] /\ end[Len(p) + 2] \in Nat
    <3>1. /\ end[5] + ((Len(p) + 2) - 5) <= end[Len(p) + 2]
          /\ end[Len(p) + 2] \in Nat /\ end[5] \in Nat
      BY <1>8, <1>9, <2>1, EndsGrow
    <3>. QED  BY <1>8, <1>9, <3>1
  <2>. QED  BY <1>9, <2>2, <2>3 DEF Lost
<1>11. Len(p) + 3 \in 1..Len(Body(d)) /\ Len(p) + 3 \in 1..Len(text)
  BY <1>6, <1>8
<1>12. PICK k \in 1..(Len(p) + 3) : IsCut(text, k)
  BY <1>8, <1>10, <1>11, CutExists
<1>13. k \in 1..Len(Body(d))
  BY <1>8, <1>11
<1>. QED  BY <1>7, <1>8, <1>12, <1>13 DEF text

\* What is left of a reply ends as the reply does.
LEMMA EndingStays ==
  ASSUME NEW d \in Texts
  PROVE  \E y \in Texts : DecryptPairingReply(Plaintext(d)) = y \o Ending
<1>1. PICK k \in 1..Len(Body(d)) : IsCut(Plaintext(d), k)
  BY BodyCut
<1>2. DecryptPairingReply(Plaintext(d)) = Remains(Plaintext(d), k)
  BY <1>1, BodyCut, Decrypted
<1>3. \E y \in Texts : Remains(Body(d) \o Ending, k) = y \o Ending
  <2>. HIDE DEF Body
  <2>1. Body(d) \in Texts /\ Ending \in Texts /\ IsCut(Body(d) \o Ending, k)
    BY <1>1, BodyCut, EndingTyped
  <2>. QED  BY <2>1, TailJoined
<1>. QED  BY <1>2, <1>3, BodyCut

\* A guess is a text before what is left.
Guess(i, left) == Lexemes(DataPrefix \o Openers[i] \o left)

\* A repair is the first guess that is JSON, or there is none.
LEMMA RepairGuesses ==
  ASSUME NEW left
  PROVE  \/ RepairSdkReply(left) = None
         \/ \E i \in 1..3 : /\ RepairSdkReply(left) = Guess(i, left)
                            /\ IsJson(Guess(i, left))
                            /\ \A j \in 1..3 : j < i => ~IsJson(Guess(j, left))
<1>. DEFINE guesses == [i \in DOMAIN Openers |-> Lexemes(DataPrefix \o Openers[i] \o left)]
            good == {i \in DOMAIN Openers : IsJson(guesses[i])}
            best == CHOOSE i \in good : \A j \in good : i <= j
<1>1. RepairSdkReply(left) = IF good = {} THEN None ELSE guesses[best]
  BY Zenon DEF RepairSdkReply
<1>2. DOMAIN Openers = 1..3
  BY DEF Openers
<1>3. \A i \in 1..3 : guesses[i] = Guess(i, left)
  BY <1>2, Zenon DEF Guess
<1>. HIDE DEF guesses
<1>4. good = {i \in 1..3 : IsJson(Guess(i, left))}
  BY <1>2, <1>3
<1>. HIDE DEF good
<1>5. ASSUME good # {} PROVE best \in good /\ \A j \in good : best <= j
  <2>1. \E i \in good : \A j \in good : i <= j
    <3>1. CASE 1 \in good
      BY <1>4, <3>1
    <3>2. CASE 1 \notin good /\ 2 \in good
      BY <1>4, <3>2
    <3>3. CASE 1 \notin good /\ 2 \notin good /\ 3 \in good
      BY <1>4, <3>3
    <3>. QED  BY <1>4, <1>5, <3>1, <3>2, <3>3
  <2>. QED  BY <2>1
<1>. HIDE DEF best
<1>6. ASSUME good # {}
      PROVE  /\ best \in 1..3 /\ RepairSdkReply(left) = Guess(best, left)
             /\ IsJson(Guess(best, left))
             /\ \A j \in 1..3 : j < best => ~IsJson(Guess(j, left))
  BY <1>1, <1>3, <1>4, <1>5, <1>6
<1>. QED  BY <1>1, <1>6

\* The guesses: an object, a list of objects, a string.
LEMMA OpenersTyped ==
  /\ Openers[1] \in Texts /\ Openers[2] \in Texts /\ Openers[3] \in Texts
  /\ Openers[1] = <<Mark("lbrace"), Q>>
  /\ Openers[2] = <<Mark("lbracket"), Mark("lbrace"), Q>>
  /\ Openers[3] = <<Q>>
<1>1. Mark("lbrace") \in Tokens /\ Mark("lbracket") \in Tokens /\ Q \in Tokens
  BY TokensTyped, Facts DEF Marks
<1>. QED  BY <1>1 DEF Openers, Texts

\* Where a pattern such as '"errorCode"\s*:' matches.
LEMMA MatchedAt ==
  ASSUME NEW left \in Texts, NEW w \in Tokens, NEW n \in Nat,
         n + 5 <= Len(left),
         left[n + 1] = Q, left[n + 2] = w, left[n + 3] = Q,
         left[n + 4] = Mark("colon")
  PROVE  n + 1 \in Matched(left, w)
<1>. DEFINE piece == SubSeq(left, n + 1, n + 4)
            q == Quoted(w)
            c == <<Mark("colon")>>
<1>1. Len(left) \in Nat
  BY Textual
<1>2. /\ Long(piece, 4)
      /\ \A i \in 1..4 : piece[i] = left[n + i]
  BY <1>1 DEF Texts, Long
<1>. HIDE DEF piece
<1>3. Long(q, 3) /\ q[1] = Q /\ q[2] = w /\ q[3] = Q
  BY QuotedTyped
<1>4. Long(c, 1) /\ c[1] = Mark("colon")
  BY TokensTyped, Single DEF Marks
<1>. HIDE DEF q, c
<1>5. /\ Long(q \o c, 4) /\ (q \o c)[1] = Q /\ (q \o c)[2] = w
      /\ (q \o c)[3] = Q /\ (q \o c)[4] = Mark("colon")
  BY <1>3, <1>4 DEF Long, Texts
<1>. DEFINE h == q \o c
<1>6. /\ Long(h, 4) /\ h[1] = Q /\ h[2] = w /\ h[3] = Q /\ h[4] = Mark("colon")
  BY <1>5
<1>. HIDE DEF h
<1>7. piece = h
  <2>1. \A i \in 1..4 : i = 1 \/ i = 2 \/ i = 3 \/ i = 4
    OBVIOUS
  <2>2. \A i \in 1..4 : piece[i] = h[i]
    BY <1>2, <1>6, <2>1
  <2>. QED  BY <1>2, <1>6, <2>2, Same
<1>8. n + 1 \in 1..Len(left) - 4 /\ (n + 1) + 3 = n + 4
  BY <1>1
<1>9. SubSeq(left, n + 1, (n + 1) + 3) = Quoted(w) \o <<Mark("colon")>>
  BY <1>7, <1>8, Zenon DEF piece, h, q, c
<1>. QED  BY <1>8, <1>9, Zenon DEF Matched

\* A reply that has been received shows the error code.
LEMMA ErrorCodeDecoded ==
  ASSUME NEW y \in Texts
  PROVE  HasField(Decode(y \o Ending), ErrorCode)
<1>. DEFINE left == y \o Ending
            l == Lexeme("string", <<ErrorCode>>)
<1>1. CASE RepairSdkReply(left) # None
  <2>1. PICK i \in 1..3 : RepairSdkReply(left) = Guess(i, left) /\ IsJson(Guess(i, left))
    BY <1>1, RepairGuesses
  <2>2. \E x \in Texts : DataPrefix \o Openers[i] \o left = x \o Ending
    <3>1. DataPrefix \in Texts /\ Openers[i] \in Texts /\ Ending \in Texts
      <4>1. i = 1 \/ i = 2 \/ i = 3
        OBVIOUS
      <4>2. Openers[i] \in Texts
        BY <4>1, OpenersTyped, Zenon
      <4>. QED  BY <4>2, PrefixTyped, EndingTyped DEF Long
    <3>2. DataPrefix \o Openers[i] \in Texts
      BY <3>1, Joined
    <3>. DEFINE p == DataPrefix \o Openers[i]
    <3>. HIDE DEF p
    <3>3. p \o (y \o Ending) = (p \o y) \o Ending
      <4>1. Assoc(p, y, Ending)
        BY <3>1, <3>2, Associated, Zenon DEF p
      <4>. QED  BY <4>1, Zenon DEF Assoc
    <3>4. p \o y \in Texts
      BY <3>2, Joined DEF p
    <3>. QED  BY <3>3, <3>4, Zenon DEF p
  <2>3. PICK x \in Texts : DataPrefix \o Openers[i] \o left = x \o Ending
    BY <2>2
  <2>4. Guess(i, left) = Lexemes(x \o Ending)
    BY <2>3, Zenon DEF Guess
  <2>5. HasField(Guess(i, left), ErrorCode)
    BY <2>1, <2>4, EndingRead
  <2>6. Decode(left) = RepairSdkReply(left)
    BY <1>1, Zenon DEF Decode
  <2>. QED  BY <2>1, <2>5, <2>6
<1>2. CASE RepairSdkReply(left) = None
  <2>1. /\ left \in Texts /\ Len(left) = Len(y) + Len(Ending) /\ Len(y) \in Nat
        /\ Len(Ending) \in Nat
        /\ \A i \in 1..Len(Ending) : left[Len(y) + i] = Ending[i]
    BY EndingTyped, Joined
  <2>. HIDE DEF left
  <2>2. Len(y) + 1 \in Matched(left, ErrorCode)
    <3>1. /\ ErrorCode \in Tokens /\ 5 <= Len(Ending) /\ Ending[1] = Q
          /\ Ending[2] = ErrorCode /\ Ending[3] = Q /\ Ending[4] = Mark("colon")
      BY EndingTyped
    <3>2. {1, 2, 3, 4} \subseteq 1..Len(Ending)
      BY <2>1, <3>1
    <3>3. /\ left[Len(y) + 1] = Q /\ left[Len(y) + 2] = ErrorCode
          /\ left[Len(y) + 3] = Q /\ left[Len(y) + 4] = Mark("colon")
          /\ Len(y) + 5 <= Len(left)
      BY <2>1, <3>1, <3>2
    <3>. QED  BY <2>1, <3>1, <3>3, MatchedAt
  <2>5. Decode(left) = <<l>>
    BY <1>2, <2>2 DEF Decode, ErrorCode
  <2>6. 1 \in DOMAIN <<l>> /\ <<l>>[1] = l
    OBVIOUS
  <2>. QED  BY <2>5, <2>6 DEF HasField, left
<1>. QED  BY <1>1, <1>2
-----------------------------------------------------------------------------
(* How wide a text is, and where the cut falls in a text given in parts.   *)

Width(text) == Ends(text)[Len(text)]

\* A joined text is as wide as its parts; no token is empty.
LEMMA Widths ==
  ASSUME NEW a \in Texts, NEW b \in Texts
  PROVE  /\ Width(a) \in Nat /\ Len(a) <= Width(a)
         /\ Width(a \o b) = Width(a) + Width(b)
         /\ Ends(a \o b)[Len(a)] = Width(a)
<1>. DEFINE ab == a \o b
            S == {n \in Nat : n <= Len(a) => Ends(ab)[n] = Ends(a)[n]}
            T == {n \in Nat : n <= Len(b) => Ends(ab)[Len(a) + n] = Width(a) + Ends(b)[n]}
<1>1. /\ ab \in Texts /\ Len(a) \in Nat /\ Len(b) \in Nat
      /\ Len(ab) = Len(a) + Len(b) /\ Len(ab) \in Nat
      /\ \A i \in 1..Len(a) : ab[i] = a[i]
      /\ \A i \in 1..Len(b) : ab[Len(a) + i] = b[i]
  BY Joined
<1>. HIDE DEF ab
<1>2. /\ Ends(a)[0] = 0 /\ Ends(b)[0] = 0 /\ Ends(ab)[0] = 0
      /\ \A i \in 1..Len(a) : Ends(a)[i] = Ends(a)[i - 1] + a[i].width
      /\ \A i \in 1..Len(b) : Ends(b)[i] = Ends(b)[i - 1] + b[i].width
      /\ \A i \in 1..Len(ab) : Ends(ab)[i] = Ends(ab)[i - 1] + ab[i].width
  BY <1>1, EndsRecursion, Zenon
<1>3. /\ Width(a) \in Nat /\ Len(a) <= Width(a)
      /\ \A i \in 0..Len(b) : Ends(b)[i] \in Nat
      /\ \A i \in 1..Len(b) : b[i].width \in Nat
  <2>1. Width(a) \in Nat /\ \A i \in 0..Len(b) : Ends(b)[i] \in Nat
    BY <1>1, EndsGrow DEF Width
  <2>2. Ends(a)[0] + (Len(a) - 0) <= Ends(a)[Len(a)]
    BY <1>1, EndsGrow
  <2>3. \A i \in 1..Len(b) : b[i].width \in Nat
    BY Textual DEF Tokens
  <2>. QED  BY <1>1, <1>2, <2>1, <2>2, <2>3 DEF Width
<1>4. Ends(ab)[Len(a)] = Width(a)
  <2>1. 0 \in S
    BY <1>2
  <2>2. ASSUME NEW n \in Nat, n \in S PROVE n + 1 \in S
    <3>1. SUFFICES ASSUME n + 1 <= Len(a) PROVE Ends(ab)[n + 1] = Ends(a)[n + 1]
      OBVIOUS
    <3>2. /\ n + 1 \in 1..Len(ab) /\ n + 1 \in 1..Len(a) /\ (n + 1) - 1 = n
          /\ Ends(ab)[n] = Ends(a)[n]
      BY <1>1, <2>2, <3>1
    <3>. QED  BY <1>1, <1>2, <3>2
  <2>3. Nat \subseteq S
    <3>. HIDE DEF S
    <3>. QED  BY <2>1, <2>2, Counting
  <2>. QED  BY <1>1, <2>3 DEF Width
<1>5. \A n \in 0..Len(b) : Ends(ab)[Len(a) + n] = Width(a) + Ends(b)[n]
  <2>1. 0 \in T
    BY <1>1, <1>2, <1>3, <1>4
  <2>2. ASSUME NEW n \in Nat, n \in T PROVE n + 1 \in T
    <3>1. SUFFICES ASSUME n + 1 <= Len(b)
                   PROVE  Ends(ab)[Len(a) + (n + 1)] = Width(a) + Ends(b)[n + 1]
      OBVIOUS
    <3>2. /\ Len(a) + (n + 1) \in 1..Len(ab) /\ n + 1 \in 1..Len(b)
          /\ (n + 1) - 1 = n /\ (Len(a) + (n + 1)) - 1 = Len(a) + n
          /\ n \in 0..Len(b)
          /\ Ends(ab)[Len(a) + n] = Width(a) + Ends(b)[n]
          /\ ab[Len(a) + (n + 1)] = b[n + 1]
      BY <1>1, <2>2, <3>1
    <3>3. /\ Ends(ab)[Len(a) + (n + 1)] = Ends(ab)[Len(a) + n] + b[n + 1].width
          /\ Ends(b)[n + 1] = Ends(b)[n] + b[n + 1].width
      BY <1>2, <3>2
    <3>4. Ends(b)[n] \in Nat /\ b[n + 1].width \in Nat /\ Width(a) \in Nat
      BY <1>3, <3>2
    <3>5. Ends(ab)[Len(a) + (n + 1)] = (Width(a) + Ends(b)[n]) + b[n + 1].width
      BY <3>2, <3>3
    <3>. QED  BY <3>3, <3>4, <3>5
  <2>3. Nat \subseteq T
    <3>. HIDE DEF T
    <3>. QED  BY <2>1, <2>2, Counting
  <2>. QED  BY <1>1, <2>3
<1>6. Width(ab) = Width(a) + Width(b)
  BY <1>1, <1>5 DEF Width
<1>. QED  BY <1>3, <1>4, <1>6 DEF ab

\* One token is as wide as it is.
LEMMA WidthOfOne ==
  ASSUME NEW t \in Tokens
  PROVE  Width(<<t>>) = t.width
<1>1. Len(<<t>>) = 1 /\ <<t>>[1] = t /\ Len(<<t>>) \in Nat
  OBVIOUS
<1>2. Ends(<<t>>)[0] = 0 /\ Ends(<<t>>)[1] = Ends(<<t>>)[0] + t.width
  <2>. DEFINE x == <<t>>
  <2>. HIDE DEF x
  <2>1. Len(x) = 1 /\ x[1] = t /\ Len(x) \in Nat
    BY <1>1 DEF x
  <2>2. Ends(x)[0] = 0 /\ Ends(x)[1] = Ends(x)[0] + t.width
    BY <2>1, EndsRecursion
  <2>. QED  BY <2>2 DEF x
<1>. QED  BY <1>1, <1>2 DEF Width, Tokens

\* A token of which only some characters are left.
Shorter(t, n) == [t EXCEPT !.width = n]

\* A token of which something is left is of the same kind and name.
LEMMA ShorterTyped ==
  ASSUME NEW t \in Tokens, NEW n \in Nat \ {0}
  PROVE  /\ Shorter(t, n) \in Tokens /\ Shorter(t, n).kind = t.kind
         /\ Shorter(t, n).id = t.id /\ Shorter(t, n).width = n
         /\ n = t.width => Shorter(t, n) = t
         /\ t # Q /\ t.kind # "quote" => Shorter(t, n) # Q
<1>1. /\ Shorter(t, n) \in Tokens /\ Shorter(t, n).kind = t.kind
      /\ Shorter(t, n).id = t.id /\ Shorter(t, n).width = n
      /\ n = t.width => Shorter(t, n) = t
  BY DEF Tokens, Shorter
<1>. QED  BY <1>1, Facts

\* The text a \o <<t>> \o b, when the lost block ends in t.
LEMMA CutAt ==
  ASSUME NEW a \in Texts, NEW t \in Tokens, NEW b \in Texts,
         Width(a) <= Lost, Lost < Width(a) + t.width
  PROVE  /\ Width(a) + t.width - Lost \in Nat \ {0}
         /\ DecryptPairingReply((a \o <<t>>) \o b)
              = <<Shorter(t, Width(a) + t.width - Lost)>> \o b
<1>. DEFINE one == <<t>>
            at == a \o one
            text == at \o b
            k == Len(a) + 1
            n == Width(a) + t.width - Lost
<1>1. one \in Texts /\ Len(one) = 1 /\ one[1] = t /\ Width(one) = t.width
      /\ t.width \in Nat
  BY Single, WidthOfOne DEF Tokens
<1>. HIDE DEF one
<1>2. /\ at \in Texts /\ Len(at) = k /\ Width(at) = Width(a) + t.width
      /\ Ends(at)[Len(a)] = Width(a) /\ at[k] = t /\ Len(a) \in Nat
      /\ Width(a) \in Nat
  <2>1. /\ at \in Texts /\ Len(at) = Len(a) + Len(one) /\ Len(a) \in Nat
        /\ \A i \in 1..Len(one) : at[Len(a) + i] = one[i]
    BY <1>1, Joined
  <2>2. /\ Width(at) = Width(a) + Width(one) /\ Ends(at)[Len(a)] = Width(a)
        /\ Width(a) \in Nat
    BY <1>1, Widths
  <2>. HIDE DEF at
  <2>. QED  BY <1>1, <2>1, <2>2
<1>. HIDE DEF at
<1>3. /\ text \in Texts /\ Len(text) = Len(at) + Len(b) /\ Len(b) \in Nat
      /\ \A i \in 1..Len(at) : text[i] = at[i]
      /\ \A i \in 1..Len(b) : text[Len(at) + i] = b[i]
      /\ Ends(text)[Len(at)] = Width(at)
  BY <1>2, Joined, Widths
<1>4. Ends(text)[k - 1] = Width(a)
  <2>1. k \in 1..Len(text) /\ text[k] = t /\ k - 1 \in 0..Len(text)
    BY <1>2, <1>3
  <2>2. Ends(text)[k] = Ends(text)[k - 1] + t.width /\ Ends(text)[k - 1] \in Nat
    <3>. HIDE DEF k, text
    <3>1. Len(text) \in Nat
      BY <1>3, Textual
    <3>. QED  BY <1>3, <2>1, <3>1, EndsRecursion, EndsGrow
  <2>. QED  BY <1>1, <1>2, <1>3, <2>2
<1>5. IsCut(text, k)
  <2>1. k \in 1..Len(text) /\ Ends(text)[k] = Width(a) + t.width
    BY <1>2, <1>3
  <2>. HIDE DEF k, text
  <2>. QED  BY <1>4, <2>1 DEF IsCut
<1>6. n \in Nat \ {0}
  BY <1>1, <1>2 DEF Lost
<1>7. Remains(text, k) = <<Shorter(t, n)>> \o b
  <2>1. text[k] = t /\ Ends(text)[k] - Lost = n /\ k \in Nat /\ k + 1 \in Nat
    <3>. HIDE DEF text
    <3>1. k \in 1..Len(at) /\ k \in Nat /\ k + 1 \in Nat
      BY <1>2
    <3>2. text[k] = at[k] /\ Ends(text)[k] = Width(at)
      BY <1>2, <1>3, <3>1
    <3>. QED  BY <1>1, <1>2, <3>1, <3>2 DEF Lost
  <2>2. SubSeq(text, k + 1, Len(text)) = b
    <3>. DEFINE z == SubSeq(text, k + 1, Len(text))
    <3>. HIDE DEF text
    <3>1. /\ z \in Texts /\ Len(z) = Len(b) /\ \A i \in 1..Len(b) : z[i] = text[k + i]
      BY <1>2, <1>3 DEF Texts
    <3>. HIDE DEF z
    <3>2. \A i \in 1..Len(b) : z[i] = b[i]
      BY <1>2, <1>3, <3>1
    <3>3. Long(z, Len(b)) /\ Long(b, Len(b))
      BY <1>3, <3>1, Textual DEF Long
    <3>4. z = b
      BY <1>3, <3>2, <3>3, Same
    <3>. QED  BY <3>4 DEF z
  <2>. HIDE DEF text, k, n
  <2>. QED  BY <2>1, <2>2, Zenon DEF Remains, Shorter
<1>. QED  BY <1>3, <1>5, <1>6, <1>7, Decrypted DEF at, one
-----------------------------------------------------------------------------
(* What a guess makes of a text whose first name has been cut short.       *)

\* Lexemes that differ in the contents of one of them.
SameBut(a, b, m) ==
  /\ a \in Seq(Lexs) /\ b \in Seq(Lexs) /\ Len(a) = Len(b) /\ m \in 1..Len(a)
  /\ \A i \in 1..Len(a) : a[i].kind = b[i].kind /\ (i # m => a[i] = b[i])

\* Lexemes that differ in one content still do so with one lexeme more.
LEMMA SameButMore ==
  ASSUME NEW a, NEW b, NEW m, SameBut(a, b, m), NEW l \in Lexs
  PROVE  SameBut(Append(a, l), Append(b, l), m)
<1>. DEFINE c == Append(a, l)
            d == Append(b, l)
<1>1. \A x \in Seq(Lexs) :
        /\ Append(x, l) \in Seq(Lexs) /\ Len(Append(x, l)) = Len(x) + 1 /\ Len(x) \in Nat
        /\ \A i \in 1..Len(x) : Append(x, l)[i] = x[i]
        /\ Append(x, l)[Len(x) + 1] = l
  OBVIOUS
<1>2. /\ c \in Seq(Lexs) /\ Len(c) = Len(a) + 1 /\ Len(a) \in Nat
      /\ \A i \in 1..Len(a) : c[i] = a[i]
      /\ c[Len(a) + 1] = l
  BY <1>1 DEF SameBut
<1>3. /\ d \in Seq(Lexs) /\ Len(d) = Len(b) + 1 /\ Len(b) \in Nat
      /\ \A i \in 1..Len(b) : d[i] = b[i]
      /\ d[Len(b) + 1] = l
  BY <1>1 DEF SameBut
<1>. HIDE DEF c, d
<1>4. Len(a) = Len(b) /\ m \in 1..Len(a) /\ Len(c) = Len(d) /\ m \in 1..Len(c)
  BY <1>2, <1>3 DEF SameBut
<1>5. ASSUME NEW i \in 1..Len(c)
      PROVE  c[i].kind = d[i].kind /\ (i # m => c[i] = d[i])
  <2>1. CASE i \in 1..Len(a)
    BY <1>2, <1>3, <1>4, <2>1 DEF SameBut
  <2>2. CASE i \notin 1..Len(a)
    <3>1. i = Len(a) + 1
      BY <1>2, <2>2
    <3>. QED  BY <1>2, <1>3, <1>4, <3>1
  <2>. QED  BY <2>1, <2>2
<1>6. SameBut(c, d, m)
  BY <1>2, <1>3, <1>4, <1>5 DEF SameBut
<1>. QED  BY <1>6 DEF c, d

\* A parse does not see the contents in which lexemes differ.
LEMMA SameButParsed ==
  ASSUME NEW a, NEW b, NEW m, SameBut(a, b, m)
  PROVE  Parsed(a) = Parsed(b)
<1>1. /\ a \in Seq(Lexs) /\ b \in Seq(Lexs) /\ Len(a) = Len(b) /\ Len(a) \in Nat
      /\ \A i \in 1..Len(a) : a[i].kind = b[i].kind
  BY DEF SameBut
<1>2. Parses(a)[Len(a)] = Parses(b)[Len(a)]
  BY <1>1, ParsesByKind
<1>. QED  BY <1>1, <1>2 DEF Parsed

Alike(s, r, m) ==
  /\ s \in ScanStates /\ r \in ScanStates /\ s.at = r.at /\ s.read = r.read
  /\ SameBut(s.out, r.out, m)

\* Scans that differ in one content read any text alike.
LEMMA AlikeScanned ==
  ASSUME NEW s, NEW r, NEW m, Alike(s, r, m), NEW text \in Texts
  PROVE  Alike(Scanned(s, text), Scanned(r, text), m)
<1>. DEFINE S == {n \in Nat : n <= Len(text) => Alike(Scans(s, text)[n], Scans(r, text)[n], m)}
<1>0. Len(text) \in Nat /\ \A i \in 1..Len(text) : text[i] \in Tokens
  BY Textual
<1>1. /\ Scans(s, text)[0] = s /\ Scans(r, text)[0] = r
      /\ \A i \in 1..Len(text) : Scans(s, text)[i] = Scan(Scans(s, text)[i - 1], text[i])
      /\ \A i \in 1..Len(text) : Scans(r, text)[i] = Scan(Scans(r, text)[i - 1], text[i])
  <2>1. Scans(s, text)[0] = s /\ \A i \in 1..Len(text) :
                     Scans(s, text)[i] = Scan(Scans(s, text)[i - 1], text[i])
    BY <1>0, ScansRecursion
  <2>2. Scans(r, text)[0] = r /\ \A i \in 1..Len(text) :
                     Scans(r, text)[i] = Scan(Scans(r, text)[i - 1], text[i])
    BY <1>0, ScansRecursion
  <2>. QED  BY <2>1, <2>2
<1>2. ASSUME NEW x, NEW y, Alike(x, y, m), NEW t \in Tokens
      PROVE  Alike(Scan(x, t), Scan(y, t), m)
  <2>1. /\ x \in ScanStates /\ y \in ScanStates /\ x.at = y.at /\ x.read = y.read
        /\ x.at \in {"text", "string"} /\ x.read \in Texts
        /\ SameBut(x.out, y.out, m)
    BY <1>2 DEF Alike, ScanStates
  <2>2. Scan(x, t) \in ScanStates /\ Scan(y, t) \in ScanStates
    BY <2>1, ScanSteps
  <2>3. /\ Lexeme("string", x.read) \in Lexs /\ Lexeme(t.kind, <<t>>) \in Lexs
    BY <2>1, Single DEF Lexeme, Lexs, Tokens
  <2>4. CASE x.at = "string" /\ t = Q
    <3>1. /\ Scan(x, t).at = "text" /\ Scan(x, t).read = <<>>
          /\ Scan(x, t).out = Append(x.out, Lexeme("string", x.read))
      BY <2>1, <2>4, StringEnds
    <3>2. /\ Scan(y, t).at = "text" /\ Scan(y, t).read = <<>>
          /\ Scan(y, t).out = Append(y.out, Lexeme("string", x.read))
      BY <2>1, <2>4, StringEnds
    <3>. QED  BY <2>1, <2>2, <2>3, <3>1, <3>2, SameButMore DEF Alike
  <2>5. CASE x.at = "string" /\ t # Q
    <3>1. /\ Scan(x, t).at = "string" /\ Scan(x, t).read = Append(x.read, t)
          /\ Scan(x, t).out = x.out
      BY <2>1, <2>5, StringGoesOn
    <3>2. /\ Scan(y, t).at = "string" /\ Scan(y, t).read = Append(x.read, t)
          /\ Scan(y, t).out = y.out
      BY <2>1, <2>5, StringGoesOn
    <3>. QED  BY <2>1, <2>2, <3>1, <3>2 DEF Alike
  <2>6. CASE x.at = "text" /\ t = Q
    <3>1. /\ Scan(x, t).at = "string" /\ Scan(x, t).read = <<>>
          /\ Scan(x, t).out = x.out
      BY <2>1, <2>6, StringBegins
    <3>2. /\ Scan(y, t).at = "string" /\ Scan(y, t).read = <<>>
          /\ Scan(y, t).out = y.out
      BY <2>1, <2>6, StringBegins
    <3>. QED  BY <2>1, <2>2, <3>1, <3>2 DEF Alike
  <2>7. CASE x.at = "text" /\ t # Q
    <3>1. /\ Scan(x, t).at = "text" /\ Scan(x, t).read = <<>>
          /\ Scan(x, t).out = Append(x.out, Lexeme(t.kind, <<t>>))
      BY <2>1, <2>7, TextGoesOn
    <3>2. /\ Scan(y, t).at = "text" /\ Scan(y, t).read = <<>>
          /\ Scan(y, t).out = Append(y.out, Lexeme(t.kind, <<t>>))
      <4>1. y \in ScanStates /\ y.at = "text" /\ t # Q
        BY <2>1, <2>7
      <4>. QED  BY <4>1, TextGoesOn
    <3>. QED  BY <2>1, <2>2, <2>3, <3>1, <3>2, SameButMore DEF Alike
  <2>. QED  BY <2>1, <2>4, <2>5, <2>6, <2>7
<1>3. 0 \in S
  BY <1>1
<1>4. ASSUME NEW n \in Nat, n \in S PROVE n + 1 \in S
  <2>1. SUFFICES ASSUME n + 1 <= Len(text)
                 PROVE  Alike(Scans(s, text)[n + 1], Scans(r, text)[n + 1], m)
    OBVIOUS
  <2>2. /\ n + 1 \in 1..Len(text) /\ (n + 1) - 1 = n
        /\ Alike(Scans(s, text)[n], Scans(r, text)[n], m)
    BY <1>0, <1>4, <2>1
  <2>3. /\ Scans(s, text)[n + 1] = Scan(Scans(s, text)[n], text[n + 1])
        /\ Scans(r, text)[n + 1] = Scan(Scans(r, text)[n], text[n + 1])
    BY <1>1, <2>2
  <2>. QED  BY <1>0, <1>2, <2>2, <2>3
<1>5. Nat \subseteq S
  <2>. HIDE DEF S
  <2>. QED  BY <1>3, <1>4, Counting
<1>. QED  BY <1>0, <1>5 DEF Scanned

\* What may be left of a name: some of its characters or, up to the quote
\* behind it, none.
Plain(x) == x = <<>> \/ \E t \in Tokens : t # Q /\ x = <<t>>

\* pre opens a string, of which x is read before the quote that ends it.
LEMMA NameRead ==
  ASSUME NEW s \in ScanStates, s.at = "string", s.read = <<>>, NEW x, Plain(x)
  PROVE  /\ x \in Texts /\ x \o <<Q>> \in Texts
         /\ Scanned(s, x \o <<Q>>) \in ScanStates
         /\ Scanned(s, x \o <<Q>>).at = "text" /\ Scanned(s, x \o <<Q>>).read = <<>>
         /\ Scanned(s, x \o <<Q>>).out = Append(s.out, Lexeme("string", x))
<1>1. /\ x \in Texts /\ <<Q>> \in Texts
  <2>1. <<Q>> \in Texts /\ \A t \in Tokens : <<t>> \in Texts
    BY Single, Facts
  <2>2. <<>> \in Texts
    BY DEF Texts
  <2>. QED  BY <2>1, <2>2, Zenon DEF Plain
<1>2. x \o <<Q>> \in Texts
  BY <1>1, Joined
<1>. DEFINE r == Scanned(s, x)
<1>3. r \in ScanStates /\ r.at = "string" /\ r.read = x /\ r.out = s.out
  <2>1. CASE x = <<>>
    <3>1. r = s
      BY <2>1, ScannedFew
    <3>. QED  BY <2>1, <3>1
  <2>2. CASE \E t \in Tokens : t # Q /\ x = <<t>>
    <3>1. PICK t \in Tokens : t # Q /\ x = <<t>>
      BY <2>2
    <3>2. r = Scan(s, t)
      BY <3>1, ScannedFew
    <3>3. Append(<<>>, t) = <<t>>
      OBVIOUS
    <3>. QED  BY <3>1, <3>2, <3>3, ScanSteps
  <2>. QED  BY <2>1, <2>2 DEF Plain
<1>. HIDE DEF r
<1>4. /\ Scan(r, Q) \in ScanStates /\ Scan(r, Q).at = "text" /\ Scan(r, Q).read = <<>>
      /\ Scan(r, Q).out = Append(s.out, Lexeme("string", x))
  <2>1. /\ Scan(r, Q) \in ScanStates /\ Scan(r, Q).at = "text" /\ Scan(r, Q).read = <<>>
        /\ Scan(r, Q).out = Append(r.out, Lexeme("string", r.read))
    BY <1>3, Facts, ScanSteps
  <2>. QED  BY <1>3, <2>1
<1>5. Scanned(s, x \o <<Q>>) = Scan(r, Q)
  <2>1. Scanned(s, x \o <<Q>>) = Scanned(r, <<Q>>)
    BY <1>1, ScannedJoined DEF r
  <2>2. Scanned(r, <<Q>>) = Scan(r, Q)
    BY ScannedFew
  <2>. QED  BY <2>1, <2>2
<1>. QED  BY <1>1, <1>2, <1>4, <1>5

\* The lexemes of a text that begins with pre, and with the name x and a quote.
Completed(pre, x, rest) == Lexemes(pre \o ((x \o <<Q>>) \o rest))

\* Two texts that differ in that name only have the same lexemes but for it.
LEMMA NamesAlike ==
  ASSUME NEW pre \in Texts, Scanned(ScanStart, pre).at = "string",
         Scanned(ScanStart, pre).read = <<>>,
         NEW x, Plain(x), NEW y, Plain(y), NEW rest \in Texts,
         NEW m, m = Len(Scanned(ScanStart, pre).out) + 1
  PROVE  /\ SameBut(Completed(pre, x, rest), Completed(pre, y, rest), m)
         /\ Completed(pre, x, rest)[m] = Lexeme("string", x)
         /\ \A i \in 1..(m - 1) :
              Completed(pre, x, rest)[i] = Scanned(ScanStart, pre).out[i]
         /\ IsJson(Completed(pre, x, rest)) = IsJson(Completed(pre, y, rest))
<1>. DEFINE s == Scanned(ScanStart, pre)
            sx == Scanned(s, x \o <<Q>>)
            sy == Scanned(s, y \o <<Q>>)
            ex == Scanned(sx, rest)
            ey == Scanned(sy, rest)
            a == Completed(pre, x, rest)
            b == Completed(pre, y, rest)
<1>1. s \in ScanStates /\ s.at = "string" /\ s.read = <<>> /\ m = Len(s.out) + 1
  BY StartTyped, ScannedTyped
<1>. HIDE DEF s
<1>2. /\ x \in Texts /\ x \o <<Q>> \in Texts /\ sx \in ScanStates /\ sx.at = "text"
      /\ sx.read = <<>> /\ sx.out = Append(s.out, Lexeme("string", x))
  BY <1>1, NameRead
<1>3. /\ y \in Texts /\ y \o <<Q>> \in Texts /\ sy \in ScanStates /\ sy.at = "text"
      /\ sy.read = <<>> /\ sy.out = Append(s.out, Lexeme("string", y))
  BY <1>1, NameRead
<1>4. /\ Scanned(ScanStart, pre \o ((x \o <<Q>>) \o rest)) = ex
      /\ Scanned(ScanStart, pre \o ((y \o <<Q>>) \o rest)) = ey
  <2>1. ASSUME NEW z \in Texts
        PROVE  Scanned(ScanStart, pre \o (z \o rest)) = Scanned(Scanned(s, z), rest)
    <3>1. z \o rest \in Texts
      BY Joined
    <3>2. Scanned(ScanStart, pre \o (z \o rest)) = Scanned(s, z \o rest)
      BY <3>1, ScannedJoined, Zenon DEF s
    <3>. QED  BY <3>2, ScannedJoined, Zenon
  <2>. QED  BY <1>2, <1>3, <2>1, Zenon
<1>. HIDE DEF sx, sy
<1>5. Alike(sx, sy, m)
  <2>1. s.out \in Seq(Lexs)
    BY <1>1 DEF ScanStates
  <2>2. /\ Lexeme("string", x) \in Lexs /\ Lexeme("string", x).kind = "string"
        /\ Lexeme("string", y) \in Lexs /\ Lexeme("string", y).kind = "string"
    BY <1>2, <1>3 DEF Lexs, Lexeme
  <2>3. \A k, l \in Lexs : k.kind = l.kind =>
          SameBut(Append(s.out, k), Append(s.out, l), m)
    BY <1>1, <2>1 DEF SameBut
  <2>. QED  BY <1>2, <1>3, <2>2, <2>3 DEF Alike
<1>6. Alike(ex, ey, m)
  BY <1>5, AlikeScanned
<1>7. /\ m \in 1..Len(sx.out) /\ sx.out[m] = Lexeme("string", x)
      /\ \A i \in 1..(m - 1) : sx.out[i] = s.out[i]
  <2>1. s.out \in Seq(Lexs)
    BY <1>1 DEF ScanStates
  <2>. QED  BY <1>1, <1>2, <2>1
<1>8. ex.out[m] = Lexeme("string", x) /\ \A i \in 1..(m - 1) : ex.out[i] = s.out[i]
  <2>1. /\ Len(sx.out) <= Len(ex.out) /\ \A i \in 1..Len(sx.out) : ex.out[i] = sx.out[i]
    BY <1>2, ReadStays
  <2>2. \A i \in 1..(m - 1) : i \in 1..Len(sx.out)
    <3>1. sx.out \in Seq(Lexs)
      BY <1>2 DEF ScanStates
    <3>. QED  BY <1>7, <3>1
  <2>. QED  BY <1>7, <2>1, <2>2
<1>9. /\ a = IF ex.at = "string" THEN Append(ex.out, Lexeme("open", <<>>)) ELSE ex.out
      /\ b = IF ey.at = "string" THEN Append(ey.out, Lexeme("open", <<>>)) ELSE ey.out
  BY <1>4, Zenon DEF Lexemes, Completed
<1>10. SameBut(ex.out, ey.out, m) /\ ex.at = ey.at /\ Lexeme("open", <<>>) \in Lexs
  BY <1>6 DEF Alike, Lexs, Lexeme, Texts
<1>. HIDE DEF a, b, ex, ey
<1>11. SameBut(a, b, m)
  BY <1>9, <1>10, SameButMore
<1>12. \A i \in 1..m : a[i] = ex.out[i]
  <2>1. ex.out \in Seq(Lexs) /\ m \in 1..Len(ex.out)
    BY <1>10 DEF SameBut
  <2>. QED  BY <1>9, <2>1
<1>13. Parsed(a) = Parsed(b)
  BY <1>11, SameButParsed
<1>14. m \in Nat /\ 1 <= m
  BY <1>7
<1>15. a[m] = Lexeme("string", x) /\ \A i \in 1..(m - 1) : a[i] = s.out[i]
  BY <1>8, <1>12, <1>14
<1>. QED  BY <1>11, <1>13, <1>15 DEF IsJson, a, b, s
-----------------------------------------------------------------------------
(* The repair.                                                             *)

\* The first guess that is JSON is the one that is taken.
LEMMA RepairFirst ==
  ASSUME NEW left, NEW i \in 1..3, IsJson(Guess(i, left)),
         \A j \in 1..3 : j < i => ~IsJson(Guess(j, left))
  PROVE  RepairSdkReply(left) # None /\ Decode(left) = Guess(i, left)
<1>. DEFINE guesses == [k \in DOMAIN Openers |-> Lexemes(DataPrefix \o Openers[k] \o left)]
            good == {k \in DOMAIN Openers : IsJson(guesses[k])}
            best == CHOOSE k \in good : \A j \in good : k <= j
<1>1. RepairSdkReply(left) = IF good = {} THEN None ELSE guesses[best]
  BY Zenon DEF RepairSdkReply
<1>2. DOMAIN Openers = 1..3
  BY DEF Openers
<1>3. \A k \in 1..3 : guesses[k] = Guess(k, left)
  BY <1>2, Zenon DEF Guess
<1>. HIDE DEF guesses
<1>4. good = {k \in 1..3 : IsJson(Guess(k, left))}
  BY <1>2, <1>3
<1>. HIDE DEF good
<1>5. i \in good /\ \A j \in good : i <= j
  BY <1>4
<1>6. best \in good /\ \A j \in good : best <= j
  BY <1>5
<1>. HIDE DEF best
<1>7. best = i
  BY <1>4, <1>5, <1>6
<1>8. RepairSdkReply(left) = Guess(i, left)
  BY <1>1, <1>3, <1>5, <1>7
<1>9. Guess(i, left) # None
  <2>1. SUFFICES ASSUME Guess(i, left) = <<>> PROVE FALSE
    BY Zenon DEF None
  <2>2. Parsed(<<>>) = ParseStart /\ ParseStart.expect = "value"
    <3>1. Len(<<>>) \in Nat /\ Len(<<>>) = 0
      OBVIOUS
    <3>. QED  BY <3>1, ParsesRecursion DEF Parsed, ParseStart
  <2>3. Parsed(<<>>).expect = "end"
    BY <2>1 DEF IsJson
  <2>. QED  BY <2>2, <2>3
<1>. QED  BY <1>8, <1>9, Zenon DEF Decode

\* A text whose parse fails somewhere is not JSON, whatever follows.
LEMMA FailsForGood ==
  ASSUME NEW a, NEW p, Takes(a, ParseStart, p), p.expect = "nothing", NEW b \in Texts
  PROVE  ~IsJson(Lexemes(a \o b))
<1>. DEFINE s == Scanned(ScanStart, a)
            e == Scanned(s, b)
            l == Lexemes(a \o b)
<1>1. /\ a \in Texts /\ s \in ScanStates /\ Parsed(s.out) = p /\ s.out \in Seq(Lexs)
  BY StartTyped, ScannedTyped DEF Takes, At, ScanStates
<1>2. Scanned(ScanStart, a \o b) = e
  BY <1>1, ScannedJoined
<1>3. l = IF e.at = "string" THEN Append(e.out, Lexeme("open", <<>>)) ELSE e.out
  BY <1>2, Zenon DEF Lexemes
<1>. HIDE DEF l, s
<1>4. /\ e \in ScanStates /\ Len(s.out) <= Len(e.out)
      /\ \A i \in 1..Len(s.out) : e.out[i] = s.out[i]
  BY <1>1, ScannedTyped, ReadStays
<1>. HIDE DEF e
<1>5. e.out \in Seq(Lexs) /\ Lexeme("open", <<>>) \in Lexs
  BY <1>4 DEF ScanStates, Lexs, Lexeme, Texts
<1>6. /\ l \in Seq(Lexs) /\ Len(s.out) <= Len(l)
      /\ \A i \in 1..Len(s.out) : s.out[i].kind = l[i].kind
  BY <1>1, <1>3, <1>4, <1>5
<1>7. Parses(s.out)[Len(s.out)] = Parses(l)[Len(s.out)] /\ Len(s.out) \in 0..Len(l)
  BY <1>1, <1>6, ParsesByKind
<1>8. Parses(l)[Len(s.out)].expect = "nothing"
  BY <1>1, <1>7 DEF Parsed
<1>9. Parsed(l).expect = "nothing"
  BY <1>6, <1>7, <1>8, FailureStays
<1>. QED  BY <1>9 DEF IsJson, l

\* A text in which some mark cannot be parsed is not JSON, whatever follows it.
LEMMA FailsAt ==
  ASSUME NEW a, NEW p, Takes(a, ParseStart, p), NEW k \in Marks, k # "quote",
         Parse(p, k).expect = "nothing", NEW b \in Texts
  PROVE  ~IsJson(Lexemes(a \o (<<Mark(k)>> \o b)))
<1>. DEFINE one == <<Mark(k)>>
            q == Parse(p, k)
<1>1. Takes(one, p, q)
  BY TakesPunctuation
<1>. HIDE DEF one, q
<1>2. Takes(a \o one, ParseStart, q) /\ q.expect = "nothing"
  BY <1>1, TakesJoined DEF q
<1>3. ~IsJson(Lexemes((a \o one) \o b))
  BY <1>2, FailsForGood
<1>4. a \in Texts /\ one \in Texts
  BY <1>1 DEF Takes
<1>5. (a \o one) \o b = a \o (one \o b)
  <2>1. Assoc(a, one, b)
    BY <1>4, Associated, Zenon
  <2>. QED  BY <2>1, Zenon DEF Assoc
<1>. QED  BY <1>3, <1>5 DEF one

\* What is read, and how much of the lost block is used up, before the name
\* that a guess completes.  It is the lexeme at Place(i).
Place(i) == IF i = 1 THEN 5 ELSE IF i = 2 THEN 6 ELSE 4
Before(i) == DataPrefix \o Openers[i]

\* A mark read outside strings becomes a lexeme of its kind.
LEMMA MarkScanned ==
  ASSUME NEW s \in ScanStates, s.at = "text", NEW k \in Marks, k # "quote"
  PROVE  /\ Scanned(s, <<Mark(k)>>) \in ScanStates
         /\ Scanned(s, <<Mark(k)>>).at = "text"
         /\ Scanned(s, <<Mark(k)>>).out = Append(s.out, Lexeme(k, <<Mark(k)>>))
<1>1. Mark(k) \in Tokens /\ Mark(k) # Q /\ Mark(k).kind = k
  BY TokensTyped, Facts
<1>2. Scanned(s, <<Mark(k)>>) = Scan(s, Mark(k))
  BY ScannedFew
<1>. QED  BY <1>1, <1>2, TextGoesOn

\* Three lexemes stand before the data.
LEMMA PrefixScanned ==
  LET s == Scanned(ScanStart, DataPrefix)
  IN /\ s \in ScanStates /\ s.at = "text" /\ s.out \in Seq(Lexs)
     /\ Len(s.out) + 1 = 4
<1>. DEFINE l == <<Mark("lbrace")>>
            q == Quoted(Word("data", 4))
            c == <<Mark("colon")>>
            r1 == Scanned(ScanStart, l)
            r2 == Scanned(r1, q)
            r3 == Scanned(r2, c)
<1>1. /\ "lbrace" \in Marks /\ "colon" \in Marks /\ "data" \in Labels
  BY DEF Marks, Labels
<1>2. Word("data", 4) \in Tokens /\ Word("data", 4) # Q
  BY <1>1, TokensTyped, Facts
<1>3. l \in Texts /\ q \in Texts /\ c \in Texts
  BY <1>1, <1>2, TokensTyped, Single, QuotedTyped DEF Long
<1>4. DataPrefix = (l \o q) \o c
  BY DEF DataPrefix
<1>5. ScanStart \in ScanStates /\ ScanStart.at = "text" /\ ScanStart.out = <<>>
  BY StartTyped DEF ScanStart
<1>6. /\ r1 \in ScanStates /\ r1.at = "text"
      /\ \E x : r1.out = Append(<<>>, x)
  <2>1. /\ r1 \in ScanStates /\ r1.at = "text"
        /\ r1.out = Append(ScanStart.out, Lexeme("lbrace", l))
    BY <1>1, <1>5, MarkScanned
  <2>. HIDE DEF r1
  <2>. QED  BY <1>5, <2>1, Zenon
<1>. HIDE DEF r1
<1>7. /\ r2 \in ScanStates /\ r2.at = "text"
      /\ \E x : r2.out = Append(r1.out, x)
  BY <1>2, <1>6, QuotedScanned
<1>. HIDE DEF r2
<1>8. /\ r3 \in ScanStates /\ r3.at = "text"
      /\ \E x : r3.out = Append(r2.out, x)
  BY <1>1, <1>7, MarkScanned
<1>9. Scanned(ScanStart, DataPrefix) = r3
  <2>. HIDE DEF l, q, c
  <2>1. l \o q \in Texts
    BY <1>3, Joined
  <2>2. Scanned(ScanStart, (l \o q) \o c) = Scanned(Scanned(ScanStart, l \o q), c)
    BY <1>3, <2>1, ScannedJoined
  <2>3. Scanned(ScanStart, l \o q) = r2
    BY <1>3, ScannedJoined DEF r1, r2
  <2>. QED  BY <1>4, <2>2, <2>3
<1>. HIDE DEF r3
<1>10. /\ r1.out \in Seq(Lexs) /\ r2.out \in Seq(Lexs) /\ r3.out \in Seq(Lexs)
  BY <1>6, <1>7, <1>8 DEF ScanStates
<1>11. Len(r1.out) = 0 + 1 /\ Len(r2.out) = Len(r1.out) + 1 /\ Len(r3.out) = Len(r2.out) + 1
  <2>1. \A x : Len(Append(<<>>, x)) = 1
    OBVIOUS
  <2>2. \A z \in Seq(Lexs) : \A x : Len(Append(z, x)) = Len(z) + 1
    OBVIOUS
  <2>. QED  BY <1>6, <1>7, <1>8, <1>10, <2>1, <2>2
<1>. QED  BY <1>8, <1>9, <1>10, <1>11

\* Eight characters stand before the data.
LEMMA PrefixWidth == Width(DataPrefix) = 8
<1>0. DataPrefix \in Texts
  BY PrefixTyped DEF Long
<1>1. <<>> \in Texts
  BY DEF Texts
<1>2. Ends(DataPrefix \o <<>>)[5] = 8
  BY <1>1, PrefixEnds
<1>3. Ends(DataPrefix \o <<>>)[Len(DataPrefix)] = Width(DataPrefix)
  BY <1>0, <1>1, Widths
<1>4. Len(DataPrefix) = 5
  <2>. DEFINE n == Len(DataPrefix)
  <2>1. 5 <= n /\ n <= 5 /\ n \in Nat
    BY <1>0, PrefixTyped, Textual DEF Long
  <2>. HIDE DEF n
  <2>2. n = 5
    BY <2>1
  <2>. QED  BY <2>2 DEF n
<1>. QED  BY <1>2, <1>3, <1>4

\* What the i-th guess puts before a tail: it ends in a string, of which nothing
\* has been read, behind Place(i) - 1 lexemes and Place(i) + 5 characters.
LEMMA BeforeScanned ==
  ASSUME NEW i \in 1..3
  PROVE  LET s == Scanned(ScanStart, Before(i))
         IN /\ Before(i) \in Texts /\ s \in ScanStates
            /\ s.at = "string" /\ s.read = <<>>
            /\ Len(s.out) + 1 = Place(i) /\ Place(i) \in 4..6
            /\ \A k \in 4..(Place(i) - 1) : s.out[k].kind # "string"
            /\ Width(Before(i)) = Place(i) + 5
<1>. DEFINE r == Scanned(ScanStart, DataPrefix)
            q == <<Q>>
            l == <<Mark("lbrace")>>
            h == <<Mark("lbracket")>>
<1>1. r \in ScanStates /\ r.at = "text" /\ r.out \in Seq(Lexs) /\ Len(r.out) + 1 = 4
  BY PrefixScanned
<1>. HIDE DEF r
<1>2. /\ "lbrace" \in Marks /\ "lbracket" \in Marks
      /\ Mark("lbrace") \in Tokens /\ Mark("lbracket") \in Tokens
      /\ Mark("lbrace").width = 1 /\ Mark("lbracket").width = 1
  BY TokensTyped DEF Marks
<1>3. /\ q \in Texts /\ l \in Texts /\ h \in Texts /\ DataPrefix \in Texts
      /\ Width(q) = 1 /\ Width(l) = 1 /\ Width(h) = 1
  BY <1>2, Facts, Single, WidthOfOne, PrefixTyped DEF Long
<1>4. Width(DataPrefix) = 8
  BY PrefixWidth
<1>5. Openers[1] = l \o q /\ Openers[2] = (h \o l) \o q /\ Openers[3] = q
  BY OpenersTyped
<1>. HIDE DEF q, l, h
<1>6. ASSUME NEW z \in ScanStates, z.at = "text"
      PROVE  /\ Scanned(z, q) \in ScanStates /\ Scanned(z, q).at = "string"
             /\ Scanned(z, q).read = <<>> /\ Scanned(z, q).out = z.out
  <2>1. Scanned(z, q) = Scan(z, Q)
    BY ScannedFew DEF q
  <2>. QED  BY <1>6, <2>1, StringBegins
<1>. DEFINE r1 == Scanned(r, l)
            r2 == Scanned(r, h)
            r3 == Scanned(r2, l)
<1>7. /\ r1 \in ScanStates /\ r1.at = "text"
      /\ r1.out = Append(r.out, Lexeme("lbrace", l))
  BY <1>1, <1>2, MarkScanned DEF l
<1>8. /\ r2 \in ScanStates /\ r2.at = "text"
      /\ r2.out = Append(r.out, Lexeme("lbracket", h))
  BY <1>1, <1>2, MarkScanned DEF h
<1>. HIDE DEF r2
<1>9. /\ r3 \in ScanStates /\ r3.at = "text"
      /\ r3.out = Append(r2.out, Lexeme("lbrace", l))
  BY <1>2, <1>8, MarkScanned DEF l
<1>10. \A k, x : Lexeme(k, x).kind = k
  BY DEF Lexeme
<1>. HIDE DEF r1, r3
<1>11. CASE i = 1
  <2>1. l \o q \in Texts /\ Before(i) = DataPrefix \o (l \o q)
    BY <1>3, <1>5, <1>11, Joined, Zenon DEF Before
  <2>2. Scanned(ScanStart, Before(i)) = Scanned(r1, q) /\ Before(i) \in Texts
    <3>1. Scanned(ScanStart, DataPrefix \o (l \o q)) = Scanned(r, l \o q)
      <4>1. l \o q \in Texts /\ DataPrefix \in Texts
        BY <1>3, <2>1
      <4>. QED  BY <4>1, ScannedJoined, Zenon DEF r
    <3>2. Scanned(r, l \o q) = Scanned(r1, q)
      BY <1>3, ScannedJoined, Zenon DEF r1
    <3>3. DataPrefix \o (l \o q) \in Texts
      BY <1>3, <2>1, Joined, Zenon
    <3>. QED  BY <2>1, <3>1, <3>2, <3>3, Zenon
  <2>3. Width(Before(i)) = 8 + (1 + 1)
    <3>1. Width(l \o q) = 1 + 1
      BY <1>3, Widths
    <3>2. Width(DataPrefix \o (l \o q)) = 8 + Width(l \o q)
      BY <1>3, <1>4, <2>1, Widths
    <3>. QED  BY <2>1, <3>1, <3>2
  <2>4. Len(r1.out) = Len(r.out) + 1 /\ r1.out[4].kind # "string"
    BY <1>1, <1>7, <1>10
  <2>5. Place(i) = 5
    BY <1>11 DEF Place
  <2>6. \A k \in 4..(5 - 1) : k = 4
    OBVIOUS
  <2>. QED  BY <1>1, <1>6, <1>7, <2>2, <2>3, <2>4, <2>5, <2>6
<1>12. CASE i = 2
  <2>1. /\ h \o l \in Texts /\ (h \o l) \o q \in Texts
        /\ Before(i) = DataPrefix \o ((h \o l) \o q)
    BY <1>3, <1>5, <1>12, Joined, Zenon DEF Before
  <2>2. Scanned(ScanStart, Before(i)) = Scanned(r3, q) /\ Before(i) \in Texts
    <3>1. Scanned(ScanStart, DataPrefix \o ((h \o l) \o q)) = Scanned(r, (h \o l) \o q)
      <4>1. (h \o l) \o q \in Texts /\ DataPrefix \in Texts
        BY <1>3, <2>1
      <4>. QED  BY <4>1, ScannedJoined, Zenon DEF r
    <3>2. Scanned(r, (h \o l) \o q) = Scanned(Scanned(r, h \o l), q)
      BY <1>3, <2>1, ScannedJoined, Zenon
    <3>3. Scanned(r, h \o l) = r3
      BY <1>3, ScannedJoined, Zenon DEF r2, r3
    <3>4. DataPrefix \o ((h \o l) \o q) \in Texts
      BY <1>3, <2>1, Joined, Zenon
    <3>. QED  BY <2>1, <3>1, <3>2, <3>3, <3>4, Zenon
  <2>3. Width(Before(i)) = 8 + ((1 + 1) + 1)
    <3>1. Width(h \o l) = 1 + 1
      BY <1>3, Widths
    <3>2. Width((h \o l) \o q) = Width(h \o l) + 1
      BY <1>3, <2>1, Widths
    <3>3. Width(DataPrefix \o ((h \o l) \o q)) = 8 + Width((h \o l) \o q)
      BY <1>3, <1>4, <2>1, Widths
    <3>. QED  BY <2>1, <3>1, <3>2, <3>3
  <2>4. /\ Len(r3.out) = (Len(r.out) + 1) + 1
        /\ r3.out[4].kind # "string" /\ r3.out[5].kind # "string"
    <3>1. r2.out \in Seq(Lexs)
      BY <1>8 DEF ScanStates
    <3>2. Len(r2.out) = Len(r.out) + 1 /\ r2.out[4].kind # "string"
      BY <1>1, <1>8, <1>10
    <3>3. Len(r3.out) = Len(r2.out) + 1 /\ r3.out[4] = r2.out[4]
          /\ r3.out[5].kind # "string"
      BY <1>1, <1>9, <1>10, <3>1, <3>2
    <3>. QED  BY <3>2, <3>3
  <2>5. Place(i) = 6
    BY <1>12 DEF Place
  <2>6. \A k \in 4..(6 - 1) : k = 4 \/ k = 5
    OBVIOUS
  <2>7. /\ Scanned(r3, q) \in ScanStates /\ Scanned(r3, q).at = "string"
        /\ Scanned(r3, q).read = <<>> /\ Scanned(r3, q).out = r3.out
    BY <1>6, <1>9
  <2>8. Len(r3.out) + 1 = 6 /\ \A k \in 4..(6 - 1) : r3.out[k].kind # "string"
    BY <1>1, <2>4, <2>6
  <2>. QED  BY <2>2, <2>3, <2>5, <2>7, <2>8
<1>13. CASE i = 3
  <2>1. Before(i) = DataPrefix \o q
    BY <1>5, <1>13, Zenon DEF Before
  <2>2. Scanned(ScanStart, Before(i)) = Scanned(r, q) /\ Before(i) \in Texts
    <3>1. Scanned(ScanStart, DataPrefix \o q) = Scanned(r, q)
      BY <1>3, ScannedJoined, Zenon DEF r
    <3>2. DataPrefix \o q \in Texts
      BY <1>3, Joined, Zenon
    <3>. QED  BY <2>1, <3>1, <3>2, Zenon
  <2>3. Width(Before(i)) = 8 + 1
    BY <1>3, <1>4, <2>1, Widths
  <2>5. Place(i) = 4
    BY <1>13 DEF Place
  <2>6. \A k \in 4..(4 - 1) : FALSE
    OBVIOUS
  <2>. QED  BY <1>1, <1>6, <2>2, <2>3, <2>5, <2>6
<1>. QED  BY <1>11, <1>12, <1>13

\* What is left of a text in which a name outlasts the lost block.
LEMMA NameCut ==
  ASSUME NEW pre \in Texts, NEW w \in Tokens, w.kind = "word", NEW rest \in Texts,
         Width(pre) <= Lost, Lost <= Width(pre) + w.width
  PROVE  \E x : Plain(x) /\ DecryptPairingReply(pre \o ((<<w>> \o <<Q>>) \o rest))
                              = (x \o <<Q>>) \o rest
<1>. DEFINE one == <<w>>
            q == <<Q>>
<1>1. /\ one \in Texts /\ q \in Texts /\ Width(one) = w.width /\ w.width \in Nat \ {0}
      /\ Width(q) = 1 /\ w # Q /\ Q.width = 1
  BY Single, Facts, WidthOfOne DEF Tokens
<1>2. Width(pre) \in Nat /\ Lost \in Nat
  BY <1>1, Widths DEF Lost
<1>3. CASE Lost < Width(pre) + w.width
  <2>. DEFINE n == Width(pre) + w.width - Lost
              t == Shorter(w, n)
  <2>1. n \in Nat \ {0} /\ q \o rest \in Texts
    <3>1. n \in Nat \ {0}
      BY <1>1, <1>2, <1>3
    <3>2. q \o rest \in Texts
      <4>. HIDE DEF q
      <4>. QED  BY <1>1, Joined, Zenon
    <3>. QED  BY <3>1, <3>2
  <2>2. DecryptPairingReply((pre \o one) \o (q \o rest)) = <<t>> \o (q \o rest)
    BY <1>2, <1>3, <2>1, CutAt
  <2>. HIDE DEF n
  <2>3. t \in Tokens /\ t # Q
    BY <1>1, <2>1, ShorterTyped, Facts
  <2>. HIDE DEF t
  <2>4. <<t>> \in Texts /\ Plain(<<t>>)
    BY <2>3, Single DEF Plain
  <2>. DEFINE x == <<t>>
  <2>. HIDE DEF q, one, x
  <2>5. pre \o ((one \o q) \o rest) = (pre \o one) \o (q \o rest)
    <3>1. (one \o q) \o rest = one \o (q \o rest)
      <4>1. Assoc(one, q, rest)
        BY <1>1, Associated, Zenon
      <4>. QED  BY <4>1, Zenon DEF Assoc
    <3>2. (pre \o one) \o (q \o rest) = pre \o (one \o (q \o rest))
      <4>1. Assoc(pre, one, q \o rest)
        BY <1>1, <2>1, Associated, Zenon
      <4>. QED  BY <4>1, Zenon DEF Assoc
    <3>. QED  BY <3>1, <3>2, Zenon
  <2>6. (x \o q) \o rest = x \o (q \o rest) /\ Plain(x)
    <3>1. x \in Texts /\ Plain(x) /\ q \in Texts
      BY <1>1, <2>4 DEF x
    <3>2. Assoc(x, q, rest)
      BY <3>1, Associated, Zenon
    <3>. QED  BY <3>1, <3>2, Zenon DEF Assoc
  <2>7. DecryptPairingReply(pre \o ((one \o q) \o rest)) = (x \o q) \o rest
    BY <2>2, <2>5, <2>6, Zenon DEF x
  <2>. QED  BY <2>6, <2>7, Zenon DEF one, q
<1>4. CASE Lost = Width(pre) + w.width
  <2>. DEFINE at == pre \o one
  <2>1. at \in Texts /\ Width(at) = Lost
    <3>. HIDE DEF one
    <3>1. pre \o one \in Texts /\ Width(pre \o one) = Width(pre) + Width(one)
      BY <1>1, Joined, Widths, Zenon
    <3>. QED  BY <1>1, <1>4, <3>1
  <2>. HIDE DEF at
  <2>2. /\ Width(at) + Q.width - Lost = 1
        /\ Width(at) <= Lost /\ Lost < Width(at) + Q.width
    BY <1>1, <1>2, <2>1
  <2>3. DecryptPairingReply((at \o q) \o rest) = <<Shorter(Q, 1)>> \o rest
    <3>1. DecryptPairingReply((at \o <<Q>>) \o rest)
            = <<Shorter(Q, Width(at) + Q.width - Lost)>> \o rest
      BY <2>1, <2>2, Facts, CutAt, Zenon
    <3>. QED  BY <2>2, <3>1, Zenon
  <2>4. Shorter(Q, 1) = Q
    BY <1>1, Facts, ShorterTyped
  <2>. HIDE DEF q, one
  <2>5. pre \o ((one \o q) \o rest) = (at \o q) \o rest
    <3>0. one \o q \in Texts
      BY <1>1, Joined, Zenon
    <3>1. pre \o ((one \o q) \o rest) = (pre \o (one \o q)) \o rest
      <4>1. Assoc(pre, one \o q, rest)
        BY <3>0, Associated, Zenon
      <4>. QED  BY <4>1, Zenon DEF Assoc
    <3>2. (pre \o one) \o q = pre \o (one \o q)
      <4>1. Assoc(pre, one, q)
        BY <1>1, Associated, Zenon
      <4>. QED  BY <4>1, Zenon DEF Assoc
    <3>. QED  BY <3>1, <3>2, Zenon DEF at
  <2>6. <<>> \o q = q /\ Plain(<<>>)
    BY <1>1 DEF Plain, Texts
  <2>7. DecryptPairingReply(pre \o ((one \o q) \o rest)) = (<<>> \o q) \o rest
    <3>1. <<Shorter(Q, 1)>> = q
      BY <2>4 DEF q
    <3>. QED  BY <2>3, <2>5, <2>6, <3>1, Zenon
  <2>. QED  BY <2>6, <2>7, Zenon DEF one, q
<1>5. Lost < Width(pre) + w.width \/ Lost = Width(pre) + w.width
  BY <1>1, <1>2
<1>. QED  BY <1>3, <1>4, <1>5, Zenon

\* The i-th guess restores a reply whose first name outlasts the lost block,
\* but for that name, if the guesses before it fail.
LEMMA Repaired ==
  ASSUME NEW i \in 1..3, NEW d \in Datas, NEW w \in Tokens, w.kind = "word",
         NEW rest \in Texts,
         Plaintext(d) = Before(i) \o ((<<w>> \o <<Q>>) \o rest),
         Lost <= Place(i) + 5 + w.width,
         \A j \in 1..3 : j < i =>
           \A x : Plain(x) => ~IsJson(Completed(Before(j), x, rest))
  PROVE  LET a == Decode(DecryptPairingReply(Plaintext(d)))
             b == Lexemes(Plaintext(d))
         IN /\ SameBut(b, a, Place(i)) /\ b[Place(i)] = Lexeme("string", <<w>>)
            /\ \A k \in 4..(Place(i) - 1) : b[k].kind # "string"
<1>. DEFINE left == DecryptPairingReply(Plaintext(d))
            s == Scanned(ScanStart, Before(i))
            name == <<w>>
<1>1. /\ Before(i) \in Texts /\ s.at = "string" /\ s.read = <<>>
      /\ Len(s.out) + 1 = Place(i) /\ Place(i) \in 4..6
      /\ \A k \in 4..(Place(i) - 1) : s.out[k].kind # "string"
      /\ Width(Before(i)) = Place(i) + 5
  BY BeforeScanned
<1>2. PICK x : Plain(x) /\ left = (x \o <<Q>>) \o rest
  <2>1. /\ Width(Before(i)) <= Lost /\ Lost <= Width(Before(i)) + w.width
    BY <1>1 DEF Lost
  <2>2. \E x : Plain(x) /\ DecryptPairingReply(Before(i) \o ((<<w>> \o <<Q>>) \o rest))
                              = (x \o <<Q>>) \o rest
    BY <1>1, <2>1, NameCut, Zenon
  <2>. QED  BY <2>2, Zenon
<1>3. \A j \in 1..3 : Guess(j, left) = Completed(Before(j), x, rest)
  BY <1>2, Zenon DEF Guess, Before, Completed
<1>. DEFINE b == Completed(Before(i), name, rest)
            a == Completed(Before(i), x, rest)
<1>4. Plain(name)
  <2>1. w # Q
    BY Facts
  <2>. QED  BY <2>1 DEF Plain
<1>. HIDE DEF name
<1>5. /\ SameBut(b, a, Place(i)) /\ b[Place(i)] = Lexeme("string", name)
      /\ \A k \in 1..(Place(i) - 1) : b[k] = s.out[k]
      /\ IsJson(b) = IsJson(a)
  <2>1. Place(i) = Len(Scanned(ScanStart, Before(i)).out) + 1
    BY <1>1
  <2>2. /\ Before(i) \in Texts /\ Scanned(ScanStart, Before(i)).at = "string"
        /\ Scanned(ScanStart, Before(i)).read = <<>> /\ Plain(name) /\ Plain(x)
    BY <1>1, <1>2, <1>4
  <2>3. /\ SameBut(b, a, Place(i)) /\ b[Place(i)] = Lexeme("string", name)
        /\ IsJson(b) = IsJson(a)
    BY <2>1, <2>2, NamesAlike
  <2>4. \A k \in 1..(Place(i) - 1) : b[k] = Scanned(ScanStart, Before(i)).out[k]
    BY <2>1, <2>2, NamesAlike
  <2>. QED  BY <2>3, <2>4
<1>6. b = Lexemes(Plaintext(d))
  BY Zenon DEF name, Completed
<1>. HIDE DEF a, b, s, left
<1>7. IsJson(b)
  BY <1>6, PlaintextIsJson
<1>8. IsJson(Guess(i, left)) /\ Guess(i, left) = a
  BY <1>3, <1>5, <1>7 DEF a
<1>9. \A j \in 1..3 : j < i => ~IsJson(Guess(j, left))
  BY <1>2, <1>3
<1>10. Decode(left) = a
  BY <1>8, <1>9, RepairFirst
<1>11. \A k \in 4..(Place(i) - 1) : b[k].kind # "string"
  <2>1. \A k \in 4..(Place(i) - 1) : k \in 1..(Place(i) - 1)
    BY <1>1
  <2>. QED  BY <1>1, <1>5, <2>1
<1>. QED  BY <1>5, <1>6, <1>10, <1>11, Zenon DEF name, left
-----------------------------------------------------------------------------
(* Data that begins with a name.                                           *)

\* A name and the quote behind it, and a text that begins with that name.
NameOf(w) == <<w>> \o <<Q>>
Begins(f, w) == \E z \in Texts : f = <<Q>> \o (NameOf(w) \o z)

\* A name in quotes is a quote, the name and a quote.
LEMMA NameTyped ==
  ASSUME NEW w \in Tokens
  PROVE  /\ <<w>> \in Texts /\ NameOf(w) \in Texts /\ <<Q>> \in Texts
         /\ Quoted(w) = <<Q>> \o NameOf(w)
<1>1. <<w>> \in Texts /\ <<Q>> \in Texts
  BY Facts, Single
<1>2. NameOf(w) \in Texts
  BY <1>1, Joined DEF NameOf
<1>3. Quoted(w) = <<Q>> \o NameOf(w)
  BY DEF Quoted, NameOf
<1>. QED  BY <1>1, <1>2, <1>3

\* A mark by itself is a text.
LEMMA MarksTyped ==
  ASSUME NEW k \in Marks
  PROVE  Mark(k) \in Tokens /\ <<Mark(k)>> \in Texts
BY TokensTyped, Single

\* A field begins with its name.
LEMMA FieldBegins ==
  ASSUME NEW w \in Tokens, NEW v \in Texts
  PROVE  /\ Field(w, v) = <<Q>> \o (NameOf(w) \o (<<Mark("colon")>> \o v))
         /\ Begins(Field(w, v), w) /\ Field(w, v) \in Texts
<1>. DEFINE q == <<Q>>
            n == NameOf(w)
            c == <<Mark("colon")>>
<1>1. q \in Texts /\ n \in Texts /\ c \in Texts
  BY NameTyped, MarksTyped DEF Marks
<1>2. Field(w, v) = ((q \o n) \o c) \o v
  <2>1. Field(w, v) = (Quoted(w) \o c) \o v
    BY DEF Field
  <2>. QED  BY <2>1, NameTyped, Zenon
<1>. HIDE DEF q, n, c
<1>3. ((q \o n) \o c) \o v = (q \o n) \o (c \o v) /\ c \o v \in Texts
  <2>1. q \o n \in Texts
    BY <1>1, Joined, Zenon
  <2>2. Assoc(q \o n, c, v)
    BY <1>1, <2>1, Associated, Zenon
  <2>. QED  BY <2>2, Zenon DEF Assoc
<1>4. (q \o n) \o (c \o v) = q \o (n \o (c \o v)) /\ n \o (c \o v) \in Texts
  <2>1. Assoc(q, n, c \o v)
    BY <1>1, <1>3, Associated, Zenon
  <2>. QED  BY <2>1, Zenon DEF Assoc
<1>5. Field(w, v) = q \o (n \o (c \o v)) /\ q \o (n \o (c \o v)) \in Texts
  <2>1. q \o (n \o (c \o v)) \in Texts
    BY <1>1, <1>4, Joined, Zenon
  <2>. QED  BY <1>2, <1>3, <1>4, <2>1, Zenon
<1>. QED  BY <1>3, <1>5, Zenon DEF Begins, q, n, c

\* A text in three parts, and what is put before or behind it.
Parted(text, u, n, m) ==
  u \in Texts /\ n \in Texts /\ m \in Texts /\ text = u \o (n \o m)

\* A text in parts stays so, whatever is put behind or before it.
LEMMA PartedMore ==
  ASSUME NEW text, NEW u, NEW n, NEW m, Parted(text, u, n, m), NEW x \in Texts
  PROVE  /\ Parted(text \o x, u, n, m \o x)
         /\ Parted(x \o text, x \o u, n, m)
         /\ text \in Texts
<1>1. u \in Texts /\ n \in Texts /\ m \in Texts /\ text = u \o (n \o m)
  BY Zenon DEF Parted
<1>2. /\ n \o m \in Texts /\ m \o x \in Texts /\ x \o u \in Texts
      /\ u \o (n \o m) \in Texts
  <2>1. n \o m \in Texts /\ m \o x \in Texts /\ x \o u \in Texts
    BY <1>1, Joined, Zenon
  <2>. QED  BY <1>1, <2>1, Joined, Zenon
<1>3. (u \o (n \o m)) \o x = u \o (n \o (m \o x))
  <2>1. (u \o (n \o m)) \o x = u \o ((n \o m) \o x)
    <3>1. u \in Texts /\ n \o m \in Texts /\ x \in Texts
      BY <1>1, <1>2
    <3>2. Assoc(u, n \o m, x)
      BY <3>1, Associated, Zenon
    <3>. QED  BY <3>2, Zenon DEF Assoc
  <2>2. (n \o m) \o x = n \o (m \o x)
    <3>1. Assoc(n, m, x)
      BY <1>1, Associated, Zenon
    <3>. QED  BY <3>1, Zenon DEF Assoc
  <2>. QED  BY <2>1, <2>2, Zenon
<1>4. (x \o u) \o (n \o m) = x \o (u \o (n \o m))
  <2>1. x \in Texts /\ u \in Texts /\ n \o m \in Texts
    BY <1>1, <1>2
  <2>2. Assoc(x, u, n \o m)
    BY <2>1, Associated, Zenon
  <2>. QED  BY <2>2, Zenon DEF Assoc
<1>. QED  BY <1>1, <1>2, <1>3, <1>4, Zenon DEF Parted

\* A text that begins with a name does so, whatever follows.
LEMMA BeginsMore ==
  ASSUME NEW f, NEW w \in Tokens, Begins(f, w), NEW g \in Texts
  PROVE  Begins(f \o g, w) /\ f \o g \in Texts
<1>1. <<Q>> \in Texts /\ NameOf(w) \in Texts
  BY NameTyped
<1>2. PICK z \in Texts : f = <<Q>> \o (NameOf(w) \o z)
  BY Zenon DEF Begins
<1>3. Parted(f, <<Q>>, NameOf(w), z)
  BY <1>1, <1>2, Zenon DEF Parted
<1>4. Parted(f \o g, <<Q>>, NameOf(w), z \o g)
  BY <1>3, PartedMore, Zenon
<1>5. f \o g \in Texts
  <2>1. f \in Texts
    BY <1>3, PartedMore, Zenon
  <2>. QED  BY <2>1, Joined, Zenon
<1>. QED  BY <1>4, <1>5, Zenon DEF Begins, Parted

\* What the i-th guess completes: a reply of which the name w stands behind
\* the i-th opening.
Completes(i, d, w, rest) == Plaintext(d) = Before(i) \o (NameOf(w) \o rest)

\* A comma stands behind the data.
LEMMA SuffixTyped ==
  /\ DataPrefix \in Texts /\ DataSuffix \in Texts
  /\ \E z \in Texts : DataSuffix = Also \o z
<1>1. DataPrefix \in Texts
  BY PrefixTyped DEF Long
<1>2. DataSuffix \in Texts
  BY EnvelopeTaken DEF Takes
<1>. DEFINE f == Field(Word("appTimeout", 10), <<Number("0", 1)>>)
<1>3. Also \in Texts /\ f \in Texts /\ Ending \in Texts
  <2>1. /\ "appTimeout" \in Labels /\ "0" \in Labels /\ "comma" \in Marks
        /\ 10 \in Nat \ {0} /\ 1 \in Nat \ {0}
    BY DEF Marks, Labels
  <2>2. Word("appTimeout", 10) \in Tokens /\ <<Number("0", 1)>> \in Texts /\ Also \in Texts
    BY <2>1, TokensTyped, Single DEF Also
  <2>. QED  BY <2>2, EndingTyped, FieldBegins
<1>. HIDE DEF f
<1>4. DataSuffix = ((Also \o f) \o Also) \o Ending
  BY Zenon DEF DataSuffix, f
<1>5. (Also \o f) \o Also = Also \o (f \o Also) /\ f \o Also \in Texts
  <2>1. Assoc(Also, f, Also)
    BY <1>3, Associated, Zenon
  <2>. QED  BY <2>1, Zenon DEF Assoc
<1>6. (Also \o (f \o Also)) \o Ending = Also \o ((f \o Also) \o Ending)
      /\ (f \o Also) \o Ending \in Texts
  <2>1. Assoc(Also, f \o Also, Ending)
    BY <1>3, <1>5, Associated, Zenon
  <2>. QED  BY <2>1, Zenon DEF Assoc
<1>. QED  BY <1>1, <1>2, <1>4, <1>5, <1>6, Zenon

\* Braces, and brackets around braces, before what begins with a name.
LEMMA BracesParted ==
  ASSUME NEW f, NEW w \in Tokens, NEW z \in Texts, Parted(f, <<Q>>, NameOf(w), z)
  PROVE  Parted(Braces(f), Openers[1], NameOf(w), z \o <<Mark("rbrace")>>)
<1>. DEFINE l == <<Mark("lbrace")>>
            r == <<Mark("rbrace")>>
<1>1. l \in Texts /\ r \in Texts
  BY MarksTyped DEF Marks
<1>2. Braces(f) = (l \o f) \o r /\ Openers[1] = l \o <<Q>>
  <2>1. Braces(f) = (l \o f) \o r
    BY DEF Braces
  <2>. QED  BY <2>1, OpenersTyped
<1>. HIDE DEF l, r
<1>3. Parted(l \o f, l \o <<Q>>, NameOf(w), z)
  BY <1>1, PartedMore, Zenon
<1>4. Parted((l \o f) \o r, l \o <<Q>>, NameOf(w), z \o r)
  BY <1>1, <1>3, PartedMore, Zenon
<1>. QED  BY <1>2, <1>4, Zenon DEF r

\* Data that begins as the i-th guess does is completed by it.
LEMMA Completing ==
  ASSUME NEW i, NEW d, NEW w, NEW z, Parted(d, Openers[i], NameOf(w), z)
  PROVE  Completes(i, d, w, z \o DataSuffix) /\ z \o DataSuffix \in Texts
<1>1. Parted(DataPrefix \o d, DataPrefix \o Openers[i], NameOf(w), z)
  BY SuffixTyped, PartedMore, Zenon
<1>2. Parted((DataPrefix \o d) \o DataSuffix, DataPrefix \o Openers[i], NameOf(w), z \o DataSuffix)
  BY <1>1, SuffixTyped, PartedMore, Zenon
<1>. QED  BY <1>2, Zenon DEF Parted, Completes, Plaintext, Before

\* The first guess completes an object, up to its first name.
LEMMA ObjectCompleted ==
  ASSUME NEW f, NEW w \in Tokens, Begins(f, w)
  PROVE  \E rest \in Texts : Completes(1, Braces(f), w, rest)
<1>1. PICK z \in Texts : f = <<Q>> \o (NameOf(w) \o z)
  BY Zenon DEF Begins
<1>2. Parted(f, <<Q>>, NameOf(w), z)
  BY <1>1, NameTyped, Zenon DEF Parted
<1>3. Parted(Braces(f), Openers[1], NameOf(w), z \o <<Mark("rbrace")>>)
  BY <1>2, BracesParted, Zenon
<1>. QED  BY <1>3, Completing, Zenon
-----------------------------------------------------------------------------
(* Long names: the whole reply is restored but for the first name.          *)

\* Where the name that a guess completes stands in the reply as it was.
LEMMA FirstNamed ==
  ASSUME NEW i \in 1..3, NEW d, NEW w \in Tokens, w.kind = "word",
         NEW rest \in Texts, Completes(i, d, w, rest),
         NEW b, b = Lexemes(Plaintext(d))
  PROVE  /\ b \in Seq(Lexs) /\ Place(i) \in 4..Len(b)
         /\ b[Place(i)] = Lexeme("string", <<w>>)
         /\ \A k \in 4..(Place(i) - 1) : b[k].kind # "string"
<1>. DEFINE s == Scanned(ScanStart, Before(i))
            name == <<w>>
<1>1. /\ Before(i) \in Texts /\ s.at = "string" /\ s.read = <<>>
      /\ Len(s.out) + 1 = Place(i) /\ Place(i) \in 4..6
      /\ \A k \in 4..(Place(i) - 1) : s.out[k].kind # "string"
  BY BeforeScanned
<1>2. Plain(name)
  <2>1. w # Q
    BY Facts
  <2>. QED  BY <2>1 DEF Plain
<1>3. b = Completed(Before(i), name, rest)
  BY Zenon DEF Completes, NameOf, Completed
<1>. HIDE DEF name
<1>4. /\ SameBut(b, b, Place(i)) /\ b[Place(i)] = Lexeme("string", name)
      /\ \A k \in 1..(Place(i) - 1) : b[k] = s.out[k]
  <2>1. Place(i) = Len(Scanned(ScanStart, Before(i)).out) + 1
    BY <1>1
  <2>2. /\ Before(i) \in Texts /\ Scanned(ScanStart, Before(i)).at = "string"
        /\ Scanned(ScanStart, Before(i)).read = <<>>
    BY <1>1
  <2>. HIDE DEF s
  <2>3. /\ SameBut(Completed(Before(i), name, rest), Completed(Before(i), name, rest), Place(i))
        /\ Completed(Before(i), name, rest)[Place(i)] = Lexeme("string", name)
    BY <1>2, <2>1, <2>2, NamesAlike
  <2>4. \A k \in 1..(Place(i) - 1) :
          Completed(Before(i), name, rest)[k] = Scanned(ScanStart, Before(i)).out[k]
    BY <1>2, <2>1, <2>2, NamesAlike
  <2>. QED  BY <1>3, <2>3, <2>4 DEF s
<1>. HIDE DEF s
<1>5. \A k \in 4..(Place(i) - 1) : b[k].kind # "string"
  <2>1. \A k \in 4..(Place(i) - 1) : k \in 1..(Place(i) - 1)
    BY <1>1
  <2>. QED  BY <1>1, <1>4, <2>1
<1>6. b \in Seq(Lexs) /\ Place(i) \in 4..Len(b)
  BY <1>1, <1>4 DEF SameBut
<1>. QED  BY <1>4, <1>5, <1>6 DEF name

\* The first string from the fourth lexeme on is where FirstAt finds it.
LEMMA FirstChosen ==
  ASSUME NEW b \in Seq(Lexs), NEW p \in 4..Len(b), b[p].kind = "string",
         \A k \in 4..(p - 1) : b[k].kind # "string"
  PROVE  (CHOOSE i \in 4..Len(b) : /\ b[i].kind = "string"
                                   /\ \A j \in 4..(i - 1) : b[j].kind # "string") = p
<1>. DEFINE First(i) == /\ b[i].kind = "string"
                        /\ \A j \in 4..(i - 1) : b[j].kind # "string"
            c == CHOOSE i \in 4..Len(b) : First(i)
<1>1. First(p)
  OBVIOUS
<1>2. c \in 4..Len(b) /\ First(c)
  <2>. HIDE DEF First
  <2>. QED  BY <1>1
<1>. HIDE DEF c
<1>3. p < c => FALSE
  BY <1>2
<1>4. c < p => FALSE
  BY <1>2
<1>5. c = p
  BY <1>2, <1>3, <1>4
<1>. QED  BY <1>5 DEF c

\* A reply whose first name the i-th guess completes, if the earlier guesses
\* fail, is as the property says.
LEMMA LongNameRepaired ==
  ASSUME NEW i \in 1..3, NEW w \in Tokens, w.kind = "word",
         NEW rest \in Texts, Completes(i, data, w, rest),
         \A j \in 1..3 : j < i =>
           \A x : Plain(x) => ~IsJson(Completed(Before(j), x, rest)),
         data \in Datas, LostOfFirst = 11 - Place(i),
         tail = DecryptPairingReply(Plaintext(data)), decoded = Decode(tail)
  PROVE  LongNamesRepaired
<1>. DEFINE b == Original
<1>1. /\ b \in Seq(Lexs) /\ Place(i) \in 4..Len(b)
      /\ b[Place(i)] = Lexeme("string", <<w>>)
      /\ \A k \in 4..(Place(i) - 1) : b[k].kind # "string"
  <2>1. b = Lexemes(Plaintext(data))
    BY DEF Original
  <2>. HIDE DEF b
  <2>. QED  BY <2>1, FirstNamed
<1>2. b[Place(i)].kind = "string" /\ b[Place(i)].content[1] = w
  BY <1>1 DEF Lexeme
<1>3. FirstAt = Place(i)
  <2>. HIDE DEF b
  <2>1. (CHOOSE k \in 4..Len(b) : /\ b[k].kind = "string"
                                  /\ \A j \in 4..(k - 1) : b[j].kind # "string") = Place(i)
    BY <1>1, <1>2, FirstChosen
  <2>. QED  BY <2>1, Zenon DEF FirstAt, b
<1>4. SUFFICES ASSUME Original[FirstAt].content[1].width >= LostOfFirst
               PROVE  /\ Len(decoded) = Len(Original)
                      /\ \A k \in DOMAIN Original : k # FirstAt => decoded[k] = Original[k]
  BY Zenon DEF LongNamesRepaired
<1>5. w.width >= 11 - Place(i) /\ w.width \in Nat
  BY <1>2, <1>3, <1>4 DEF Tokens
<1>6. Lost <= Place(i) + 5 + w.width
  BY <1>5 DEF Lost, Place
<1>7. Plaintext(data) = Before(i) \o ((<<w>> \o <<Q>>) \o rest)
  BY Zenon DEF Completes, NameOf
<1>8. SameBut(Lexemes(Plaintext(data)), Decode(DecryptPairingReply(Plaintext(data))), Place(i))
  BY <1>6, <1>7, Repaired
<1>9. SameBut(b, decoded, Place(i))
  BY <1>8, Zenon DEF Original
<1>10. /\ Len(decoded) = Len(b)
       /\ \A k \in DOMAIN b : k # Place(i) => decoded[k] = b[k]
  <2>. HIDE DEF b
  <2>. QED  BY <1>9 DEF SameBut
<1>. QED  BY <1>3, <1>10

\* What a reply is, whatever may be asked of it.
Answered ==
  /\ data \in Datas
  /\ tail = None \/ /\ tail = DecryptPairingReply(Plaintext(data))
                    /\ decoded = Decode(tail)

\* Objects with a long first name: the first guess is right.
LEMMA ObjectsRepaired ==
  ASSUME data \in Objects, Answered, tail # None
  PROVE  LongNamesRepaired
<1>1. PICK f \in Fields("name1", "value1") :
        \/ data = Braces(f)
        \/ \E g \in Fields("name2", "value2") : data = Braces(f \o Also \o g)
  BY DEF Objects
<1>2. PICK w \in Names("name1"), v \in Scalars("value1") :
        f = Field(w, v) /\ w \in Tokens /\ w.kind = "word" /\ Valued(v)
  BY FieldsMade
<1>3. v \in Texts
  BY <1>2, EnvelopeTaken DEF Valued, Takes
<1>4. Begins(f, w)
  BY <1>2, <1>3, FieldBegins
<1>5. \E rest \in Texts : Completes(1, data, w, rest)
  <2>1. CASE data = Braces(f)
    BY <1>2, <1>4, <2>1, ObjectCompleted
  <2>2. CASE \E g \in Fields("name2", "value2") : data = Braces(f \o Also \o g)
    <3>1. PICK g \in Fields("name2", "value2") : data = Braces(f \o Also \o g)
      BY <2>2
    <3>2. g \in Texts /\ Also \in Texts
      <4>1. Listed(g)
        BY FieldsListed
      <4>. QED  BY <4>1, EnvelopeTaken, MarksTyped DEF Listed, Takes, Also, Marks
    <3>3. Begins((f \o Also) \o g, w)
      BY <1>2, <1>4, <3>2, BeginsMore, Zenon
    <3>. QED  BY <1>2, <3>1, <3>3, ObjectCompleted, Zenon
  <2>. QED  BY <1>1, <2>1, <2>2
<1>6. PICK rest \in Texts : Completes(1, data, w, rest)
  BY <1>5
<1>7. LostOfFirst = 11 - Place(1)
  BY DEF LostOfFirst, Place
<1>8. \A j \in 1..3 : j < 1 => FALSE
  OBVIOUS
<1>9. 1 \in 1..3
  OBVIOUS
<1>10. /\ data \in Datas /\ tail = DecryptPairingReply(Plaintext(data))
       /\ decoded = Decode(tail)
  BY DEF Answered
<1>. QED  BY <1>2, <1>6, <1>7, <1>8, <1>9, <1>10, LongNameRepaired, Zenon

\* The parse of a guess behind the name, and what is wrong with a guess.
Guessed(j) ==
  IF j = 1 THEN Append(Open, "lbrace") ELSE Append(Append(Open, "lbracket"), "lbrace")

\* A guess of an object, or of a list, that reads the rest of a name expects a colon.
LEMMA GuessTaken ==
  ASSUME NEW j \in 1..2, NEW x, Plain(x)
  PROVE  /\ Takes(Before(j) \o (x \o <<Q>>), ParseStart, State("colon", Guessed(j)))
         /\ Before(j) \in Texts /\ x \o <<Q>> \in Texts
         /\ Append(Open, "lbracket") \in Stacks
<1>. DEFINE q == <<Q>>
            l == <<Mark("lbrace")>>
            h == <<Mark("lbracket")>>
            n == x \o q
            g == Guessed(j)
            list == Append(Open, "lbracket")
<1>1. x \in Texts /\ q \in Texts /\ l \in Texts /\ h \in Texts /\ n \in Texts
  <2>1. \A t \in Tokens : <<t>> \in Texts
    BY Single
  <2>2. x \in Texts /\ q \in Texts
    <3>1. <<>> \in Texts
      BY DEF Texts
    <3>. QED  BY <2>1, <3>1, Facts, Zenon DEF Plain
  <2>. QED  BY <2>2, Joined, MarksTyped DEF Marks
<1>2. /\ \E o \in Texts : Openers[j] = o \o q /\ Takes(o, State("value", Open), State("name", g))
      /\ list \in Stacks
  <2>1. Open \in Stacks /\ list \in Stacks
    BY EnvelopeTaken, Stacked
  <2>2. /\ Parse(State("value", Open), "lbrace") = State("name", Append(Open, "lbrace"))
        /\ Parse(State("value", Open), "lbracket") = State("item", list)
        /\ Parse(State("item", list), "lbrace") = State("name", Append(list, "lbrace"))
    BY ParseCases
  <2>3. \A p : /\ Takes(l, p, Parse(p, "lbrace"))
               /\ Takes(h, p, Parse(p, "lbracket"))
    <3>1. "lbrace" \in Marks \ {"quote"} /\ "lbracket" \in Marks \ {"quote"}
      BY DEF Marks
    <3>. QED  BY <3>1, TakesPunctuation
  <2>4. Openers[1] = l \o q /\ Openers[2] = (h \o l) \o q
    BY OpenersTyped
  <2>. HIDE DEF l, h, q, list
  <2>5. /\ Takes(l, State("value", Open), State("name", Append(Open, "lbrace")))
        /\ Takes(h \o l, State("value", Open), State("name", Append(list, "lbrace")))
    <3>1. /\ Takes(h, State("value", Open), State("item", list))
          /\ Takes(l, State("item", list), State("name", Append(list, "lbrace")))
          /\ Takes(l, State("value", Open), State("name", Append(Open, "lbrace")))
      BY <2>2, <2>3, Zenon
    <3>. QED  BY <3>1, TakesJoined, Zenon
  <2>6. h \o l \in Texts
    BY <2>5 DEF Takes
  <2>7. j = 1 \/ j = 2
    OBVIOUS
  <2>8. /\ j = 1 => g = Append(Open, "lbrace")
        /\ j = 2 => g = Append(list, "lbrace")
    BY DEF Guessed, list
  <2>. HIDE DEF g
  <2>. QED  BY <1>1, <2>1, <2>4, <2>5, <2>6, <2>7, <2>8, Zenon
<1>3. PICK o \in Texts : Openers[j] = o \o q /\ Takes(o, State("value", Open), State("name", g))
  BY <1>2
<1>4. Takes(q \o n, State("name", g), State("colon", g))
  <2>1. Parse(State("name", g), "string") = State("colon", g)
    BY ParseCases
  <2>2. q \o n \in Texts
    BY <1>1, Joined
  <2>3. ASSUME NEW s \in ScanStates, At(s, State("name", g))
        PROVE  At(Scanned(s, q \o n), State("colon", g))
    <3>. DEFINE r == Scanned(s, q)
                e == Scanned(r, n)
    <3>1. s.at = "text" /\ Parsed(s.out) = State("name", g) /\ s.out \in Seq(Lexs)
      BY <2>3 DEF At, ScanStates
    <3>2. r \in ScanStates /\ r.at = "string" /\ r.read = <<>> /\ r.out = s.out
      <4>1. r = Scan(s, Q)
        BY ScannedFew
      <4>. QED  BY <3>1, <4>1, Facts, ScanSteps
    <3>. HIDE DEF r
    <3>3. /\ e \in ScanStates /\ e.at = "text"
          /\ e.out = Append(s.out, Lexeme("string", x))
      BY <3>2, NameRead
    <3>4. Lexeme("string", x) \in Lexs /\ Lexeme("string", x).kind = "string"
      BY <1>1 DEF Lexs, Lexeme
    <3>. HIDE DEF e
    <3>5. Parsed(e.out) = Parse(State("name", g), "string")
      BY <3>1, <3>3, <3>4, ParsedMore
    <3>6. Scanned(s, q \o n) = e
      <4>0. q \in Texts /\ n \in Texts
        BY <1>1
      <4>1. Scanned(s, q \o n) = Scanned(Scanned(s, q), n)
        BY <4>0, ScannedJoined, Zenon
      <4>. QED  BY <4>1, Zenon DEF r, e
    <3>. QED  BY <2>1, <3>3, <3>5, <3>6 DEF At
  <2>. QED  BY <2>2, <2>3, Zenon DEF Takes
<1>. HIDE DEF q, l, h, n, g
<1>5. Takes((DataPrefix \o o) \o (q \o n), ParseStart, State("colon", g))
  BY <1>3, <1>4, EnvelopeTaken, TakesJoined, Zenon
<1>6. (DataPrefix \o (o \o q)) \o n = (DataPrefix \o o) \o (q \o n)
      /\ DataPrefix \o (o \o q) \in Texts
  <2>1. o \o q \in Texts /\ DataPrefix \in Texts /\ q \o n \in Texts
    BY <1>1, <1>3, SuffixTyped, Joined, Zenon
  <2>2. DataPrefix \o (o \o q) = (DataPrefix \o o) \o q
    <3>1. DataPrefix \in Texts /\ o \in Texts /\ q \in Texts
      BY <1>1, <2>1
    <3>2. Assoc(DataPrefix, o, q)
      BY <3>1, Associated, Zenon
    <3>. QED  BY <3>2, Zenon DEF Assoc
  <2>3. DataPrefix \o o \in Texts /\ DataPrefix \o (o \o q) \in Texts
    BY <2>1, Joined, Zenon
  <2>4. ((DataPrefix \o o) \o q) \o n = (DataPrefix \o o) \o (q \o n)
    <3>1. DataPrefix \o o \in Texts /\ q \in Texts /\ n \in Texts
      BY <1>1, <2>3
    <3>2. Assoc(DataPrefix \o o, q, n)
      BY <3>1, Associated, Zenon
    <3>. QED  BY <3>2, Zenon DEF Assoc
  <2>. QED  BY <2>2, <2>3, <2>4, Zenon
<1>7. Before(j) = DataPrefix \o (o \o q)
  BY <1>3, Zenon DEF Before
<1>. QED  BY <1>1, <1>2, <1>5, <1>6, <1>7, Zenon DEF n, q, g

\* A guess is not JSON if some mark behind the rest of the name cannot follow.
LEMMA GuessFails ==
  ASSUME NEW j \in 1..2, NEW x, Plain(x), NEW a, NEW p, NEW b \in Texts,
         Takes(a, State("colon", Guessed(j)), p),
         NEW k \in Marks, k # "quote", Parse(p, k).expect = "nothing"
  PROVE  ~IsJson(Completed(Before(j), x, a \o (<<Mark(k)>> \o b)))
<1>. DEFINE n == x \o <<Q>>
            c == <<Mark(k)>>
<1>1. /\ Takes(Before(j) \o n, ParseStart, State("colon", Guessed(j)))
      /\ Before(j) \in Texts /\ n \in Texts /\ a \in Texts /\ c \in Texts
  BY GuessTaken, MarksTyped DEF Takes
<1>. HIDE DEF n
<1>2. Takes((Before(j) \o n) \o a, ParseStart, p)
  BY <1>1, TakesJoined, Zenon
<1>3. ~IsJson(Lexemes(((Before(j) \o n) \o a) \o (<<Mark(k)>> \o b)))
  BY <1>2, FailsAt, Zenon
<1>. HIDE DEF c
<1>4. ((Before(j) \o n) \o a) \o (c \o b) = Before(j) \o (n \o (a \o (c \o b)))
  <2>1. c \o b \in Texts /\ Before(j) \o n \in Texts
    BY <1>1, Joined, Zenon
  <2>2. a \o (c \o b) \in Texts
    BY <1>1, <2>1, Joined, Zenon
  <2>3. ((Before(j) \o n) \o a) \o (c \o b) = (Before(j) \o n) \o (a \o (c \o b))
    <3>1. Before(j) \o n \in Texts /\ a \in Texts /\ c \o b \in Texts
      BY <1>1, <2>1
    <3>2. Assoc(Before(j) \o n, a, c \o b)
      BY <3>1, Associated, Zenon
    <3>. QED  BY <3>2, Zenon DEF Assoc
  <2>4. (Before(j) \o n) \o (a \o (c \o b)) = Before(j) \o (n \o (a \o (c \o b)))
    <3>1. Before(j) \in Texts /\ n \in Texts /\ a \o (c \o b) \in Texts
      BY <1>1, <2>2
    <3>2. Assoc(Before(j), n, a \o (c \o b))
      BY <3>1, Associated, Zenon
    <3>. QED  BY <3>2, Zenon DEF Assoc
  <2>. QED  BY <2>3, <2>4, Zenon
<1>. QED  BY <1>3, <1>4, Zenon DEF Completed, n, c

\* Which kind of data begins with which token.
LEMMA DatasBegin ==
  /\ \A f \in Texts : Braces(f)[1] = Mark("lbrace") /\ Brackets(f)[1] = Mark("lbracket")
  /\ \A d \in Objects : d[1] = Mark("lbrace")
  /\ \A d \in Lists : d[1] = Mark("lbracket")
  /\ \A d \in Strings : d[1] = Q
  /\ Q # Mark("lbrace") /\ Q # Mark("lbracket") /\ Mark("lbrace") # Mark("lbracket")
<1>1. \A f \in Texts : Braces(f)[1] = Mark("lbrace") /\ Brackets(f)[1] = Mark("lbracket")
  <2>. TAKE f \in Texts
  <2>1. Len(f) \in Nat /\ Long(f, Len(f))
    BY Textual
  <2>. QED  BY <2>1, BracesTyped, BracketsTyped, Zenon
<1>2. /\ \A f \in Fields("name1", "value1") : f \in Texts
      /\ \A f \in Fields("name2", "value2") : f \in Texts
      /\ Also \in Texts
  <2>1. /\ \A f \in Fields("name1", "value1") : Listed(f)
        /\ \A f \in Fields("name2", "value2") : Listed(f)
    BY FieldsListed
  <2>2. \A f : Listed(f) => f \in Texts
    BY EnvelopeTaken DEF Listed, Takes
  <2>. QED  BY <2>1, <2>2, MarksTyped DEF Also, Marks
<1>3. \A f, g \in Texts : f \o Also \o g \in Texts
  BY <1>2, Joined
<1>4. \A f \in Texts : Braces(f) \in Texts
  <2>. TAKE f \in Texts
  <2>1. Len(f) \in Nat /\ Long(f, Len(f))
    BY Textual
  <2>. QED  BY <2>1, BracesTyped, Zenon DEF Long
<1>5. \A d \in Objects : d[1] = Mark("lbrace")
  <2>. TAKE d \in Objects
  <2>1. \E x \in Texts : d = Braces(x)
    <3>1. \/ \E f \in Fields("name1", "value1") : d = Braces(f)
          \/ \E f \in Fields("name1", "value1"), g \in Fields("name2", "value2") :
               d = Braces(f \o Also \o g)
      BY DEF Objects
    <3>. QED  BY <1>2, <1>3, <3>1, Zenon
  <2>. QED  BY <1>1, <2>1, Zenon
<1>6. \A d \in Lists : d[1] = Mark("lbracket")
  <2>. TAKE d \in Lists
  <2>1. PICK f \in Fields("name1", "value1"), g \in Fields("name2", "value2") :
               d = Brackets(Braces(f) \o Also \o Braces(g))
    BY DEF Lists
  <2>2. Braces(f) \o Also \o Braces(g) \in Texts
    <3>1. Braces(f) \in Texts /\ Braces(g) \in Texts
      BY <1>2, <1>4
    <3>. QED  BY <1>3, <3>1, Zenon
  <2>. QED  BY <1>1, <2>1, <2>2, Zenon
<1>7. \A d \in Strings : d[1] = Q
  <2>. TAKE d \in Strings
  <2>1. PICK n \in StringLengths : d = Quoted(Word("value1", n))
    BY DEF Strings
  <2>. QED  BY <2>1, LabelsTyped, QuotedTyped
<1>8. Q # Mark("lbrace") /\ Q # Mark("lbracket") /\ Mark("lbrace") # Mark("lbracket")
  BY DEF Q, Mark
<1>. QED  BY <1>1, <1>5, <1>6, <1>7, <1>8, Zenon

\* Long strings: the first two guesses take the string for a name, and the comma
\* behind it is no colon.
LEMMA StringsRepaired ==
  ASSUME data \in Strings, Answered, tail # None
  PROVE  LongNamesRepaired
<1>1. PICK m \in StringLengths : data = Quoted(Word("value1", m))
  BY DEF Strings
<1>. DEFINE w == Word("value1", m)
<1>2. w \in Tokens /\ w.kind = "word" /\ data = Quoted(w)
  BY <1>1, LabelsTyped
<1>. HIDE DEF w
<1>3. Parted(data, Openers[3], NameOf(w), <<>>)
  <2>1. <<Q>> \in Texts /\ NameOf(w) \in Texts /\ Quoted(w) = <<Q>> \o NameOf(w)
    BY <1>2, NameTyped
  <2>2. NameOf(w) \o <<>> = NameOf(w) /\ <<>> \in Texts
    BY <2>1 DEF Texts
  <2>. QED  BY <1>2, <2>1, <2>2, OpenersTyped, Zenon DEF Parted
<1>4. PICK z \in Texts : DataSuffix = <<Mark("comma")>> \o z
  BY SuffixTyped, Zenon DEF Also
<1>5. Completes(3, data, w, <<>> \o DataSuffix) /\ <<>> \o DataSuffix \in Texts
  BY <1>3, Completing, Zenon
<1>6. ASSUME NEW j \in 1..3, j < 3, NEW x, Plain(x)
      PROVE  ~IsJson(Completed(Before(j), x, <<>> \o DataSuffix))
  <2>1. j \in 1..2
    BY <1>6
  <2>2. State("colon", Guessed(j)).expect = "colon"
    BY DEF State
  <2>3. "comma" \in Marks /\ "comma" # "quote" /\ "comma" # "colon"
    BY DEF Marks
  <2>4. Parse(State("colon", Guessed(j)), "comma").expect = "nothing"
    BY <2>2, <2>3, ParseFails
  <2>5. Takes(<<>>, State("colon", Guessed(j)), State("colon", Guessed(j)))
    BY TakesNothing
  <2>. QED  BY <1>4, <1>6, <2>1, <2>3, <2>4, <2>5, GuessFails, Zenon
<1>7. LostOfFirst = 11 - Place(3)
  <2>1. data \notin Objects /\ data \notin Lists
    BY DatasBegin
  <2>. QED  BY <2>1 DEF LostOfFirst, Place
<1>8. 3 \in 1..3
  OBVIOUS
<1>9. /\ data \in Datas /\ tail = DecryptPairingReply(Plaintext(data))
      /\ decoded = Decode(tail)
  BY DEF Answered
<1>. QED  BY <1>2, <1>5, <1>6, <1>7, <1>8, <1>9, LongNameRepaired, Zenon

\* A list of objects: the first guess takes the end of the first object for
\* the end of the data, and the next brace for the name of a field.
LEMMA ListsRepaired ==
  ASSUME data \in Lists, Answered, tail # None
  PROVE  LongNamesRepaired
<1>1. PICK f \in Fields("name1", "value1"), g \in Fields("name2", "value2") :
        data = Brackets(Braces(f) \o Also \o Braces(g))
  BY DEF Lists
<1>2. PICK w \in Names("name1"), v \in Scalars("value1") :
        f = Field(w, v) /\ w \in Tokens /\ w.kind = "word" /\ Valued(v)
  BY FieldsMade
<1>. DEFINE c == <<Mark("colon")>>
            l == <<Mark("lbrace")>>
            r == <<Mark("rbrace")>>
            h == <<Mark("lbracket")>>
            t == <<Mark("rbracket")>>
            G == Braces(g)
            a == ((c \o v) \o r) \o Also
<1>3. /\ c \in Texts /\ l \in Texts /\ r \in Texts /\ h \in Texts /\ t \in Texts
      /\ Also \in Texts
  BY MarksTyped DEF Marks, Also
<1>4. v \in Texts /\ g \in Texts /\ G \in Texts
  <2>1. v \in Texts
    BY <1>2, EnvelopeTaken DEF Valued, Takes
  <2>2. Listed(g)
    BY FieldsListed
  <2>3. Valued(G)
    BY <2>2, BracesValued
  <2>. QED  BY <2>1, <2>2, <2>3, EnvelopeTaken DEF Listed, Valued, Takes
<1>5. G = (l \o g) \o r
  BY DEF Braces
<1>6. Openers[2] = h \o Openers[1] /\ data = (h \o ((Braces(f) \o Also) \o G)) \o t
  <2>1. h \o Openers[1] = Openers[2]
    <3>. DEFINE q == <<Q>>
    <3>1. Openers[1] = l \o q /\ Openers[2] = (h \o l) \o q
      BY OpenersTyped
    <3>2. q \in Texts
      BY Facts, Single
    <3>. HIDE DEF h, l, q
    <3>3. (h \o l) \o q = h \o (l \o q)
      <4>1. h \in Texts /\ l \in Texts /\ q \in Texts
        BY <1>3, <3>2
      <4>2. Assoc(h, l, q)
        BY <4>1, Associated, Zenon
      <4>. QED  BY <4>2, Zenon DEF Assoc
    <3>. QED  BY <3>1, <3>3, Zenon
  <2>2. data = (h \o ((Braces(f) \o Also) \o G)) \o t
    BY <1>1 DEF Brackets
  <2>. QED  BY <2>1, <2>2
<1>. HIDE DEF c, l, r, h, t, G
<1>7. Parted(f, <<Q>>, NameOf(w), c \o v)
  <2>1. f = <<Q>> \o (NameOf(w) \o (c \o v))
    BY <1>2, <1>4, FieldBegins, Zenon DEF c
  <2>2. c \o v \in Texts
    BY <1>3, <1>4, Joined, Zenon
  <2>. QED  BY <1>2, <2>1, <2>2, NameTyped, Zenon DEF Parted
<1>8. Parted(data, Openers[2], NameOf(w), (a \o G) \o t)
  <2>0. c \o v \in Texts
    BY <1>3, <1>4, Joined, Zenon
  <2>1. Parted(Braces(f), Openers[1], NameOf(w), (c \o v) \o r)
    BY <1>2, <1>7, <2>0, BracesParted, Zenon DEF r
  <2>2. Parted(Braces(f) \o Also, Openers[1], NameOf(w), a)
    BY <1>3, <2>1, PartedMore, Zenon
  <2>. HIDE DEF a
  <2>3. Parted((Braces(f) \o Also) \o G, Openers[1], NameOf(w), a \o G)
    BY <1>4, <2>2, PartedMore, Zenon
  <2>4. Parted(h \o ((Braces(f) \o Also) \o G), h \o Openers[1], NameOf(w), a \o G)
    BY <1>3, <2>3, PartedMore, Zenon
  <2>5. Parted((h \o ((Braces(f) \o Also) \o G)) \o t, h \o Openers[1], NameOf(w), (a \o G) \o t)
    BY <1>3, <2>4, PartedMore, Zenon
  <2>. QED  BY <1>6, <2>5, Zenon
<1>9. Takes(a, State("colon", Guessed(1)), State("next", Open))
  <2>. DEFINE inner == Append(Open, "lbrace")
  <2>1. inner \in Stacks /\ Open \in Stacks /\ Guessed(1) = inner
    BY EnvelopeTaken, Stacked DEF Guessed
  <2>2. /\ Parse(State("colon", inner), "colon") = State("value", inner)
        /\ Parse(State("more", inner), "rbrace") = State("more", Open)
        /\ Parse(State("more", Open), "comma") = State("next", Open)
        /\ After(inner) = State("more", inner)
    <3>1. Last(Open) = "lbrace"
      BY DEF Open, Last
    <3>2. Parse(State("more", Open), "comma") = State("next", Open)
      BY <3>1, ParseCases
    <3>3. Parse(State("colon", inner), "colon") = State("value", inner)
      BY ParseCases
    <3>4. Parse(State("more", inner), "rbrace") = After(Open) /\ After(inner) = State("more", inner)
      BY <2>1, ParseInside
    <3>. QED  BY <3>2, <3>3, <3>4, EnvelopeTaken
  <2>. HIDE DEF inner
  <2>3. \A p, k : k \in {"rbrace", "colon", "comma"} => Takes(<<Mark(k)>>, p, Parse(p, k))
    <3>1. {"rbrace", "colon", "comma"} \subseteq Marks \ {"quote"}
      BY DEF Marks
    <3>. QED  BY <3>1, TakesPunctuation
  <2>4. /\ Takes(c, State("colon", inner), State("value", inner))
        /\ Takes(r, State("more", inner), State("more", Open))
        /\ Takes(Also, State("more", Open), State("next", Open))
    BY <2>2, <2>3 DEF c, r, Also
  <2>5. Takes(v, State("value", inner), State("more", inner))
    BY <1>2, <2>1, <2>2 DEF Valued
  <2>6. Takes(c \o v, State("colon", inner), State("more", inner))
    BY <2>4, <2>5, TakesJoined, Zenon
  <2>7. Takes((c \o v) \o r, State("colon", inner), State("more", Open))
    BY <2>4, <2>6, TakesJoined, Zenon
  <2>8. Takes(a, State("colon", inner), State("next", Open))
    BY <2>4, <2>7, TakesJoined, Zenon
  <2>. QED  BY <2>1, <2>8
<1>10. a \in Texts
  BY <1>9 DEF Takes
<1>. HIDE DEF a
<1>11. \E b \in Texts : ((a \o G) \o t) \o DataSuffix = a \o (l \o b)
  <2>1. Parted(G, <<>>, l, g \o r)
    <3>1. (l \o g) \o r = l \o (g \o r) /\ g \o r \in Texts
      <4>1. l \in Texts /\ g \in Texts /\ r \in Texts
        BY <1>3, <1>4
      <4>2. Assoc(l, g, r)
        BY <4>1, Associated, Zenon
      <4>. QED  BY <4>2, Zenon DEF Assoc
    <3>2. <<>> \in Texts /\ <<>> \o G = G
      BY <1>4 DEF Texts
    <3>. QED  BY <1>3, <1>5, <3>1, <3>2, Zenon DEF Parted
  <2>2. Parted(a \o G, a, l, g \o r)
    <3>1. Parted(a \o G, a \o <<>>, l, g \o r)
      BY <1>10, <2>1, PartedMore, Zenon
    <3>2. a \o <<>> = a
      BY <1>10 DEF Texts
    <3>. QED  BY <3>1, <3>2, Zenon
  <2>3. Parted((a \o G) \o t, a, l, (g \o r) \o t)
    BY <1>3, <2>2, PartedMore, Zenon
  <2>4. Parted(((a \o G) \o t) \o DataSuffix, a, l, ((g \o r) \o t) \o DataSuffix)
    BY <2>3, SuffixTyped, PartedMore, Zenon
  <2>. QED  BY <2>4, Zenon DEF Parted
<1>12. PICK b \in Texts : ((a \o G) \o t) \o DataSuffix = a \o (l \o b)
  BY <1>11
<1>. DEFINE rest == ((a \o G) \o t) \o DataSuffix
<1>13. Completes(2, data, w, rest) /\ rest \in Texts
  BY <1>8, Completing, Zenon
<1>14. ASSUME NEW j \in 1..3, j < 2, NEW x, Plain(x)
       PROVE  ~IsJson(Completed(Before(j), x, rest))
  <2>1. j = 1 /\ 1 \in 1..2
    BY <1>14
  <2>2. State("next", Open).expect = "next" /\ "lbrace" \in Marks /\ "lbrace" # "quote"
    BY DEF State, Marks
  <2>3. Parse(State("next", Open), "lbrace").expect = "nothing"
    BY <2>2, ParseFails
  <2>4. ~IsJson(Completed(Before(1), x, a \o (<<Mark("lbrace")>> \o b)))
    BY <1>9, <1>14, <2>1, <2>2, <2>3, GuessFails, Zenon
  <2>. QED  BY <1>12, <2>1, <2>4, Zenon DEF l
<1>. HIDE DEF rest
<1>15. LostOfFirst = 11 - Place(2)
  <2>1. data \notin Objects
    BY DatasBegin
  <2>. QED  BY <2>1 DEF LostOfFirst, Place
<1>16. 2 \in 1..3
  OBVIOUS
<1>17. /\ data \in Datas /\ tail = DecryptPairingReply(Plaintext(data))
       /\ decoded = Decode(tail)
  BY DEF Answered
<1>. QED  BY <1>2, <1>13, <1>14, <1>15, <1>16, <1>17, LongNameRepaired, Zenon
-----------------------------------------------------------------------------
(* The reply to auth: what stands behind a long first name is not lost.     *)

\* A string that a reply holds is one of its lexemes.
LEMMA StringShown ==
  ASSUME NEW d \in Datas, NEW w \in Tokens, w # Q, NEW a, NEW p,
         Takes(a, ParseStart, p), NEW b \in Texts,
         Plaintext(d) = a \o (Quoted(w) \o b)
  PROVE  HasField(Lexemes(Plaintext(d)), w)
<1>. DEFINE s == Scanned(ScanStart, a)
            r == Scanned(s, Quoted(w))
            e == Scanned(r, b)
            l == Lexeme("string", <<w>>)
<1>1. a \in Texts /\ Quoted(w) \in Texts
  BY QuotedTyped DEF Takes, Long
<1>2. s \in ScanStates /\ s.at = "text"
  BY StartTyped, Zenon DEF Takes, At
<1>3. r \in ScanStates /\ r.out = Append(s.out, l)
  BY <1>2, QuotedScanned
<1>4. Scanned(ScanStart, a \o (Quoted(w) \o b)) = e
  <2>1. Quoted(w) \o b \in Texts
    BY <1>1, Joined
  <2>2. Scanned(ScanStart, a \o (Quoted(w) \o b)) = Scanned(s, Quoted(w) \o b)
    BY <1>1, <2>1, ScannedJoined, Zenon
  <2>3. Scanned(s, Quoted(w) \o b) = e
    BY <1>1, ScannedJoined, Zenon
  <2>. QED  BY <2>2, <2>3
<1>5. l \in Lexs
  BY Single DEF Lexs, Lexeme
<1>. HIDE DEF r, l, s
<1>6. \E i \in 1..Len(r.out) : r.out[i] = l
  <2>1. s.out \in Seq(Lexs)
    BY <1>2 DEF ScanStates
  <2>2. Len(s.out) + 1 \in 1..Len(r.out) /\ r.out[Len(s.out) + 1] = l
    BY <1>3, <1>5, <2>1
  <2>. QED  BY <2>2
<1>7. \E i \in DOMAIN e.out : e.out[i] = l
  <2>1. /\ Len(r.out) <= Len(e.out)
        /\ \A i \in 1..Len(r.out) : e.out[i] = r.out[i]
    BY <1>3, ReadStays
  <2>2. r.out \in Seq(Lexs) /\ e.out \in Seq(Lexs)
    BY <1>3, ScannedTyped DEF ScanStates
  <2>. HIDE DEF e
  <2>. QED  BY <1>6, <2>1, <2>2
<1>8. Lexemes(Plaintext(d)) = e.out
  <2>1. Scanned(ScanStart, Plaintext(d)) = e
    BY <1>4, Zenon
  <2>2. e.at = "text"
    BY <2>1, PlaintextIsJson DEF At
  <2>. HIDE DEF e
  <2>3. (IF e.at = "string" THEN Append(e.out, Lexeme("open", <<>>)) ELSE e.out) = e.out
    BY <2>2
  <2>. QED  BY <2>1, <2>3, Zenon DEF Lexemes
<1>. QED  BY <1>7, <1>8, Zenon DEF HasField, l

Key == Word("key", 3)

\* The key field of a reply to auth, in parts.
LEMMA KeyTyped ==
  /\ Key \in Tokens /\ Key # Q /\ Key.id = "key"
  /\ SessionKey \in Tokens /\ SessionKey # Q /\ SessionKey.id = "sessionKey"
  /\ KeyField \in Texts
  /\ KeyField = (Quoted(Key) \o <<Mark("colon")>>) \o Quoted(SessionKey)
<1>1. "key" \in Labels /\ "sessionKey" \in Labels /\ 3 \in Nat \ {0} /\ 12 \in Nat \ {0}
  BY DEF Labels
<1>2. KeyField \in Texts
  BY KnownFields, EnvelopeTaken DEF Listed, Takes
<1>3. KeyField = (Quoted(Key) \o <<Mark("colon")>>) \o Quoted(SessionKey)
  BY DEF KeyField, Field, Key
<1>. QED  BY <1>1, <1>2, <1>3, TokensTyped, Facts DEF Key, SessionKey

\* A reply that holds the key field shows the key and its name.
LEMMA KeyShown ==
  ASSUME NEW d \in Datas, NEW a, NEW p, Takes(a, ParseStart, p), NEW b \in Texts,
         Plaintext(d) = a \o (KeyField \o b)
  PROVE  /\ HasField(Lexemes(Plaintext(d)), Key)
         /\ HasField(Lexemes(Plaintext(d)), SessionKey)
<1>. DEFINE k == Quoted(Key)
            c == <<Mark("colon")>>
            v == Quoted(SessionKey)
<1>1. a \in Texts /\ k \in Texts /\ c \in Texts /\ v \in Texts
  BY KeyTyped, QuotedTyped, MarksTyped DEF Marks, Takes, Long
<1>2. /\ Takes(k, p, Parse(p, "string"))
      /\ Takes(c, Parse(p, "string"), Parse(Parse(p, "string"), "colon"))
  <2>1. "colon" \in Marks /\ "colon" # "quote"
    BY DEF Marks
  <2>. QED  BY <2>1, KeyTyped, TakesString, TakesPunctuation
<1>3. KeyField = (k \o c) \o v
  BY KeyTyped
<1>. HIDE DEF k, c, v
<1>4. k \o c \in Texts /\ v \o b \in Texts
  BY <1>1, Joined
<1>5. c \o (v \o b) \in Texts
  BY <1>1, <1>4, Joined
<1>6. KeyField \o b = (k \o c) \o (v \o b)
  <2>1. k \o c \in Texts /\ v \in Texts /\ b \in Texts
    BY <1>1, <1>4
  <2>2. ((k \o c) \o v) \o b = (k \o c) \o (v \o b)
    <3>1. Assoc(k \o c, v, b)
      BY <2>1, Associated, Zenon
    <3>. QED  BY <3>1, Zenon DEF Assoc
  <2>. QED  BY <1>3, <2>2, Zenon
<1>7. (k \o c) \o (v \o b) = k \o (c \o (v \o b))
  <2>1. k \in Texts /\ c \in Texts /\ v \o b \in Texts
    BY <1>1, <1>4
  <2>2. Assoc(k, c, v \o b)
    BY <2>1, Associated, Zenon
  <2>. QED  BY <2>2, Zenon DEF Assoc
<1>8. HasField(Lexemes(Plaintext(d)), Key)
  <2>1. Plaintext(d) = a \o (Quoted(Key) \o (c \o (v \o b)))
    BY <1>6, <1>7, Zenon DEF k
  <2>. QED  BY <1>5, <2>1, KeyTyped, StringShown, Zenon
<1>9. HasField(Lexemes(Plaintext(d)), SessionKey)
  <2>1. Takes(k \o c, p, Parse(Parse(p, "string"), "colon"))
    BY <1>2, TakesJoined, Zenon
  <2>2. Takes(a \o (k \o c), ParseStart, Parse(Parse(p, "string"), "colon"))
    BY <2>1, TakesJoined, Zenon
  <2>3. (a \o (k \o c)) \o (v \o b) = a \o ((k \o c) \o (v \o b))
    <3>1. a \in Texts /\ k \o c \in Texts /\ v \o b \in Texts
      BY <1>1, <1>4
    <3>2. Assoc(a, k \o c, v \o b)
      BY <3>1, Associated, Zenon
    <3>. QED  BY <3>2, Zenon DEF Assoc
  <2>4. Plaintext(d) = (a \o (k \o c)) \o (Quoted(SessionKey) \o b)
    BY <1>6, <2>3, Zenon DEF v
  <2>. QED  BY <2>2, <2>4, KeyTyped, StringShown, Zenon
<1>. QED  BY <1>8, <1>9

\* An object with a long first name, other than the key's, keeps its key.
LEMMA KeyKept ==
  ASSUME NEW f, Braces(f) \in Datas, NEW g, Listed(g), NEW y,
         Parted(f, g \o Also, KeyField, y),
         NEW w \in Tokens, w.kind = "word", Begins(f, w), 6 <= w.width,
         w # Key, w # SessionKey
  PROVE  LET a == Decode(DecryptPairingReply(Plaintext(Braces(f))))
         IN HasField(a, Key) /\ HasField(a, SessionKey)
<1>. DEFINE d == Braces(f)
            b == Lexemes(Plaintext(d))
            a == Decode(DecryptPairingReply(Plaintext(d)))
            l == <<Mark("lbrace")>>
            r == <<Mark("rbrace")>>
            inner == Append(Open, "lbrace")
<1>1. l \in Texts /\ r \in Texts /\ d = (l \o f) \o r
  <2>1. d = (l \o f) \o r
    BY DEF Braces
  <2>. QED  BY <2>1, MarksTyped DEF Marks
<1>. HIDE DEF d
<1>2. \E z \in Texts : Plaintext(d) = (DataPrefix \o (l \o (g \o Also))) \o (KeyField \o z)
  <2>. HIDE DEF l, r
  <2>1. Parted((l \o f) \o r, l \o (g \o Also), KeyField, y \o r)
    <3>1. Parted(l \o f, l \o (g \o Also), KeyField, y)
      BY <1>1, PartedMore, Zenon
    <3>. QED  BY <1>1, <3>1, PartedMore, Zenon
  <2>2. Parted(DataPrefix \o d, DataPrefix \o (l \o (g \o Also)), KeyField, y \o r)
    BY <1>1, <2>1, SuffixTyped, PartedMore, Zenon
  <2>3. Parted((DataPrefix \o d) \o DataSuffix, DataPrefix \o (l \o (g \o Also)),
               KeyField, (y \o r) \o DataSuffix)
    BY <2>2, SuffixTyped, PartedMore, Zenon
  <2>. QED  BY <2>3, Zenon DEF Parted, Plaintext
<1>3. Takes(DataPrefix \o (l \o (g \o Also)), ParseStart, State("next", inner))
  <2>1. /\ Parse(State("value", Open), "lbrace") = State("name", inner)
        /\ Parse(State("more", inner), "comma") = State("next", inner)
    BY EnvelopeTaken, ParseCases, ParseInside
  <2>2. \A p, k : k \in {"lbrace", "comma"} => Takes(<<Mark(k)>>, p, Parse(p, k))
    <3>1. {"lbrace", "comma"} \subseteq Marks \ {"quote"}
      BY DEF Marks
    <3>. QED  BY <3>1, TakesPunctuation
  <2>3. Takes(g, State("name", inner), State("more", inner))
    BY EnvelopeTaken DEF Listed
  <2>. HIDE DEF inner
  <2>4. /\ Takes(l, State("value", Open), State("name", inner))
        /\ Takes(Also, State("more", inner), State("next", inner))
    BY <2>1, <2>2 DEF Also
  <2>. HIDE DEF l
  <2>5. Takes(g \o Also, State("name", inner), State("next", inner))
    BY <2>3, <2>4, TakesJoined, Zenon
  <2>6. Takes(l \o (g \o Also), State("value", Open), State("next", inner))
    BY <2>4, <2>5, TakesJoined, Zenon
  <2>. QED  BY <2>6, EnvelopeTaken, TakesJoined, Zenon
<1>. HIDE DEF l, r, inner
<1>4. HasField(b, Key) /\ HasField(b, SessionKey)
  <2>1. d \in Datas
    BY DEF d
  <2>2. PICK z \in Texts : Plaintext(d) = (DataPrefix \o (l \o (g \o Also))) \o (KeyField \o z)
    BY <1>2
  <2>. QED  BY <1>3, <2>1, <2>2, KeyShown, Zenon
<1>5. SameBut(b, a, 5) /\ b[5] = Lexeme("string", <<w>>)
  <2>1. PICK rest \in Texts : Completes(1, Braces(f), w, rest)
    BY ObjectCompleted
  <2>2. Plaintext(d) = Before(1) \o ((<<w>> \o <<Q>>) \o rest)
    BY <2>1, Zenon DEF Completes, NameOf, d
  <2>3. Lost <= Place(1) + 5 + w.width /\ Place(1) = 5
    BY DEF Lost, Place, Tokens
  <2>4. \A j \in 1..3 : j < 1 => FALSE
    OBVIOUS
  <2>5. 1 \in 1..3 /\ d \in Datas
    BY DEF d
  <2>6. /\ SameBut(Lexemes(Plaintext(d)), Decode(DecryptPairingReply(Plaintext(d))), Place(1))
        /\ Lexemes(Plaintext(d))[Place(1)] = Lexeme("string", <<w>>)
    BY <2>2, <2>3, <2>4, <2>5, Repaired, Zenon
  <2>. QED  BY <2>3, <2>6, Zenon DEF d
<1>. HIDE DEF a, b
<1>6. ASSUME NEW x, HasField(b, x), x # w PROVE HasField(a, x)
  <2>1. PICK i \in DOMAIN b : b[i] = Lexeme("string", <<x>>)
    BY <1>6 DEF HasField
  <2>2. Lexeme("string", <<x>>) # Lexeme("string", <<w>>)
    BY <1>6 DEF Lexeme
  <2>3. i # 5
    BY <1>5, <2>1, <2>2
  <2>4. i \in DOMAIN a /\ a[i] = b[i]
    BY <1>5, <2>1, <2>3 DEF SameBut
  <2>. QED  BY <2>1, <2>4 DEF HasField
<1>7. HasField(a, Key) /\ HasField(a, SessionKey)
  BY <1>4, <1>6
<1>. QED  BY <1>7 DEF a, d

Expiry == Word("expiresIn", 9)
Doors == Word("devicePermissions", 17)

\* The other fields of a reply to auth begin with their names.
LEMMA KnownBegin ==
  /\ ExpiryField \in Texts /\ Permissions \in Texts
  /\ KeyField \in Texts /\ Also \in Texts
  /\ Expiry \in Tokens /\ Expiry.kind = "word" /\ Expiry.width = 9
  /\ Expiry.id = "expiresIn"
  /\ Doors \in Tokens /\ Doors.kind = "word" /\ Doors.width = 17
  /\ Doors.id = "devicePermissions"
  /\ Begins(ExpiryField, Expiry) /\ Begins(Permissions, Doors)
<1>1. /\ ExpiryField \in Texts /\ Permissions \in Texts /\ KeyField \in Texts
      /\ Also \in Texts
  BY KnownFields, EnvelopeTaken, MarksTyped DEF Listed, Takes, Also, Marks
<1>2. /\ Expiry \in Tokens /\ Expiry.kind = "word" /\ Expiry.width = 9 /\ Expiry.id = "expiresIn"
      /\ Doors \in Tokens /\ Doors.kind = "word" /\ Doors.width = 17
      /\ Doors.id = "devicePermissions"
  <2>1. /\ "expiresIn" \in Labels /\ "devicePermissions" \in Labels
        /\ 9 \in Nat \ {0} /\ 17 \in Nat \ {0}
    BY DEF Labels
  <2>. QED  BY <2>1, TokensTyped DEF Expiry, Doors
<1>3. Begins(ExpiryField, Expiry) /\ Begins(Permissions, Doors)
  <2>1. ASSUME NEW w \in Tokens, NEW v, Valued(v) PROVE Begins(Field(w, v), w)
    <3>1. v \in Texts
      BY <2>1, EnvelopeTaken DEF Valued, Takes
    <3>. QED  BY <3>1, FieldBegins
  <2>2. Valued(<<Number("expiry", 3)>>)
    <3>1. "expiry" \in Labels /\ 3 \in Nat \ {0}
      BY DEF Labels
    <3>. QED  BY <3>1, TokensTyped, Facts, ScalarsValued
  <2>3. Valued(Braces(Field(Word("door1", 8), Braces(<<>>)) \o Also \o
                      Field(Word("door2", 8), Braces(<<>>))))
    <3>1. /\ Word("door1", 8) \in Tokens /\ Word("door1", 8) # Q
          /\ Word("door2", 8) \in Tokens /\ Word("door2", 8) # Q
      <4>1. "door1" \in Labels /\ "door2" \in Labels /\ 8 \in Nat \ {0}
        BY DEF Labels
      <4>. QED  BY <4>1, TokensTyped, Facts
    <3>2. Valued(Braces(<<>>))
      BY BracesValued
    <3>3. Listed(Field(Word("door1", 8), Braces(<<>>)))
          /\ Listed(Field(Word("door2", 8), Braces(<<>>)))
      BY <3>1, <3>2, FieldListed, Zenon
    <3>. QED  BY <3>3, MoreListed, BracesValued, Zenon
  <2>. QED  BY <1>2, <2>1, <2>2, <2>3, Zenon DEF ExpiryField, Permissions, Expiry, Doors
<1>. QED  BY <1>1, <1>2, <1>3

\* The session key is recovered in all orders of fields that do not begin with it.
LEMMA KeyRecovered ==
  ASSUME data \in {ExpiryFirst, DoorsFirst, DoorsLater}, Answered, tail # None
  PROVE  SessionKeyRecovered
<1>. DEFINE expiry == Expiry
            doors == Doors
            E == ExpiryField
            P == Permissions
            K == KeyField
<1>1. /\ E \in Texts /\ P \in Texts /\ K \in Texts /\ Also \in Texts
      /\ Listed(E) /\ Listed(P)
  BY KnownBegin, KnownFields
<1>2. /\ expiry \in Tokens /\ expiry.kind = "word" /\ expiry.width = 9 /\ expiry.id = "expiresIn"
      /\ doors \in Tokens /\ doors.kind = "word" /\ doors.width = 17
      /\ doors.id = "devicePermissions"
  BY KnownBegin
<1>3. Begins(E, expiry) /\ Begins(P, doors)
  BY KnownBegin, Zenon
<1>4. /\ expiry # Key /\ expiry # SessionKey /\ doors # Key /\ doors # SessionKey
  BY <1>2, KeyTyped
<1>. HIDE DEF expiry, doors, E, P, K
<1>5. ASSUME NEW g \in Texts, NEW w \in Tokens, Begins(g, w)
      PROVE  /\ Begins((g \o Also) \o K, w) /\ (g \o Also) \o K \in Texts
             /\ Parted((g \o Also) \o K, g \o Also, K, <<>>)
  <2>1. Begins(g \o Also, w) /\ g \o Also \in Texts
    BY <1>1, <1>5, BeginsMore, Zenon
  <2>2. Begins((g \o Also) \o K, w) /\ (g \o Also) \o K \in Texts
    BY <1>1, <2>1, BeginsMore, Zenon
  <2>3. K \o <<>> = K /\ <<>> \in Texts
    BY <1>1 DEF Texts
  <2>. QED  BY <1>1, <2>1, <2>2, <2>3, Zenon DEF Parted
<1>6. SUFFICES HasField(decoded, Key) /\ HasField(decoded, SessionKey)
  BY Zenon DEF SessionKeyRecovered, HasField, Key
<1>7. /\ data \in Datas /\ decoded = Decode(DecryptPairingReply(Plaintext(data)))
  BY DEF Answered
<1>8. CASE data = ExpiryFirst
  <2>. DEFINE f == (E \o Also) \o K
  <2>1. Begins(f, expiry) /\ Parted(f, E \o Also, KeyField, <<>>)
    BY <1>1, <1>2, <1>3, <1>5, Zenon DEF K
  <2>2. data = Braces(f)
    BY <1>8, Zenon DEF ExpiryFirst, E, K
  <2>. HIDE DEF f
  <2>3. 6 <= expiry.width /\ Braces(f) \in Datas
    BY <1>2, <1>7, <2>2
  <2>. QED  BY <1>1, <1>2, <1>4, <1>7, <2>1, <2>2, <2>3, KeyKept, Zenon
<1>9. CASE data = DoorsFirst
  <2>. DEFINE g == (P \o Also) \o E
              f == (g \o Also) \o K
  <2>1. Listed(g) /\ g \in Texts /\ Begins(g, doors)
    <3>1. Listed(g)
      BY <1>1, MoreListed, Zenon
    <3>2. Begins(P \o Also, doors)
      BY <1>1, <1>2, <1>3, BeginsMore, Zenon
    <3>3. Begins(g, doors) /\ g \in Texts
      BY <1>1, <1>2, <3>2, BeginsMore, Zenon
    <3>. QED  BY <3>1, <3>3
  <2>2. data = Braces(f)
    BY <1>9, Zenon DEF DoorsFirst, E, P, K
  <2>. HIDE DEF g
  <2>3. Begins(f, doors) /\ Parted(f, g \o Also, KeyField, <<>>)
    BY <1>2, <1>5, <2>1, Zenon DEF K
  <2>. HIDE DEF f
  <2>4. 6 <= doors.width /\ Braces(f) \in Datas
    BY <1>2, <1>7, <2>2
  <2>. QED  BY <1>2, <1>4, <1>7, <2>1, <2>2, <2>3, <2>4, KeyKept, Zenon
<1>10. CASE data = DoorsLater
  <2>. DEFINE h == (E \o Also) \o K
              f == (h \o Also) \o P
  <2>1. /\ Begins(h, expiry) /\ h \in Texts /\ Parted(h, E \o Also, KeyField, <<>>)
    BY <1>1, <1>2, <1>3, <1>5, Zenon DEF K
  <2>2. data = Braces(f)
    BY <1>10, Zenon DEF DoorsLater, E, P, K
  <2>. HIDE DEF h
  <2>3. /\ Begins(f, expiry)
        /\ Parted(f, E \o Also, KeyField, (<<>> \o Also) \o P)
    <3>1. Begins(h \o Also, expiry) /\ Parted(h \o Also, E \o Also, KeyField, <<>> \o Also)
      BY <1>1, <1>2, <2>1, BeginsMore, PartedMore, Zenon
    <3>. QED  BY <1>1, <1>2, <3>1, BeginsMore, PartedMore, Zenon
  <2>. HIDE DEF f
  <2>4. 6 <= expiry.width /\ Braces(f) \in Datas
    BY <1>2, <1>7, <2>2
  <2>. QED  BY <1>1, <1>2, <1>4, <1>7, <2>2, <2>3, <2>4, KeyKept, Zenon
<1>. QED  BY <1>8, <1>9, <1>10
-----------------------------------------------------------------------------
(* What is left of a reply is not JSON by itself.                           *)

\* A text without brackets that open.
Flat(text) ==
  text \in Texts /\ \A i \in 1..Len(text) : text[i].kind \notin {"lbrace", "lbracket"}

\* Texts without opening brackets have none joined.
LEMMA FlatJoined ==
  ASSUME NEW a, NEW b, Flat(a), Flat(b)
  PROVE  Flat(a \o b)
<1>. DEFINE ab == a \o b
<1>1. /\ ab \in Texts /\ Len(ab) = Len(a) + Len(b) /\ Len(a) \in Nat /\ Len(b) \in Nat
      /\ \A i \in 1..Len(a) : ab[i] = a[i]
      /\ \A i \in 1..Len(b) : ab[Len(a) + i] = b[i]
  BY Joined DEF Flat
<1>. HIDE DEF ab
<1>2. ASSUME NEW i \in 1..Len(ab) PROVE ab[i].kind \notin {"lbrace", "lbracket"}
  <2>1. CASE i <= Len(a)
    BY <1>1, <2>1 DEF Flat
  <2>2. CASE ~(i <= Len(a))
    <3>1. i - Len(a) \in 1..Len(b) /\ Len(a) + (i - Len(a)) = i
      BY <1>1, <2>2
    <3>2. ab[i] = b[i - Len(a)]
      BY <1>1, <3>1
    <3>. QED  BY <3>1, <3>2 DEF Flat
  <2>. QED  BY <2>1, <2>2
<1>. QED  BY <1>1, <1>2 DEF Flat, ab

\* A token that is no opening bracket, also in quotes, is a text without one.
LEMMA FlatTokens ==
  ASSUME NEW t \in Tokens, t.kind \notin {"lbrace", "lbracket"}
  PROVE  Flat(<<t>>) /\ Flat(Quoted(t))
<1>1. Flat(<<t>>)
  BY Single DEF Flat, Long
<1>. DEFINE q == Quoted(t)
<1>2. Long(q, 3) /\ q[1] = Q /\ q[2] = t /\ q[3] = Q /\ Len(q) \in Nat
  BY QuotedTyped, Textual DEF Long
<1>. HIDE DEF q
<1>3. \A i \in 1..Len(q) : i = 1 \/ i = 2 \/ i = 3
  BY <1>2 DEF Long
<1>4. Flat(q)
  BY <1>2, <1>3, Facts DEF Flat, Long
<1>. QED  BY <1>1, <1>4 DEF q

\* A field has opening brackets only in its value.
LEMMA FlatField ==
  ASSUME NEW w \in Tokens, w.kind = "word", NEW v, Flat(v)
  PROVE  Flat(Field(w, v))
<1>. DEFINE q == Quoted(w)
            c == <<Mark("colon")>>
<1>1. Flat(q) /\ Flat(c)
  <2>1. "colon" \in Marks
    BY DEF Marks
  <2>. QED  BY <2>1, TokensTyped, FlatTokens
<1>2. Field(w, v) = (q \o c) \o v
  BY DEF Field
<1>. HIDE DEF q, c
<1>3. Flat((q \o c) \o v)
  BY <1>1, FlatJoined, Zenon
<1>. QED  BY <1>2, <1>3

\* The first lexeme shows what the first token was.
LEMMA FirstLexeme ==
  ASSUME NEW text \in Texts, 1 <= Len(text), NEW out,
         out = Scanned(ScanStart, text).out, 1 <= Len(out)
  PROVE  out[1].kind \in {"string", text[1].kind}
<1>. DEFINE t == text[1]
            I == {r \in ScanStates :
                    /\ r.out = <<>> => r.at = "string"
                    /\ r.out # <<>> => r.out[1].kind \in {"string", t.kind}}
            S == {n \in Nat : n + 1 <= Len(text) => Scans(ScanStart, text)[n + 1] \in I}
<1>1. t \in Tokens /\ Len(text) \in Nat /\ \A i \in 1..Len(text) : text[i] \in Tokens
  BY Textual
<1>. DEFINE s == Scan(ScanStart, t)
<1>2. s \in I
  <2>1. /\ ScanStart \in ScanStates /\ ScanStart.at = "text" /\ ScanStart.out = <<>>
    BY StartTyped DEF ScanStart
  <2>2. s \in ScanStates
    BY <1>1, <2>1, ScanSteps
  <2>3. CASE t = Q
    BY <1>1, <2>1, <2>2, <2>3, ScanSteps
  <2>4. CASE t # Q
    <3>1. s.out = Append(<<>>, Lexeme(t.kind, <<t>>))
      BY <1>1, <2>1, <2>4, ScanSteps
    <3>2. \A x : Append(<<>>, x) # <<>> /\ Append(<<>>, x)[1] = x
      OBVIOUS
    <3>3. s.out # <<>> /\ s.out[1] = Lexeme(t.kind, <<t>>)
      BY <3>1, <3>2, Zenon
    <3>4. s.out[1].kind = t.kind
      BY <3>3 DEF Lexeme
    <3>. HIDE DEF s, t
    <3>. QED  BY <2>2, <3>3, <3>4
  <2>. QED  BY <2>3, <2>4
<1>. HIDE DEF s
<1>3. ASSUME NEW r \in I, NEW u \in Tokens PROVE Scan(r, u) \in I
  <2>1. r \in ScanStates /\ r.out \in Seq(Lexs) /\ r.at \in {"text", "string"}
    BY DEF ScanStates
  <2>2. Scan(r, u) \in ScanStates
    BY <2>1, ScanSteps
  <2>3. CASE r.out = <<>>
    <3>1. r.at = "string"
      BY <2>3
    <3>2. CASE u = Q
      <4>1. Scan(r, u).out = Append(<<>>, Lexeme("string", r.read))
        BY <2>1, <2>3, <3>1, <3>2, ScanSteps
      <4>2. \A x : Append(<<>>, x) # <<>> /\ Append(<<>>, x)[1] = x
        OBVIOUS
      <4>3. Scan(r, u).out # <<>> /\ Scan(r, u).out[1] = Lexeme("string", r.read)
        BY <4>1, <4>2, Zenon
      <4>4. Scan(r, u).out[1].kind = "string"
        BY <4>3 DEF Lexeme
      <4>. QED  BY <2>2, <4>3, <4>4
    <3>3. CASE u # Q
      BY <2>1, <2>2, <2>3, <3>1, <3>3, ScanSteps
    <3>. QED  BY <3>2, <3>3
  <2>4. CASE r.out # <<>>
    <3>1. \/ Scan(r, u).out = r.out
          \/ \E x : Scan(r, u).out = Append(r.out, x)
      BY <2>1, ScanSteps
    <3>2. \A x : Append(r.out, x) # <<>> /\ Append(r.out, x)[1] = r.out[1]
      BY <2>1, <2>4
    <3>3. Scan(r, u).out # <<>> /\ Scan(r, u).out[1] = r.out[1]
      BY <2>4, <3>1, <3>2
    <3>. QED  BY <2>2, <2>4, <3>3
  <2>. QED  BY <2>3, <2>4
<1>. HIDE DEF I
<1>4. /\ Scans(ScanStart, text)[0] = ScanStart
      /\ \A i \in 1..Len(text) :
           Scans(ScanStart, text)[i] = Scan(Scans(ScanStart, text)[i - 1], text[i])
  BY <1>1, ScansRecursion
<1>5. 0 \in S
  <2>1. 1 \in 1..Len(text) /\ 1 - 1 = 0
    BY <1>1
  <2>2. Scans(ScanStart, text)[1] = s
    BY <1>4, <2>1 DEF s
  <2>. QED  BY <1>2, <2>2
<1>6. ASSUME NEW n \in Nat, n \in S PROVE n + 1 \in S
  <2>1. SUFFICES ASSUME (n + 1) + 1 <= Len(text)
                 PROVE  Scans(ScanStart, text)[(n + 1) + 1] \in I
    OBVIOUS
  <2>2. /\ (n + 1) + 1 \in 1..Len(text) /\ ((n + 1) + 1) - 1 = n + 1
        /\ Scans(ScanStart, text)[n + 1] \in I
    BY <1>1, <1>6, <2>1
  <2>3. Scans(ScanStart, text)[(n + 1) + 1]
          = Scan(Scans(ScanStart, text)[n + 1], text[(n + 1) + 1])
    BY <1>4, <2>2
  <2>. QED  BY <1>1, <1>3, <2>2, <2>3
<1>7. Nat \subseteq S
  <2>. HIDE DEF S
  <2>. QED  BY <1>5, <1>6, Counting
<1>8. Scanned(ScanStart, text) \in I
  <2>. DEFINE n == Len(text) - 1
  <2>0. n \in Nat /\ n + 1 = Len(text)
    BY <1>1
  <2>. HIDE DEF n
  <2>1. Scans(ScanStart, text)[n + 1] \in I
    BY <1>7, <2>0
  <2>. QED  BY <2>0, <2>1 DEF Scanned
<1>9. out # <<>>
  OBVIOUS
<1>. QED  BY <1>8, <1>9 DEF I

\* The field of the error code begins with its name and a colon.
LEMMA EndingColon ==
  \E z \in Texts : Ending = Quoted(ErrorCode) \o (<<Mark("colon")>> \o z)
<1>. DEFINE f == ErrorCodeField
            g == Field(Word("state", 5), <<Number("0", 1)>>)
            r == <<Mark("rbrace")>>
            c == <<Mark("colon")>>
            n == <<Number("0", 1)>>
            q == <<Q>>
            e == NameOf(ErrorCode)
<1>1. /\ n \in Texts /\ g \in Texts /\ r \in Texts /\ c \in Texts /\ Also \in Texts
      /\ q \in Texts /\ e \in Texts /\ Quoted(ErrorCode) = q \o e
  <2>1. Listed(g)
    BY KnownFields
  <2>2. g \in Texts
    BY <2>1, EnvelopeTaken DEF Listed, Takes
  <2>3. n \in Texts
    <3>1. "0" \in Labels /\ 1 \in Nat \ {0}
      BY DEF Labels
    <3>. QED  BY <3>1, TokensTyped, Single
  <2>. QED  BY <2>2, <2>3, EndingTyped, NameTyped, MarksTyped DEF Marks, Also
<1>2. f = q \o (e \o (c \o n))
  BY <1>1, EndingTyped, FieldBegins DEF ErrorCodeField
<1>3. Ending = ((f \o Also) \o g) \o r
  BY Zenon DEF Ending, ErrorCodeField, ErrorCode
<1>. HIDE DEF f, g, r, c, n, q, e
<1>4. c \o n \in Texts /\ q \o e \in Texts
  BY <1>1, Joined, Zenon
<1>5. q \o (e \o (c \o n)) = (q \o e) \o (c \o n)
  <2>1. q \in Texts /\ e \in Texts /\ c \o n \in Texts
    BY <1>1, <1>4
  <2>2. Assoc(q, e, c \o n)
    BY <2>1, Associated, Zenon
  <2>. QED  BY <2>2, Zenon DEF Assoc
<1>6. Parted(f, q \o e, c, n)
  BY <1>1, <1>2, <1>4, <1>5, Zenon DEF Parted
<1>7. Parted((f \o Also) \o g, q \o e, c, (n \o Also) \o g)
  <2>1. Parted(f \o Also, q \o e, c, n \o Also)
    BY <1>1, <1>6, PartedMore, Zenon
  <2>. QED  BY <1>1, <2>1, PartedMore, Zenon
<1>8. Parted(((f \o Also) \o g) \o r, q \o e, c, ((n \o Also) \o g) \o r)
  BY <1>1, <1>7, PartedMore, Zenon
<1>. QED  BY <1>1, <1>3, <1>8, Zenon DEF Parted, c

\* A text that ends as a reply does but does not begin with an opening bracket.
LEMMA NotJson ==
  ASSUME NEW y \in Texts, NEW x, x = y \o Ending,
         x[1].kind \notin {"lbrace", "lbracket"}
  PROVE  ~IsJson(Lexemes(x))
<1>. DEFINE s == Scanned(ScanStart, y)
            e == Scanned(ScanStart, x)
            all == Lexemes(x)
<1>1. SUFFICES ASSUME IsJson(all) PROVE FALSE
  OBVIOUS
<1>2. /\ x \in Texts /\ 1 <= Len(x)
  BY EndingTyped, Joined
<1>3. s \in ScanStates /\ e = Scanned(s, Ending)
  <2>1. Ending \in Texts /\ ScanStart \in ScanStates
    BY StartTyped, EndingTyped
  <2>2. s \in ScanStates
    BY <2>1, ScannedTyped
  <2>3. Scanned(ScanStart, y \o Ending) = Scanned(Scanned(ScanStart, y), Ending)
    BY <2>1, ScannedJoined
  <2>. QED  BY <2>2, <2>3
<1>4. e \in ScanStates /\ e.at = s.at /\ e.out \in Seq(Lexs) /\ s.out \in Seq(Lexs)
  <2>1. Ending \in Texts /\ Even(Ending)
    BY EndingTyped
  <2>. HIDE DEF s
  <2>2. Scanned(s, Ending) \in ScanStates
    BY <1>3, <2>1, ScannedTyped
  <2>3. Scanned(s, Ending).at = s.at
    BY <1>3, <2>1 DEF Even
  <2>4. \A r \in ScanStates : r.out \in Seq(Lexs)
    BY DEF ScanStates
  <2>. QED  BY <1>3, <2>2, <2>3, <2>4
<1>5. all = IF e.at = "string" THEN Append(e.out, Lexeme("open", <<>>)) ELSE e.out
  BY Zenon DEF Lexemes
<1>. HIDE DEF e, all, s
<1>6. ASSUME e.at = "string" PROVE FALSE
  <2>1. Lexeme("open", <<>>) \in Lexs /\ Lexeme("open", <<>>).kind = "open"
    BY DEF Lexs, Lexeme, Texts
  <2>2. Parsed(all) = Parse(Parsed(e.out), "open")
    BY <1>4, <1>5, <1>6, <2>1, ParsedMore
  <2>3. Parse(Parsed(e.out), "open").expect = "nothing"
    BY ParseFails
  <2>. QED  BY <1>1, <2>2, <2>3 DEF IsJson
<1>7. s.at = "text" /\ all = e.out
  BY <1>3, <1>4, <1>5, <1>6 DEF ScanStates
<1>8. 2 <= Len(e.out)
  <2>1. PICK z \in Texts : Ending = Quoted(ErrorCode) \o (<<Mark("colon")>> \o z)
    BY EndingColon
  <2>. DEFINE r1 == Scanned(s, Quoted(ErrorCode))
              r2 == Scanned(r1, <<Mark("colon")>>)
  <2>2. /\ r1 \in ScanStates /\ r1.at = "text"
        /\ \E l : r1.out = Append(s.out, l)
    BY <1>3, <1>7, EndingTyped, QuotedScanned
  <2>. HIDE DEF r1
  <2>3. /\ r2 \in ScanStates /\ \E l : r2.out = Append(r1.out, l)
    <3>1. "colon" \in Marks /\ "colon" # "quote"
      BY DEF Marks
    <3>. QED  BY <2>2, <3>1, MarkScanned
  <2>4. e = Scanned(r2, z)
    <3>1. Quoted(ErrorCode) \in Texts /\ <<Mark("colon")>> \in Texts
      BY EndingTyped, QuotedTyped, MarksTyped DEF Long, Marks
    <3>2. <<Mark("colon")>> \o z \in Texts
      BY <3>1, Joined
    <3>3. Scanned(s, Quoted(ErrorCode) \o (<<Mark("colon")>> \o z))
            = Scanned(r1, <<Mark("colon")>> \o z)
      BY <3>1, <3>2, ScannedJoined, Zenon DEF r1
    <3>4. Scanned(r1, <<Mark("colon")>> \o z) = Scanned(r2, z)
      BY <3>1, ScannedJoined, Zenon
    <3>. QED  BY <1>3, <2>1, <3>3, <3>4
  <2>. HIDE DEF r2
  <2>5. r1.out \in Seq(Lexs) /\ r2.out \in Seq(Lexs)
    BY <2>2, <2>3 DEF ScanStates
  <2>6. 2 <= Len(r2.out) /\ Len(r2.out) \in Nat
    <3>1. \A l \in Lexs, c \in Seq(Lexs) : Len(Append(c, l)) = Len(c) + 1
      OBVIOUS
    <3>2. Len(r1.out) = Len(s.out) + 1 /\ Len(r2.out) = Len(r1.out) + 1
      BY <1>4, <2>2, <2>3, <2>5
    <3>. QED  BY <1>4, <2>5, <3>2
  <2>7. Len(r2.out) <= Len(e.out)
    BY <2>3, <2>4, ReadStays
  <2>. QED  BY <1>4, <2>6, <2>7
<1>9. e.out[1].kind \notin {"lbrace", "lbracket"}
  <2>1. 1 <= Len(e.out)
    BY <1>4, <1>8
  <2>2. e.out[1].kind \in {"string", x[1].kind}
    BY <1>2, <2>1, FirstLexeme DEF e
  <2>. QED  BY <2>2
<1>10. /\ Parses(e.out)[1].expect \in {"end", "nothing"}
       /\ Parses(e.out)[2].expect = "nothing"
  <2>1. /\ Parses(e.out)[0] = ParseStart
        /\ \A i \in 1..Len(e.out) : Parses(e.out)[i] = Parse(Parses(e.out)[i - 1], e.out[i].kind)
    <3>1. Len(e.out) \in Nat
      BY <1>4
    <3>. QED  BY <3>1, ParsesRecursion
  <2>2. 1 \in 1..Len(e.out) /\ 2 \in 1..Len(e.out) /\ 1 - 1 = 0 /\ 2 - 1 = 1
    BY <1>4, <1>8
  <2>3. /\ Parses(e.out)[1] = Parse(ParseStart, e.out[1].kind)
        /\ Parses(e.out)[2] = Parse(Parses(e.out)[1], e.out[2].kind)
    BY <2>1, <2>2
  <2>4. ASSUME NEW k, k \notin {"lbrace", "lbracket"}
        PROVE  Parse(ParseStart, k).expect \in {"end", "nothing"}
    <3>1. ParseStart = State("value", <<>>) /\ ParseStart.expect = "value"
      BY DEF ParseStart, State
    <3>2. CASE k \in {"string", "number"}
      <4>1. Parse(ParseStart, k) = After(<<>>)
        BY <3>1, <3>2, ParseCases
      <4>. QED  BY <4>1 DEF After
    <3>3. CASE k \notin {"string", "number"}
      BY <2>4, <3>1, <3>3, ParseFails
    <3>. QED  BY <3>2, <3>3
  <2>5. Parses(e.out)[1].expect \in {"end", "nothing"}
    BY <1>9, <2>3, <2>4
  <2>. QED  BY <2>3, <2>5, ParseFails
<1>11. Parsed(e.out).expect = "nothing"
  <2>1. 2 \in 0..Len(e.out)
    BY <1>4, <1>8
  <2>. QED  BY <1>4, <1>10, <2>1, FailureStays
<1>. QED  BY <1>1, <1>7, <1>11 DEF IsJson

\* The lost block ends in a part of the reply without opening brackets.
LEMMA FlatCut ==
  ASSUME NEW a \in Texts, NEW b, Flat(b), NEW c \in Texts, NEW text,
         text = (a \o b) \o c,
         Width(a) <= Lost, Lost < Width(a) + Width(b)
  PROVE  \E k : /\ IsCut(text, k) /\ text \in Texts
                /\ text[k].kind \notin {"lbrace", "lbracket"}
<1>. DEFINE ab == a \o b
            end == Ends(text)
<1>1. /\ ab \in Texts /\ Len(ab) = Len(a) + Len(b) /\ Len(a) \in Nat /\ Len(b) \in Nat
      /\ \A i \in 1..Len(b) : ab[Len(a) + i] = b[i]
      /\ Width(ab) = Width(a) + Width(b) /\ Ends(ab)[Len(a)] = Width(a)
      /\ Width(a) \in Nat /\ Width(b) \in Nat /\ b \in Texts
  BY Joined, Widths DEF Flat
<1>2. \E z \in Texts : text = a \o z
  <2>1. a \in Texts /\ b \in Texts /\ c \in Texts
    BY <1>1
  <2>2. (a \o b) \o c = a \o (b \o c) /\ b \o c \in Texts
    <3>1. Assoc(a, b, c)
      BY <2>1, Associated, Zenon
    <3>. QED  BY <3>1, Zenon DEF Assoc
  <2>. QED  BY <2>2, Zenon
<1>3. end[Len(a)] = Width(a)
  BY <1>2, Widths
<1>. HIDE DEF ab
<1>4. /\ text \in Texts /\ Len(text) = Len(ab) + Len(c) /\ Len(c) \in Nat
      /\ \A i \in 1..Len(ab) : text[i] = ab[i]
      /\ end[Len(ab)] = Width(ab)
  <2>1. text = ab \o c
    BY DEF ab
  <2>2. /\ ab \o c \in Texts /\ Len(ab \o c) = Len(ab) + Len(c) /\ Len(c) \in Nat
        /\ \A i \in 1..Len(ab) : (ab \o c)[i] = ab[i]
        /\ Ends(ab \o c)[Len(ab)] = Width(ab)
    BY <1>1, Joined, Widths
  <2>. QED  BY <2>1, <2>2, Zenon DEF end
<1>. HIDE DEF end
<1>5. Len(ab) \in 1..Len(text)
  <2>1. Len(ab) # 0
    <3>. DEFINE n == Len(ab)
                m == Len(a)
    <3>1. /\ n = m + Len(b) /\ m \in Nat /\ Len(b) \in Nat
          /\ end[m] <= Lost /\ Lost < end[n]
      BY <1>1, <1>3, <1>4
    <3>. HIDE DEF n, m
    <3>2. n # 0
      <4>1. SUFFICES ASSUME n = 0 PROVE FALSE
        OBVIOUS
      <4>2. n = m /\ end[m] \in Nat
        BY <1>1, <1>3, <3>1, <4>1 DEF m
      <4>. QED  BY <3>1, <4>2 DEF Lost
    <3>. QED  BY <3>2 DEF n
  <2>. QED  BY <1>1, <1>4, <2>1
<1>6. PICK k \in 1..Len(ab) : IsCut(text, k)
  <2>1. Lost < Ends(text)[Len(ab)]
    BY <1>1, <1>4 DEF end
  <2>. QED  BY <1>4, <1>5, <2>1, CutExists
<1>7. Len(a) < k
  <2>1. SUFFICES ASSUME k <= Len(a) PROVE FALSE
    BY <1>1
  <2>2. k \in 0..Len(text) /\ Len(a) \in 0..Len(text)
    BY <1>1, <1>4, <1>6
  <2>3. end[k] + (Len(a) - k) <= end[Len(a)] /\ end[k] \in Nat
    BY <1>4, <2>1, <2>2, EndsGrow DEF end
  <2>4. Lost < end[k]
    BY <1>6 DEF IsCut, end
  <2>. QED  BY <1>1, <1>3, <2>1, <2>2, <2>3, <2>4 DEF Lost
<1>8. k - Len(a) \in 1..Len(b) /\ Len(a) + (k - Len(a)) = k
  BY <1>1, <1>6, <1>7
<1>9. text[k] = b[k - Len(a)]
  BY <1>1, <1>4, <1>6, <1>8
<1>10. text[k].kind \notin {"lbrace", "lbracket"}
  BY <1>8, <1>9 DEF Flat
<1>. QED  BY <1>4, <1>6, <1>10

\* All data are texts.
LEMMA DatasTyped == Datas \subseteq Texts
<1>1. \A d \in Datas : Takes(d, State("value", Open), After(Open))
  BY DatasValued, EnvelopeTaken DEF Valued
<1>. QED  BY <1>1, Zenon DEF Takes

\* A reply that is cut there leaves nothing that is JSON.
LEMMA FlatSealed ==
  ASSUME NEW d \in Datas, NEW a \in Texts, NEW b, Flat(b), NEW c \in Texts,
         Plaintext(d) = (a \o b) \o c,
         Width(a) <= Lost, Lost < Width(a) + Width(b)
  PROVE  ~IsJson(Lexemes(DecryptPairingReply(Plaintext(d))))
<1>1. PICK k : /\ IsCut(Plaintext(d), k) /\ Plaintext(d) \in Texts
               /\ Plaintext(d)[k].kind \notin {"lbrace", "lbracket"}
  BY FlatCut
<1>. DEFINE x == DecryptPairingReply(Plaintext(d))
<1>2. x = Remains(Plaintext(d), k)
  BY <1>1, Decrypted
<1>3. x[1].kind \notin {"lbrace", "lbracket"}
  <2>. DEFINE p == Plaintext(d)
  <2>. HIDE DEF p
  <2>1. p \in Texts /\ IsCut(p, k) /\ p[k].kind \notin {"lbrace", "lbracket"}
    BY <1>1 DEF p
  <2>2. Remains(p, k)[1].kind = p[k].kind
    BY <2>1, TailTyped
  <2>. QED  BY <1>2, <2>1, <2>2 DEF p
<1>4. \E y \in Texts : x = y \o Ending
  <2>1. d \in Texts
    BY DatasTyped
  <2>. QED  BY <2>1, EndingStays
<1>. HIDE DEF x
<1>5. ~IsJson(Lexemes(x))
  BY <1>3, <1>4, NotJson
<1>. QED  BY <1>5 DEF x

\* What stands behind the data opens no bracket and is no shorter than a name.
LEMMA SuffixFlat ==
  Flat(DataSuffix) /\ 12 <= Width(DataSuffix) /\ Width(DataSuffix) \in Nat
<1>. DEFINE n == <<Number("0", 1)>>
            f1 == Field(Word("appTimeout", 10), n)
            f2 == Field(Word("errorCode", 9), n)
            f3 == Field(Word("state", 5), n)
            r == <<Mark("rbrace")>>
<1>1. /\ Flat(n) /\ Flat(r) /\ Flat(Also)
      /\ \A t \in {Word("appTimeout", 10), Word("errorCode", 9), Word("state", 5)} :
           t \in Tokens /\ t.kind = "word"
      /\ Word("appTimeout", 10).width = 10
  <2>1. /\ "appTimeout" \in Labels /\ "errorCode" \in Labels /\ "state" \in Labels
        /\ "0" \in Labels /\ "comma" \in Marks /\ "rbrace" \in Marks
        /\ {1, 5, 9, 10} \subseteq Nat \ {0}
    BY DEF Labels, Marks
  <2>2. /\ Number("0", 1) \in Tokens /\ Number("0", 1).kind = "number"
        /\ Mark("comma") \in Tokens /\ Mark("comma").kind = "comma"
        /\ Mark("rbrace") \in Tokens /\ Mark("rbrace").kind = "rbrace"
    BY <2>1, TokensTyped
  <2>3. Flat(n) /\ Flat(r) /\ Flat(Also)
    BY <2>2, FlatTokens DEF Also
  <2>. QED  BY <2>1, <2>3, TokensTyped
<1>. HIDE DEF n, r
<1>2. Flat(f1) /\ Flat(f2) /\ Flat(f3)
  BY <1>1, FlatField
<1>3. DataSuffix = ((Also \o f1) \o Also) \o (((f2 \o Also) \o f3) \o r)
  BY Zenon DEF DataSuffix, Ending, n, r
<1>4. Width(f1) >= 10 /\ Width(f1) \in Nat
  <2>. DEFINE w == <<Word("appTimeout", 10)>>
              q == <<Q>>
              c == <<Mark("colon")>>
  <2>1. w \in Texts /\ q \in Texts /\ c \in Texts /\ Width(w) = 10 /\ n \in Texts
    BY <1>1, Single, Facts, WidthOfOne, MarksTyped DEF Marks, Flat
  <2>2. f1 = q \o (NameOf(Word("appTimeout", 10)) \o (c \o n))
    BY <1>1, <2>1, FieldBegins
  <2>3. NameOf(Word("appTimeout", 10)) = w \o q
    BY DEF NameOf
  <2>. HIDE DEF w, q, c, f1
  <2>4. c \o n \in Texts /\ w \o q \in Texts /\ (w \o q) \o (c \o n) \in Texts
    BY <2>1, Joined
  <2>5. /\ Width(w \o q) = 10 + Width(q) /\ Width(q) \in Nat /\ Width(c \o n) \in Nat
        /\ Width((w \o q) \o (c \o n)) = Width(w \o q) + Width(c \o n)
        /\ Width(q \o ((w \o q) \o (c \o n))) = Width(q) + Width((w \o q) \o (c \o n))
    BY <2>1, <2>4, Widths
  <2>6. f1 = q \o ((w \o q) \o (c \o n))
    BY <2>2, <2>3, Zenon
  <2>7. Width(f1) = Width(q \o ((w \o q) \o (c \o n)))
    BY <2>6, Zenon
  <2>. DEFINE k == Width(q \o ((w \o q) \o (c \o n)))
  <2>8. k >= 10 /\ k \in Nat
    BY <2>5
  <2>. HIDE DEF k
  <2>. QED  BY <2>7, <2>8 DEF k
<1>. HIDE DEF f1, f2, f3
<1>5. /\ Flat((Also \o f1) \o Also) /\ Flat(((f2 \o Also) \o f3) \o r)
  <2>1. Flat(Also \o f1) /\ Flat(f2 \o Also)
    BY <1>1, <1>2, FlatJoined, Zenon
  <2>2. Flat((f2 \o Also) \o f3)
    BY <1>2, <2>1, FlatJoined, Zenon
  <2>. QED  BY <1>1, <2>1, <2>2, FlatJoined, Zenon
<1>6. Flat(DataSuffix)
  BY <1>3, <1>5, FlatJoined, Zenon
<1>7. Width(DataSuffix) >= 12 /\ Width(DataSuffix) \in Nat
  <2>. DEFINE x == ((f2 \o Also) \o f3) \o r
  <2>1. Also \in Texts /\ f1 \in Texts /\ x \in Texts /\ Width(Also) = 1
        /\ Also \o f1 \in Texts /\ (Also \o f1) \o Also \in Texts
    <3>1. Also \in Texts /\ f1 \in Texts /\ x \in Texts
      BY <1>1, <1>2, <1>5 DEF Flat
    <3>2. Mark("comma") \in Tokens /\ Mark("comma").width = 1
      BY TokensTyped DEF Marks
    <3>. QED  BY <3>1, <3>2, WidthOfOne, Joined DEF Also
  <2>. HIDE DEF x
  <2>2. /\ Width(Also \o f1) = 1 + Width(f1)
        /\ Width((Also \o f1) \o Also) = Width(Also \o f1) + 1
        /\ Width(((Also \o f1) \o Also) \o x) = Width((Also \o f1) \o Also) + Width(x)
        /\ Width(x) \in Nat
    BY <2>1, Widths
  <2>. QED  BY <1>3, <1>4, <2>2 DEF x
<1>. QED  BY <1>6, <1>7

\* Data without opening brackets, or with none but the first.
LEMMA FlatDataSealed ==
  ASSUME NEW d \in Datas, NEW o, NEW f, d = o \o f, Flat(f),
         o = <<>> \/ o = <<Mark("lbrace")>>
  PROVE  ~IsJson(Lexemes(DecryptPairingReply(Plaintext(d))))
<1>. DEFINE a == DataPrefix \o o
            b == f \o DataSuffix
<1>1. /\ o \in Texts /\ Width(o) \in {0, 1} /\ f \in Texts /\ Width(f) \in Nat
      /\ DataPrefix \in Texts /\ DataSuffix \in Texts
  <2>1. <<>> \in Texts /\ Width(<<>>) = 0
    <3>1. <<>> \in Texts /\ Len(<<>>) = 0
      BY DEF Texts
    <3>. QED  BY <3>1, EndsRecursion DEF Width
  <2>2. <<Mark("lbrace")>> \in Texts /\ Width(<<Mark("lbrace")>>) = 1
    BY TokensTyped, Single, WidthOfOne DEF Marks
  <2>3. f \in Texts
    BY DEF Flat
  <2>. QED  BY <2>1, <2>2, <2>3, SuffixTyped, Widths
<1>2. a \in Texts /\ Width(a) = 8 + Width(o)
  BY <1>1, PrefixWidth, Joined, Widths
<1>3. Flat(b) /\ Width(b) = Width(f) + Width(DataSuffix)
  BY <1>1, SuffixFlat, FlatJoined, Widths
<1>4. Plaintext(d) = (a \o b) \o <<>> /\ <<>> \in Texts
  <2>. HIDE DEF a, b
  <2>1. Plaintext(d) = (DataPrefix \o (o \o f)) \o DataSuffix
    BY Zenon DEF Plaintext
  <2>2. DataPrefix \o (o \o f) = a \o f
    <3>1. DataPrefix \in Texts /\ o \in Texts /\ f \in Texts
      BY <1>1
    <3>2. Assoc(DataPrefix, o, f)
      BY <3>1, Associated, Zenon
    <3>. QED  BY <3>2, Zenon DEF Assoc, a
  <2>3. (a \o f) \o DataSuffix = a \o b
    <3>1. a \in Texts /\ f \in Texts /\ DataSuffix \in Texts
      BY <1>1, <1>2
    <3>2. Assoc(a, f, DataSuffix)
      BY <3>1, Associated, Zenon
    <3>. QED  BY <3>2, Zenon DEF Assoc, b
  <2>4. a \o b \in Texts
    BY <1>2, <1>3, Joined DEF Flat
  <2>5. (a \o b) \o <<>> = a \o b /\ <<>> \in Texts
    BY <2>4 DEF Texts
  <2>. QED  BY <2>1, <2>2, <2>3, <2>5, Zenon
<1>5. Width(a) <= Lost /\ Lost < Width(a) + Width(b)
  BY <1>1, <1>2, <1>3, SuffixFlat DEF Lost
<1>. HIDE DEF a, b
<1>. QED  BY <1>2, <1>3, <1>4, <1>5, FlatSealed

\* An object with a long first name.
LEMMA LongNameSealed ==
  ASSUME NEW f, Braces(f) \in Datas, NEW w \in Tokens, w.kind = "word",
         Begins(f, w), 7 <= w.width
  PROVE  ~IsJson(Lexemes(DecryptPairingReply(Plaintext(Braces(f)))))
<1>. DEFINE a == Before(1)
            b == <<w>>
            q == <<Q>>
            d == Braces(f)
<1>1. PICK rest \in Texts : Completes(1, Braces(f), w, rest)
  BY ObjectCompleted
<1>2. a \in Texts /\ Width(a) = 10
  <2>1. 1 \in 1..3 /\ Place(1) = 5
    BY DEF Place
  <2>. QED  BY <2>1, BeforeScanned
<1>3. Flat(b) /\ Width(b) = w.width /\ w.width \in Nat /\ b \in Texts /\ q \in Texts
  BY FlatTokens, WidthOfOne, Single, Facts DEF Tokens
<1>. HIDE DEF a, b, q
<1>4. q \o rest \in Texts /\ Plaintext(d) = (a \o b) \o (q \o rest)
  <2>1. q \o rest \in Texts
    BY <1>3, Joined, Zenon
  <2>2. (b \o q) \o rest = b \o (q \o rest)
    <3>1. Assoc(b, q, rest)
      BY <1>3, Associated, Zenon
    <3>. QED  BY <3>1, Zenon DEF Assoc
  <2>3. (a \o b) \o (q \o rest) = a \o (b \o (q \o rest))
    <3>1. a \in Texts /\ b \in Texts /\ q \o rest \in Texts
      BY <1>2, <1>3, <2>1
    <3>2. Assoc(a, b, q \o rest)
      BY <3>1, Associated, Zenon
    <3>. QED  BY <3>2, Zenon DEF Assoc
  <2>. QED  BY <1>1, <2>1, <2>2, <2>3, Zenon DEF Completes, NameOf, a, b, q
<1>5. Width(a) <= Lost /\ Lost < Width(a) + Width(b)
  BY <1>2, <1>3 DEF Lost
<1>6. d \in Datas
  OBVIOUS
<1>. HIDE DEF d
<1>7. ~IsJson(Lexemes(DecryptPairingReply(Plaintext(d))))
  BY <1>2, <1>3, <1>4, <1>5, <1>6, FlatSealed
<1>. QED  BY <1>7 DEF d

\* Commas and closing braces open no bracket.
LEMMA MarksFlat == Flat(<<Mark("rbrace")>>) /\ Flat(Also)
<1>1. {"comma", "rbrace"} \subseteq Marks
  BY DEF Marks
<1>2. /\ Mark("comma") \in Tokens /\ Mark("comma").kind = "comma"
      /\ Mark("rbrace") \in Tokens /\ Mark("rbrace").kind = "rbrace"
  BY <1>1, TokensTyped
<1>. QED  BY <1>2, FlatTokens DEF Also

\* A field of the data opens no bracket and has five tokens at least.
LEMMA FieldsFlat ==
  ASSUME NEW name \in {"name1", "name2"}, NEW value \in {"value1", "value2"},
         NEW f \in Fields(name, value)
  PROVE  Flat(f) /\ 5 <= Len(f)
<1>1. PICK w \in Names(name), v \in Scalars(value) :
        /\ f = Field(w, v) /\ w \in Tokens /\ w.kind = "word"
        /\ \E t \in Tokens : \/ v = Quoted(t) /\ t.kind = "word"
                             \/ v = <<t>> /\ t.kind = "number"
  BY FieldsMade
<1>2. PICK t \in Tokens : \/ v = Quoted(t) /\ t.kind = "word"
                          \/ v = <<t>> /\ t.kind = "number"
  BY <1>1
<1>3. Flat(v)
  BY <1>2, FlatTokens
<1>4. Flat(f)
  BY <1>1, <1>3, FlatField
<1>5. 1 <= Len(v) /\ Len(v) \in Nat
  <2>1. \/ Long(v, 3)
        \/ Long(v, 1)
    BY <1>2, QuotedTyped, Single, Zenon
  <2>2. Len(v) \in Nat
    BY <1>3, Textual DEF Flat
  <2>. DEFINE n == Len(v)
  <2>3. n \in Nat /\ (3 <= n \/ 1 <= n)
    BY <2>1, <2>2 DEF Long
  <2>. HIDE DEF n
  <2>4. 1 <= n
    BY <2>3
  <2>. QED  BY <2>3, <2>4 DEF n
<1>6. Long(v, Len(v))
  BY <1>3, Textual DEF Flat
<1>7. Long(Field(w, v), 4 + Len(v))
  BY <1>1, <1>5, <1>6, FieldTyped
<1>8. 4 + Len(v) <= Len(f) /\ Len(f) \in Nat
  BY <1>1, <1>4, <1>7, Textual DEF Long, Flat
<1>. QED  BY <1>4, <1>5, <1>8

\* What is left of an object, or only of its envelope, is not JSON.
LEMMA ObjectsSealed ==
  ASSUME NEW d \in Objects
  PROVE  ~IsJson(Lexemes(DecryptPairingReply(Plaintext(d))))
<1>. DEFINE l == <<Mark("lbrace")>>
            r == <<Mark("rbrace")>>
<1>1. d \in Datas
  BY DEF Datas
<1>2. Flat(r) /\ Flat(Also)
  BY MarksFlat
<1>3. ASSUME NEW g, Flat(g), d = Braces(g)
      PROVE  ~IsJson(Lexemes(DecryptPairingReply(Plaintext(d))))
  <2>1. l \in Texts /\ g \in Texts /\ r \in Texts
    BY <1>2, <1>3, MarksTyped DEF Flat, Marks
  <2>2. Braces(g) = (l \o g) \o r
    BY DEF Braces
  <2>. HIDE DEF l, r
  <2>3. (l \o g) \o r = l \o (g \o r)
    <3>1. Assoc(l, g, r)
      BY <2>1, Associated, Zenon
    <3>. QED  BY <3>1, Zenon DEF Assoc
  <2>4. d = l \o (g \o r) /\ Flat(g \o r)
    BY <1>2, <1>3, <2>2, <2>3, FlatJoined, Zenon
  <2>5. d = <<Mark("lbrace")>> \o (g \o r)
    BY <2>4, Zenon DEF l
  <2>. QED  BY <1>1, <2>4, <2>5, FlatDataSealed, Zenon
<1>. HIDE DEF l, r
<1>4. \/ \E f \in Fields("name1", "value1") : d = Braces(f)
      \/ \E f \in Fields("name1", "value1"), g \in Fields("name2", "value2") :
           d = Braces(f \o Also \o g)
  BY DEF Objects
<1>5. CASE \E f \in Fields("name1", "value1") : d = Braces(f)
  BY <1>3, <1>5, FieldsFlat
<1>6. CASE \E f \in Fields("name1", "value1"), g \in Fields("name2", "value2") :
             d = Braces(f \o Also \o g)
  <2>1. PICK f \in Fields("name1", "value1"), g \in Fields("name2", "value2") :
               d = Braces(f \o Also \o g)
    BY <1>6
  <2>2. Flat(f) /\ Flat(g)
    BY FieldsFlat
  <2>3. Flat(f \o Also)
    BY <1>2, <2>2, FlatJoined, Zenon
  <2>4. Flat((f \o Also) \o g)
    BY <2>2, <2>3, FlatJoined, Zenon
  <2>. QED  BY <1>3, <2>1, <2>4, Zenon
<1>. QED  BY <1>4, <1>5, <1>6

\* The lost block ends before the second object of the list, however short the
\* field of the first one is.
LEMMA ListsSealed ==
  ASSUME NEW d \in Lists
  PROVE  ~IsJson(Lexemes(DecryptPairingReply(Plaintext(d))))
<1>1. d \in Datas
  BY DEF Datas
<1>2. PICK f \in Fields("name1", "value1"), g \in Fields("name2", "value2") :
        d = Brackets(Braces(f) \o Also \o Braces(g))
  BY DEF Lists
<1>. DEFINE h == <<Mark("lbracket")>>
            l == <<Mark("lbrace")>>
            r == <<Mark("rbrace")>>
            t == <<Mark("rbracket")>>
            G == Braces(g)
            a == (DataPrefix \o h) \o l
            b == (f \o r) \o Also
            c == G \o (t \o DataSuffix)
<1>3. Flat(r) /\ Flat(Also) /\ Flat(f) /\ f \in Texts /\ 5 <= Width(f) /\ Width(f) \in Nat
  <2>1. Flat(f) /\ 5 <= Len(f)
    BY FieldsFlat
  <2>2. f \in Texts /\ Len(f) \in Nat
    BY <2>1, Textual DEF Flat
  <2>3. Len(f) <= Width(f) /\ Width(f) \in Nat
    BY <2>2, Widths
  <2>. QED  BY <2>1, <2>2, <2>3, MarksFlat
<1>4. /\ h \in Texts /\ l \in Texts /\ r \in Texts /\ t \in Texts /\ Also \in Texts
      /\ DataPrefix \in Texts /\ DataSuffix \in Texts
      /\ Width(h) = 1 /\ Width(l) = 1 /\ Width(r) = 1 /\ Width(Also) = 1
  <2>1. \A k \in Marks : Mark(k) \in Tokens /\ Mark(k).width = 1 /\ <<Mark(k)>> \in Texts
    BY TokensTyped, Single
  <2>2. \A k \in Marks : Width(<<Mark(k)>>) = 1
    BY <2>1, WidthOfOne
  <2>. QED  BY <2>1, <2>2, SuffixTyped DEF Marks, Also
<1>5. G \in Texts
  <2>1. Listed(g)
    BY FieldsListed
  <2>2. Valued(G)
    BY <2>1, BracesValued
  <2>. QED  BY <2>2, EnvelopeTaken DEF Valued, Takes
<1>6. Braces(f) = (l \o f) \o r /\ d = (h \o ((Braces(f) \o Also) \o G)) \o t
  BY <1>2 DEF Braces, Brackets
<1>7. Plaintext(d) = (DataPrefix \o d) \o DataSuffix
  BY Zenon DEF Plaintext
<1>. HIDE DEF h, l, r, t, G
<1>8. /\ l \o f \in Texts /\ Braces(f) \in Texts /\ Braces(f) \o Also \in Texts
      /\ f \o r \in Texts /\ DataPrefix \o h \in Texts /\ t \o DataSuffix \in Texts
  <2>1. l \o f \in Texts /\ f \o r \in Texts /\ DataPrefix \o h \in Texts /\ t \o DataSuffix \in Texts
    BY <1>3, <1>4, Joined, Zenon
  <2>2. (l \o f) \o r \in Texts
    BY <1>4, <2>1, Joined, Zenon
  <2>3. Braces(f) \in Texts
    BY <1>6, <2>2, Zenon
  <2>. QED  BY <1>4, <2>1, <2>3, Joined, Zenon
<1>9. a \in Texts /\ Flat(b) /\ b \in Texts /\ c \in Texts
  <2>1. Flat(f \o r)
    BY <1>3, FlatJoined, Zenon
  <2>2. Flat(b)
    BY <1>3, <2>1, FlatJoined, Zenon
  <2>3. a \in Texts /\ b \in Texts /\ c \in Texts
    BY <1>4, <1>5, <1>8, Joined, Zenon
  <2>. QED  BY <2>2, <2>3
<1>10. Braces(f) \o Also = l \o b
  <2>1. (l \o f) \o r = l \o (f \o r)
    <3>1. l \in Texts /\ f \in Texts /\ r \in Texts
      BY <1>3, <1>4
    <3>2. Assoc(l, f, r)
      BY <3>1, Associated, Zenon
    <3>. QED  BY <3>2, Zenon DEF Assoc
  <2>2. (l \o (f \o r)) \o Also = l \o ((f \o r) \o Also)
    <3>1. l \in Texts /\ f \o r \in Texts /\ Also \in Texts
      BY <1>4, <1>8
    <3>2. Assoc(l, f \o r, Also)
      BY <3>1, Associated, Zenon
    <3>. QED  BY <3>2, Zenon DEF Assoc
  <2>. QED  BY <1>6, <2>1, <2>2, Zenon
<1>11. Parted(d, h \o l, b, G \o t)
  <2>. HIDE DEF b
  <2>1. Parted(l \o b, l, b, <<>>)
    <3>1. b \o <<>> = b /\ <<>> \in Texts
      BY <1>9 DEF Texts
    <3>. QED  BY <1>4, <1>9, <3>1, Zenon DEF Parted
  <2>2. Parted((l \o b) \o G, l, b, <<>> \o G)
    BY <1>5, <2>1, PartedMore, Zenon
  <2>3. <<>> \o G = G
    BY <1>5 DEF Texts
  <2>4. Parted((l \o b) \o G, l, b, G)
    BY <2>2, <2>3, Zenon
  <2>5. Parted(h \o ((l \o b) \o G), h \o l, b, G)
    BY <1>4, <2>4, PartedMore, Zenon
  <2>6. Parted((h \o ((l \o b) \o G)) \o t, h \o l, b, G \o t)
    BY <1>4, <2>5, PartedMore, Zenon
  <2>. QED  BY <1>6, <1>10, <2>6, Zenon
<1>12. Parted(Plaintext(d), DataPrefix \o (h \o l), b, (G \o t) \o DataSuffix)
  <2>. HIDE DEF b
  <2>1. Parted(DataPrefix \o d, DataPrefix \o (h \o l), b, G \o t)
    BY <1>4, <1>11, PartedMore, Zenon
  <2>2. Parted((DataPrefix \o d) \o DataSuffix, DataPrefix \o (h \o l), b, (G \o t) \o DataSuffix)
    BY <1>4, <2>1, PartedMore, Zenon
  <2>. QED  BY <1>7, <2>2, Zenon
<1>13. DataPrefix \o (h \o l) = a /\ (G \o t) \o DataSuffix = c
  <2>1. (DataPrefix \o h) \o l = DataPrefix \o (h \o l)
    <3>1. DataPrefix \in Texts /\ h \in Texts /\ l \in Texts
      BY <1>4
    <3>2. Assoc(DataPrefix, h, l)
      BY <3>1, Associated, Zenon
    <3>. QED  BY <3>2, Zenon DEF Assoc
  <2>2. (G \o t) \o DataSuffix = G \o (t \o DataSuffix)
    <3>1. G \in Texts /\ t \in Texts /\ DataSuffix \in Texts
      BY <1>4, <1>5
    <3>2. Assoc(G, t, DataSuffix)
      BY <3>1, Associated, Zenon
    <3>. QED  BY <3>2, Zenon DEF Assoc
  <2>. QED  BY <2>1, <2>2, Zenon
<1>14. Plaintext(d) = (a \o b) \o c
  <2>. HIDE DEF a, b, c
  <2>1. Plaintext(d) = a \o (b \o c)
    BY <1>12, <1>13, Zenon DEF Parted
  <2>2. (a \o b) \o c = a \o (b \o c)
    <3>1. a \in Texts /\ b \in Texts /\ c \in Texts
      BY <1>9
    <3>2. Assoc(a, b, c)
      BY <3>1, Associated, Zenon
    <3>. QED  BY <3>2, Zenon DEF Assoc
  <2>. QED  BY <2>1, <2>2, Zenon
<1>15. Width(a) = 10 /\ Width(b) = Width(f) + 2
  <2>1. /\ Width(DataPrefix \o h) = Width(DataPrefix) + Width(h)
        /\ Width((DataPrefix \o h) \o l) = Width(DataPrefix \o h) + Width(l)
        /\ Width(f \o r) = Width(f) + Width(r)
        /\ Width((f \o r) \o Also) = Width(f \o r) + Width(Also)
    BY <1>3, <1>4, <1>8, Widths, Zenon
  <2>. DEFINE m == Width((DataPrefix \o h) \o l)
              n == Width((f \o r) \o Also)
  <2>2. m = 10 /\ n = Width(f) + 2
    BY <1>3, <1>4, <2>1, PrefixWidth
  <2>. QED  BY <2>2
<1>. HIDE DEF a, b, c
<1>16. Width(a) <= Lost /\ Lost < Width(a) + Width(b)
  BY <1>3, <1>15 DEF Lost
<1>. QED  BY <1>1, <1>9, <1>14, <1>16, FlatSealed

\* The reply to auth, in every order of its fields.
LEMMA KnownSealed ==
  ASSUME NEW d \in {ExpiryFirst, KeyFirst, DoorsFirst, DoorsLater}
  PROVE  ~IsJson(Lexemes(DecryptPairingReply(Plaintext(d))))
<1>1. \A f : Braces(f) = d => Braces(f) \in Datas
  BY DEF Datas
<1>2. CASE d = ExpiryFirst
  <2>1. Begins((ExpiryField \o Also) \o KeyField, Expiry)
    <3>1. Begins(ExpiryField \o Also, Expiry)
      BY KnownBegin, BeginsMore, Zenon
    <3>. QED  BY <3>1, KnownBegin, BeginsMore, Zenon
  <2>2. d = Braces((ExpiryField \o Also) \o KeyField)
    BY <1>2 DEF ExpiryFirst
  <2>3. Expiry \in Tokens /\ Expiry.kind = "word" /\ 7 <= Expiry.width
    BY KnownBegin
  <2>. QED  BY <1>1, <2>1, <2>2, <2>3, LongNameSealed, Zenon
<1>3. CASE d = DoorsLater
  <2>1. Begins((((ExpiryField \o Also) \o KeyField) \o Also) \o Permissions, Expiry)
    <3>1. Begins(ExpiryField \o Also, Expiry)
      BY KnownBegin, BeginsMore, Zenon
    <3>2. Begins((ExpiryField \o Also) \o KeyField, Expiry)
      BY <3>1, KnownBegin, BeginsMore, Zenon
    <3>3. Begins(((ExpiryField \o Also) \o KeyField) \o Also, Expiry)
      BY <3>2, KnownBegin, BeginsMore, Zenon
    <3>. QED  BY <3>3, KnownBegin, BeginsMore, Zenon
  <2>2. d = Braces((((ExpiryField \o Also) \o KeyField) \o Also) \o Permissions)
    BY <1>3 DEF DoorsLater
  <2>3. Expiry \in Tokens /\ Expiry.kind = "word" /\ 7 <= Expiry.width
    BY KnownBegin
  <2>. QED  BY <1>1, <2>1, <2>2, <2>3, LongNameSealed, Zenon
<1>4. CASE d = DoorsFirst
  <2>1. Begins((((Permissions \o Also) \o ExpiryField) \o Also) \o KeyField, Doors)
    <3>1. Begins(Permissions \o Also, Doors)
      BY KnownBegin, BeginsMore, Zenon
    <3>2. Begins((Permissions \o Also) \o ExpiryField, Doors)
      BY <3>1, KnownBegin, BeginsMore, Zenon
    <3>3. Begins(((Permissions \o Also) \o ExpiryField) \o Also, Doors)
      BY <3>2, KnownBegin, BeginsMore, Zenon
    <3>. QED  BY <3>3, KnownBegin, BeginsMore, Zenon
  <2>2. d = Braces((((Permissions \o Also) \o ExpiryField) \o Also) \o KeyField)
    BY <1>4 DEF DoorsFirst
  <2>3. Doors \in Tokens /\ Doors.kind = "word" /\ 7 <= Doors.width
    BY KnownBegin
  <2>. QED  BY <1>1, <2>1, <2>2, <2>3, LongNameSealed, Zenon
<1>5. CASE d = KeyFirst
  <2>. DEFINE l == <<Mark("lbrace")>>
              r == <<Mark("rbrace")>>
              g == (KeyField \o Also) \o ExpiryField
  <2>1. Flat(r) /\ Flat(Also) /\ Flat(KeyField) /\ Flat(ExpiryField)
    <3>1. Flat(Quoted(SessionKey)) /\ Flat(<<Number("expiry", 3)>>)
      <4>1. "expiry" \in Labels /\ 3 \in Nat \ {0}
        BY DEF Labels
      <4>2. Number("expiry", 3) \in Tokens /\ Number("expiry", 3).kind = "number"
        BY <4>1, TokensTyped
      <4>3. SessionKey \in Tokens /\ SessionKey.kind = "word"
        BY KeyTyped DEF SessionKey, Word
      <4>. QED  BY <4>2, <4>3, FlatTokens
    <3>2. Key.kind = "word"
      BY DEF Key, Word
    <3>3. Flat(Field(Key, Quoted(SessionKey))) /\ Flat(Field(Expiry, <<Number("expiry", 3)>>))
      BY <3>1, <3>2, KeyTyped, KnownBegin, FlatField
    <3>. QED  BY <3>3, MarksFlat DEF KeyField, ExpiryField, Key, Expiry
  <2>2. Flat(g)
    <3>1. Flat(KeyField \o Also)
      BY <2>1, FlatJoined, Zenon
    <3>. QED  BY <2>1, <3>1, FlatJoined, Zenon
  <2>3. d = (l \o g) \o r
    BY <1>5 DEF KeyFirst, Braces
  <2>4. l \in Texts /\ g \in Texts /\ r \in Texts
    BY <2>1, <2>2, MarksTyped DEF Flat, Marks
  <2>. HIDE DEF l, g, r
  <2>5. (l \o g) \o r = l \o (g \o r)
    <3>1. Assoc(l, g, r)
      BY <2>4, Associated, Zenon
    <3>. QED  BY <3>1, Zenon DEF Assoc
  <2>6. d = <<Mark("lbrace")>> \o (g \o r) /\ Flat(g \o r)
    BY <2>1, <2>2, <2>3, <2>5, FlatJoined, Zenon DEF l
  <2>7. d \in Datas
    BY DEF Datas
  <2>. QED  BY <2>6, <2>7, FlatDataSealed, Zenon
<1>. QED  BY <1>2, <1>3, <1>4, <1>5

\* What is left of a reply is not JSON, whatever the data.
LEMMA DatasSealed ==
  ASSUME NEW d \in Datas
  PROVE  ~IsJson(Lexemes(DecryptPairingReply(Plaintext(d))))
<1>1. ASSUME Flat(d)
      PROVE  ~IsJson(Lexemes(DecryptPairingReply(Plaintext(d))))
  <2>1. d = <<>> \o d
    BY <1>1 DEF Flat, Texts
  <2>. QED  BY <1>1, <2>1, FlatDataSealed, Zenon
<1>2. CASE d \in Strings
  <2>1. PICK n \in StringLengths : d = Quoted(Word("value1", n))
    BY <1>2 DEF Strings
  <2>2. Word("value1", n) \in Tokens /\ Word("value1", n).kind = "word"
    BY LabelsTyped
  <2>3. Flat(d)
    BY <2>1, <2>2, FlatTokens
  <2>. QED  BY <1>1, <2>3
<1>3. CASE d = Null
  <2>1. "null" \in Labels /\ 4 \in Nat \ {0}
    BY DEF Labels
  <2>2. Number("null", 4) \in Tokens /\ Number("null", 4).kind = "number"
    BY <2>1, TokensTyped
  <2>3. Flat(d)
    BY <1>3, <2>2, FlatTokens DEF Null
  <2>. QED  BY <1>1, <2>3
<1>4. \/ d \in Objects \/ d \in Lists \/ d \in Strings \/ d = Null
      \/ d \in {ExpiryFirst, KeyFirst, DoorsFirst, DoorsLater}
  BY DEF Datas
<1>. QED  BY <1>2, <1>3, <1>4, ObjectsSealed, ListsSealed, KnownSealed
-----------------------------------------------------------------------------
(* The permissions show their first door, and nothing else shows one.       *)

Unnamed == {t \in Tokens : t.id # "devicePermissions"}

\* What texts are made of stays among the tokens of a set.
LEMMA SpelledFrom ==
  ASSUME NEW T, T \subseteq Tokens, \A k \in Marks : Mark(k) \in T
  PROVE  /\ Also \in Seq(T) /\ <<>> \in Seq(T)
         /\ \A t \in T : <<t>> \in Seq(T) /\ Quoted(t) \in Seq(T)
         /\ \A a \in Seq(T), b \in Seq(T) : a \o b \in Seq(T)
         /\ \A w \in T, v \in Seq(T) : Field(w, v) \in Seq(T)
         /\ \A f \in Seq(T) : Braces(f) \in Seq(T) /\ Brackets(f) \in Seq(T)
<1>1. <<>> \in Seq(T) /\ \A t \in T : <<t>> \in Seq(T)
  OBVIOUS
<1>2. \A a \in Seq(T), b \in Seq(T) : a \o b \in Seq(T)
  OBVIOUS
<1>3. \A k \in Marks : <<Mark(k)>> \in Seq(T)
  BY <1>1
<1>4. \A t \in T : Quoted(t) \in Seq(T)
  <2>. TAKE t \in T
  <2>1. Q \in T
    BY DEF Q, Marks
  <2>2. Quoted(t) = <<Q, t, Q>>
    BY DEF Quoted
  <2>3. <<Q, t, Q>> \in Seq(T)
    BY <2>1
  <2>. QED  BY <2>2, <2>3
<1>5. /\ <<Mark("colon")>> \in Seq(T) /\ <<Mark("comma")>> \in Seq(T)
      /\ <<Mark("lbrace")>> \in Seq(T) /\ <<Mark("rbrace")>> \in Seq(T)
      /\ <<Mark("lbracket")>> \in Seq(T) /\ <<Mark("rbracket")>> \in Seq(T)
  BY <1>3 DEF Marks
<1>6. \A w \in T, v \in Seq(T) : Field(w, v) \in Seq(T)
  <2>. TAKE w \in T, v \in Seq(T)
  <2>1. Quoted(w) \o <<Mark("colon")>> \in Seq(T)
    BY <1>2, <1>4, <1>5, Zenon
  <2>2. (Quoted(w) \o <<Mark("colon")>>) \o v \in Seq(T)
    BY <1>2, <2>1, Zenon
  <2>3. Field(w, v) = (Quoted(w) \o <<Mark("colon")>>) \o v
    BY DEF Field
  <2>. QED  BY <2>2, <2>3, Zenon
<1>7. \A f \in Seq(T) : Braces(f) \in Seq(T) /\ Brackets(f) \in Seq(T)
  <2>. TAKE f \in Seq(T)
  <2>1. <<Mark("lbrace")>> \o f \in Seq(T) /\ <<Mark("lbracket")>> \o f \in Seq(T)
    BY <1>2, <1>5, Zenon
  <2>2. /\ (<<Mark("lbrace")>> \o f) \o <<Mark("rbrace")>> \in Seq(T)
        /\ (<<Mark("lbracket")>> \o f) \o <<Mark("rbracket")>> \in Seq(T)
    BY <1>2, <1>5, <2>1, Zenon
  <2>3. /\ Braces(f) = (<<Mark("lbrace")>> \o f) \o <<Mark("rbrace")>>
        /\ Brackets(f) = (<<Mark("lbracket")>> \o f) \o <<Mark("rbracket")>>
    BY DEF Braces, Brackets
  <2>. QED  BY <2>2, <2>3, Zenon
<1>. QED  BY <1>1, <1>2, <1>4, <1>5, <1>6, <1>7, Zenon DEF Also

\* Texts that do not name the permissions are made of texts that do not.
LEMMA UnnamedSpelled ==
  /\ Also \in Seq(Unnamed) /\ <<>> \in Seq(Unnamed)
  /\ \A t \in Unnamed : <<t>> \in Seq(Unnamed) /\ Quoted(t) \in Seq(Unnamed)
  /\ \A a \in Seq(Unnamed), b \in Seq(Unnamed) : a \o b \in Seq(Unnamed)
  /\ \A w \in Unnamed, v \in Seq(Unnamed) : Field(w, v) \in Seq(Unnamed)
  /\ \A f \in Seq(Unnamed) : Braces(f) \in Seq(Unnamed) /\ Brackets(f) \in Seq(Unnamed)
<1>1. Unnamed \subseteq Tokens
  BY DEF Unnamed
<1>2. \A k \in Marks : Mark(k) \in Unnamed
  <2>1. "devicePermissions" \notin Marks
    BY DEF Marks
  <2>. QED  BY <2>1, TokensTyped DEF Unnamed
<1>. QED  BY <1>1, <1>2, SpelledFrom, Zenon

\* No label but one names the permissions.
LEMMA UnnamedTokens ==
  \A id \in Labels, n \in Nat \ {0} :
    id # "devicePermissions" =>
      /\ Word(id, n) \in Unnamed
      /\ Quoted(Word(id, n)) \in Seq(Unnamed) /\ <<Number(id, n)>> \in Seq(Unnamed)
<1>. SUFFICES ASSUME NEW id \in Labels, NEW n \in Nat \ {0}, id # "devicePermissions"
              PROVE  /\ Word(id, n) \in Unnamed
                     /\ Quoted(Word(id, n)) \in Seq(Unnamed)
                     /\ <<Number(id, n)>> \in Seq(Unnamed)
  OBVIOUS
<1>1. Word(id, n) \in Unnamed /\ Number(id, n) \in Unnamed
  BY TokensTyped DEF Unnamed
<1>. QED  BY <1>1, UnnamedSpelled

\* Where the permissions are named in a text, their first door follows.
OneDoor(text) ==
  /\ text \in Texts
  /\ \A i \in 1..Len(text) : text[i].id = "devicePermissions" =>
       i + 5 \in 1..Len(text) /\ text[i + 5].id = "door1"

\* A text that does not name the permissions shows no door.
LEMMA UnnamedOneDoor ==
  ASSUME NEW text \in Seq(Unnamed)
  PROVE  OneDoor(text)
BY DEF OneDoor, Texts, Unnamed

\* Texts that show only the first door do so joined.
LEMMA OneDoorJoined ==
  ASSUME NEW a, NEW b, OneDoor(a), OneDoor(b)
  PROVE  OneDoor(a \o b)
<1>. DEFINE ab == a \o b
<1>1. /\ ab \in Texts /\ Len(ab) = Len(a) + Len(b) /\ Len(a) \in Nat /\ Len(b) \in Nat
      /\ \A i \in 1..Len(a) : ab[i] = a[i]
      /\ \A i \in 1..Len(b) : ab[Len(a) + i] = b[i]
  BY Joined DEF OneDoor
<1>. HIDE DEF ab
<1>2. ASSUME NEW i \in 1..Len(ab), ab[i].id = "devicePermissions"
      PROVE  i + 5 \in 1..Len(ab) /\ ab[i + 5].id = "door1"
  <2>1. CASE i <= Len(a)
    <3>1. i \in 1..Len(a) /\ a[i].id = "devicePermissions"
      BY <1>1, <1>2, <2>1
    <3>2. i + 5 \in 1..Len(a) /\ a[i + 5].id = "door1"
      BY <3>1 DEF OneDoor
    <3>. QED  BY <1>1, <3>2
  <2>2. CASE ~(i <= Len(a))
    <3>. DEFINE j == i - Len(a)
    <3>1. j \in 1..Len(b) /\ Len(a) + j = i
      BY <1>1, <2>2
    <3>2. b[j].id = "devicePermissions"
      BY <1>1, <1>2, <3>1
    <3>3. j + 5 \in 1..Len(b) /\ b[j + 5].id = "door1"
      BY <3>1, <3>2 DEF OneDoor
    <3>4. Len(a) + (j + 5) = i + 5 /\ i + 5 \in 1..Len(ab)
      BY <1>1, <3>1, <3>3
    <3>5. ab[i + 5] = b[j + 5]
      BY <1>1, <3>3, <3>4
    <3>. QED  BY <3>3, <3>4, <3>5
  <2>. QED  BY <2>1, <2>2
<1>. QED  BY <1>1, <1>2 DEF OneDoor, ab

\* The first door stands five tokens behind the name of the permissions.
LEMMA PermissionsOneDoor == OneDoor(Permissions)
<1>. DEFINE w == Word("door1", 8)
            e == Braces(<<>>)
            f1 == Field(w, e)
            f2 == Field(Word("door2", 8), e)
            f == (f1 \o Also) \o f2
            v == Braces(f)
            p == Permissions
<1>1. /\ w \in Tokens /\ w.id = "door1"
      /\ e \in Seq(Unnamed) /\ f1 \in Seq(Unnamed) /\ f2 \in Seq(Unnamed)
  <2>1. /\ "door1" \in Labels /\ "door2" \in Labels /\ 8 \in Nat \ {0}
        /\ "door1" # "devicePermissions" /\ "door2" # "devicePermissions"
    BY DEF Labels
  <2>2. w \in Unnamed /\ Word("door2", 8) \in Unnamed /\ w \in Tokens /\ w.id = "door1"
    BY <2>1, UnnamedTokens, TokensTyped
  <2>3. e \in Seq(Unnamed)
    BY UnnamedSpelled, Zenon
  <2>. QED  BY <2>2, <2>3, UnnamedSpelled, Zenon
<1>2. f \in Seq(Unnamed) /\ v \in Seq(Unnamed)
  <2>1. f1 \o Also \in Seq(Unnamed)
    BY <1>1, UnnamedSpelled, Zenon
  <2>2. f \in Seq(Unnamed)
    BY <1>1, <2>1, UnnamedSpelled, Zenon
  <2>. QED  BY <2>2, UnnamedSpelled, Zenon
<1>3. \A x \in Seq(Unnamed) : x \in Texts
  BY DEF Unnamed, Texts
<1>4. f1[2] = w /\ 4 <= Len(f1) /\ Len(f1) \in Nat
  <2>1. Len(e) \in Nat /\ Long(e, Len(e))
    BY <1>1, <1>3, Textual
  <2>2. Long(f1, 4 + Len(e)) /\ f1[2] = w
    BY <1>1, <2>1, FieldTyped
  <2>3. Len(f1) \in Nat
    BY <1>1, <1>3, Textual
  <2>. HIDE DEF f1, e, w
  <2>. QED  BY <2>1, <2>2, <2>3 DEF Long
<1>5. f[2] = w /\ 4 <= Len(f) /\ Len(f) \in Nat
  <2>1. f1 \in Texts /\ Also \in Texts /\ f2 \in Texts /\ f1 \o Also \in Texts
    BY <1>1, <1>3, UnnamedSpelled
  <2>. HIDE DEF f1, f2, w
  <2>2. /\ (f1 \o Also)[2] = w /\ 4 <= Len(f1 \o Also) /\ Len(f1 \o Also) \in Nat
    <3>1. 2 \in 1..Len(f1)
      BY <1>4
    <3>2. Len(f1 \o Also) = Len(f1) + Len(Also) /\ Len(Also) \in Nat
          /\ (f1 \o Also)[2] = f1[2]
      BY <2>1, <3>1, Joined
    <3>. DEFINE n == Len(f1 \o Also)
    <3>3. n = Len(f1) + Len(Also)
      BY <3>2
    <3>. HIDE DEF n
    <3>4. 4 <= n /\ n \in Nat
      BY <1>4, <3>2, <3>3
    <3>. QED  BY <1>4, <3>2, <3>4 DEF n
  <2>. DEFINE g == f1 \o Also
  <2>3. g \in Texts /\ g[2] = w /\ 4 <= Len(g) /\ Len(g) \in Nat
    BY <2>1, <2>2
  <2>. HIDE DEF g
  <2>4. /\ Len(g \o f2) = Len(g) + Len(f2) /\ Len(f2) \in Nat
        /\ (g \o f2)[2] = g[2]
    <3>1. 2 \in 1..Len(g)
      BY <2>3
    <3>. QED  BY <2>1, <2>3, <3>1, Joined
  <2>5. f = g \o f2
    BY DEF g
  <2>. HIDE DEF f
  <2>6. Len(f) = Len(g) + Len(f2) /\ f[2] = g[2]
    BY <2>4, <2>5, Zenon
  <2>. QED  BY <2>3, <2>4, <2>6
<1>. HIDE DEF f, f1, f2, e
<1>6. v \in Texts /\ v[3] = w /\ 6 <= Len(v) /\ Len(v) \in Nat
  <2>1. Long(f, Len(f))
    BY <1>2, <1>3, Textual
  <2>2. 3 \in 2..(Len(f) + 1) /\ 3 - 1 = 2
    BY <1>5
  <2>3. Long(v, Len(f) + 2) /\ v[3] = f[3 - 1]
    BY <1>5, <2>1, <2>2, BracesTyped
  <2>4. v \in Texts /\ Len(v) \in Nat
    BY <1>2, <1>3, Textual
  <2>. HIDE DEF v, w
  <2>. QED  BY <1>5, <2>2, <2>3, <2>4 DEF Long
<1>7. p = Field(Doors, v)
  BY DEF Permissions, Doors, f, f1, f2, e
<1>. HIDE DEF v, p
<1>8. /\ p \in Texts /\ Len(p) \in Nat /\ 4 + Len(v) <= Len(p) /\ Len(p) <= 4 + Len(v)
      /\ p[1] = Q /\ p[2] = Doors /\ p[3] = Q /\ p[4] = Mark("colon")
      /\ \A i \in 5..(4 + Len(v)) : p[i] = v[i - 4]
  <2>1. Doors \in Tokens
    BY KnownBegin
  <2>2. Long(v, Len(v))
    BY <1>6, Textual
  <2>3. /\ Long(p, 4 + Len(v))
        /\ p[1] = Q /\ p[2] = Doors /\ p[3] = Q /\ p[4] = Mark("colon")
        /\ \A i \in 5..(4 + Len(v)) : p[i] = v[i - 4]
    BY <1>6, <1>7, <2>1, <2>2, FieldTyped, SMTT(30)
  <2>4. p \in Texts
    BY <2>3 DEF Long
  <2>. QED  BY <2>3, <2>4, Textual DEF Long
<1>9. ASSUME NEW i \in 1..Len(p), p[i].id = "devicePermissions"
      PROVE  i + 5 \in 1..Len(p) /\ p[i + 5].id = "door1"
  <2>1. i = 1 \/ i = 2 \/ i = 3 \/ i = 4 \/ i \in 5..(4 + Len(v))
    BY <1>6, <1>8
  <2>2. i # 1 /\ i # 3 /\ i # 4
    <3>1. Q.id # "devicePermissions" /\ Mark("colon").id # "devicePermissions"
      BY Facts, TokensTyped DEF Marks
    <3>. QED  BY <1>8, <1>9, <3>1
  <2>3. i \notin 5..(4 + Len(v))
    <3>1. ASSUME i \in 5..(4 + Len(v)) PROVE FALSE
      <4>1. i - 4 \in 1..Len(v) /\ p[i] = v[i - 4]
        BY <1>6, <1>8, <3>1
      <4>2. v[i - 4] \in Unnamed
        BY <1>2, <4>1 DEF v
      <4>. QED  BY <1>9, <4>1, <4>2 DEF Unnamed
    <3>. QED  BY <3>1
  <2>4. i = 2
    BY <2>1, <2>2, <2>3
  <2>5. 7 \in 5..(4 + Len(v)) /\ 7 \in 1..Len(p) /\ 7 - 4 = 3 /\ i + 5 = 7
    BY <1>6, <1>8, <2>4
  <2>6. p[7] = v[3]
    BY <1>8, <2>5
  <2>. QED  BY <1>1, <1>6, <2>5, <2>6
<1>. QED  BY <1>8, <1>9 DEF OneDoor, p

\* Whatever the data, they show the first door only.
LEMMA DatasOneDoor ==
  ASSUME NEW d \in Datas
  PROVE  OneDoor(d)
<1>1. /\ \A f \in Fields("name1", "value1") : f \in Seq(Unnamed)
      /\ \A f \in Fields("name2", "value2") : f \in Seq(Unnamed)
  <2>. SUFFICES ASSUME NEW name \in {"name1", "name2"}, NEW value \in {"value1", "value2"},
                       NEW f \in Fields(name, value)
                PROVE  f \in Seq(Unnamed)
    BY Zenon
  <2>1. PICK w \in Names(name), v \in Scalars(value) :
          /\ f = Field(w, v) /\ w \in Tokens /\ w.id = name
          /\ \E t \in Tokens : t.id = value /\ (v = Quoted(t) \/ v = <<t>>)
    BY FieldsMade
  <2>2. PICK t \in Tokens : t.id = value /\ (v = Quoted(t) \/ v = <<t>>)
    BY <2>1
  <2>3. w \in Unnamed /\ t \in Unnamed
    BY <2>1, <2>2 DEF Unnamed
  <2>4. v \in Seq(Unnamed)
    BY <2>2, <2>3, UnnamedSpelled, Zenon
  <2>. QED  BY <2>1, <2>3, <2>4, UnnamedSpelled, Zenon
<1>2. KeyField \in Seq(Unnamed) /\ ExpiryField \in Seq(Unnamed)
  <2>1. /\ "key" \in Labels /\ "sessionKey" \in Labels /\ "expiresIn" \in Labels
        /\ "expiry" \in Labels /\ {3, 9, 12} \subseteq Nat \ {0}
    BY DEF Labels
  <2>2. /\ Word("key", 3) \in Unnamed /\ Quoted(Word("sessionKey", 12)) \in Seq(Unnamed)
        /\ Word("expiresIn", 9) \in Unnamed /\ <<Number("expiry", 3)>> \in Seq(Unnamed)
    BY <2>1, UnnamedTokens
  <2>. QED  BY <2>2, UnnamedSpelled, Zenon DEF KeyField, ExpiryField, SessionKey
<1>. DEFINE l == <<Mark("lbrace")>>
            r == <<Mark("rbrace")>>
<1>3. OneDoor(Permissions) /\ OneDoor(KeyField) /\ OneDoor(ExpiryField) /\ OneDoor(Also)
      /\ OneDoor(l) /\ OneDoor(r)
  <2>1. l \in Seq(Unnamed) /\ r \in Seq(Unnamed)
    <3>1. Mark("lbrace") \in Unnamed /\ Mark("rbrace") \in Unnamed
      BY TokensTyped DEF Unnamed, Marks
    <3>. QED  BY <3>1, UnnamedSpelled, Zenon
  <2>. QED  BY <1>2, <2>1, PermissionsOneDoor, UnnamedOneDoor, UnnamedSpelled, Zenon
<1>4. ASSUME NEW f, OneDoor(f)
      PROVE  OneDoor(Braces(f))
  <2>1. Braces(f) = (l \o f) \o r
    BY DEF Braces
  <2>2. OneDoor(l \o f)
    BY <1>3, <1>4, OneDoorJoined, Zenon
  <2>. QED  BY <1>3, <2>1, <2>2, OneDoorJoined, Zenon
<1>. HIDE DEF l, r
<1>5. CASE d \in Seq(Unnamed)
  BY <1>5, UnnamedOneDoor
<1>6. CASE d \in Objects
  <2>1. \/ \E f \in Fields("name1", "value1") : d = Braces(f)
        \/ \E f \in Fields("name1", "value1"), g \in Fields("name2", "value2") :
             d = Braces((f \o Also) \o g)
    BY <1>6 DEF Objects
  <2>2. CASE \E f \in Fields("name1", "value1") : d = Braces(f)
    BY <1>1, <1>5, <2>2, UnnamedSpelled, Zenon
  <2>3. CASE \E f \in Fields("name1", "value1"), g \in Fields("name2", "value2") :
               d = Braces((f \o Also) \o g)
    <3>1. PICK f \in Fields("name1", "value1"), g \in Fields("name2", "value2") :
                 d = Braces((f \o Also) \o g)
      BY <2>3, Zenon
    <3>2. f \o Also \in Seq(Unnamed)
      BY <1>1, UnnamedSpelled, Zenon
    <3>3. (f \o Also) \o g \in Seq(Unnamed)
      BY <1>1, <3>2, UnnamedSpelled, Zenon
    <3>4. d \in Seq(Unnamed)
      BY <3>1, <3>3, UnnamedSpelled, Zenon
    <3>. QED  BY <1>5, <3>4
  <2>. QED  BY <2>1, <2>2, <2>3, Zenon
<1>7. CASE d \in Lists
  <2>1. PICK f \in Fields("name1", "value1"), g \in Fields("name2", "value2") :
               d = Brackets((Braces(f) \o Also) \o Braces(g))
    BY <1>7 DEF Lists
  <2>2. Braces(f) \in Seq(Unnamed) /\ Braces(g) \in Seq(Unnamed)
    BY <1>1, UnnamedSpelled, Zenon
  <2>3. Braces(f) \o Also \in Seq(Unnamed)
    BY <2>2, UnnamedSpelled, Zenon
  <2>4. (Braces(f) \o Also) \o Braces(g) \in Seq(Unnamed)
    BY <2>2, <2>3, UnnamedSpelled, Zenon
  <2>5. d \in Seq(Unnamed)
    BY <2>1, <2>4, UnnamedSpelled, Zenon
  <2>. QED  BY <1>5, <2>5
<1>8. CASE d \in Strings
  <2>1. PICK n \in StringLengths : d = Quoted(Word("value1", n))
    BY <1>8 DEF Strings
  <2>2. "value1" \in Labels /\ n \in Nat \ {0}
    BY LabelsTyped DEF Labels
  <2>3. d \in Seq(Unnamed)
    BY <2>1, <2>2, UnnamedTokens
  <2>. QED  BY <1>5, <2>3
<1>9. CASE d = Null
  <2>1. "null" \in Labels /\ 4 \in Nat \ {0}
    BY DEF Labels
  <2>2. d \in Seq(Unnamed)
    BY <1>9, <2>1, UnnamedTokens DEF Null
  <2>. QED  BY <1>5, <2>2
<1>10. /\ OneDoor((ExpiryField \o Also) \o KeyField)
       /\ OneDoor((KeyField \o Also) \o ExpiryField)
       /\ OneDoor((((Permissions \o Also) \o ExpiryField) \o Also) \o KeyField)
       /\ OneDoor((((ExpiryField \o Also) \o KeyField) \o Also) \o Permissions)
  <2>1. /\ OneDoor(ExpiryField \o Also) /\ OneDoor(KeyField \o Also)
        /\ OneDoor(Permissions \o Also)
    BY <1>3, OneDoorJoined, Zenon
  <2>2. /\ OneDoor((ExpiryField \o Also) \o KeyField)
        /\ OneDoor((KeyField \o Also) \o ExpiryField)
        /\ OneDoor((Permissions \o Also) \o ExpiryField)
    BY <1>3, <2>1, OneDoorJoined, Zenon
  <2>3. /\ OneDoor(((Permissions \o Also) \o ExpiryField) \o Also)
        /\ OneDoor(((ExpiryField \o Also) \o KeyField) \o Also)
    BY <1>3, <2>2, OneDoorJoined, Zenon
  <2>. QED  BY <1>3, <2>2, <2>3, OneDoorJoined, Zenon
<1>11. CASE d \in {ExpiryFirst, KeyFirst, DoorsFirst, DoorsLater}
  <2>1. /\ ExpiryFirst = Braces((ExpiryField \o Also) \o KeyField)
        /\ KeyFirst = Braces((KeyField \o Also) \o ExpiryField)
        /\ DoorsFirst = Braces((((Permissions \o Also) \o ExpiryField) \o Also) \o KeyField)
        /\ DoorsLater = Braces((((ExpiryField \o Also) \o KeyField) \o Also) \o Permissions)
    BY DEF ExpiryFirst, KeyFirst, DoorsFirst, DoorsLater
  <2>2. /\ OneDoor(ExpiryFirst) /\ OneDoor(KeyFirst)
        /\ OneDoor(DoorsFirst) /\ OneDoor(DoorsLater)
    BY <1>4, <1>10, <2>1, Zenon
  <2>. QED  BY <1>11, <2>2
<1>. QED  BY <1>6, <1>7, <1>8, <1>9, <1>11 DEF Datas

\* The envelope does not name the permissions.
LEMMA EnvelopeUnnamed == DataPrefix \in Seq(Unnamed) /\ DataSuffix \in Seq(Unnamed)
<1>. DEFINE l == <<Mark("lbrace")>>
            r == <<Mark("rbrace")>>
            c == <<Mark("colon")>>
            n == <<Number("0", 1)>>
            f1 == Field(Word("appTimeout", 10), n)
            f2 == Field(Word("errorCode", 9), n)
            f3 == Field(Word("state", 5), n)
            q == Quoted(Word("data", 4))
<1>1. l \in Seq(Unnamed) /\ r \in Seq(Unnamed) /\ c \in Seq(Unnamed)
  <2>1. "lbrace" \in Marks /\ "rbrace" \in Marks /\ "colon" \in Marks
        /\ "devicePermissions" \notin Marks
    BY DEF Marks
  <2>2. Mark("lbrace") \in Unnamed /\ Mark("rbrace") \in Unnamed /\ Mark("colon") \in Unnamed
    BY <2>1, TokensTyped DEF Unnamed
  <2>. QED  BY <2>2, UnnamedSpelled, Zenon
<1>2. /\ f1 \in Seq(Unnamed) /\ f2 \in Seq(Unnamed) /\ f3 \in Seq(Unnamed)
      /\ q \in Seq(Unnamed)
  <2>1. /\ "appTimeout" \in Labels /\ "errorCode" \in Labels /\ "state" \in Labels
        /\ "0" \in Labels /\ "data" \in Labels /\ {1, 4, 5, 9, 10} \subseteq Nat \ {0}
    BY DEF Labels
  <2>2. /\ Word("appTimeout", 10) \in Unnamed /\ Word("errorCode", 9) \in Unnamed
        /\ Word("state", 5) \in Unnamed /\ n \in Seq(Unnamed) /\ q \in Seq(Unnamed)
    BY <2>1, UnnamedTokens
  <2>. QED  BY <2>2, UnnamedSpelled, Zenon
<1>3. DataPrefix = (l \o q) \o c
  BY DEF DataPrefix
<1>4. DataSuffix = ((Also \o f1) \o Also) \o (((f2 \o Also) \o f3) \o r)
  BY Zenon DEF DataSuffix, Ending
<1>. HIDE DEF l, r, c, f1, f2, f3, q
<1>5. /\ l \o q \in Seq(Unnamed) /\ Also \o f1 \in Seq(Unnamed)
      /\ f2 \o Also \in Seq(Unnamed)
  BY <1>1, <1>2, UnnamedSpelled, Zenon
<1>6. /\ (l \o q) \o c \in Seq(Unnamed) /\ (Also \o f1) \o Also \in Seq(Unnamed)
      /\ (f2 \o Also) \o f3 \in Seq(Unnamed)
  BY <1>1, <1>2, <1>5, UnnamedSpelled, Zenon
<1>7. ((f2 \o Also) \o f3) \o r \in Seq(Unnamed)
  BY <1>1, <1>6, UnnamedSpelled, Zenon
<1>8. ((Also \o f1) \o Also) \o (((f2 \o Also) \o f3) \o r) \in Seq(Unnamed)
  BY <1>6, <1>7, UnnamedSpelled, Zenon
<1>. QED  BY <1>3, <1>4, <1>6, <1>8, Zenon

\* Behind the lost block as well, the permissions show their first door only.
LEMMA DoorsExtracted ==
  ASSUME NEW d \in Datas
  PROVE  ExtractDoors(DecryptPairingReply(Plaintext(d))) \subseteq {"door1"}
<1>. DEFINE p == Plaintext(d)
            x == DecryptPairingReply(p)
<1>1. OneDoor(p)
  <2>1. DataPrefix \in Seq(Unnamed) /\ DataSuffix \in Seq(Unnamed)
    BY EnvelopeUnnamed
  <2>2. OneDoor(DataPrefix) /\ OneDoor(DataSuffix)
    BY <2>1, UnnamedOneDoor
  <2>3. OneDoor(DataPrefix \o d)
    BY <2>2, DatasOneDoor, OneDoorJoined, Zenon
  <2>4. OneDoor((DataPrefix \o d) \o DataSuffix)
    BY <2>2, <2>3, OneDoorJoined, Zenon
  <2>5. p = (DataPrefix \o d) \o DataSuffix
    BY DEF Plaintext
  <2>. HIDE DEF p
  <2>. QED  BY <2>4, <2>5, Zenon
<1>2. PICK k : IsCut(p, k)
  <2>1. d \in Texts
    BY DatasTyped
  <2>. QED  BY <2>1, BodyCut
<1>3. x = Remains(p, k) /\ p \in Texts
  BY <1>1, <1>2, Decrypted DEF OneDoor
<1>. HIDE DEF p, x
<1>4. /\ x \in Texts /\ Len(x) = Len(p) - k + 1 /\ Len(p) \in Nat /\ k \in 1..Len(p)
      /\ \A i \in 1..Len(x) : x[i].id = p[k + i - 1].id
  <2>1. /\ Remains(p, k) \in Texts
        /\ Len(Remains(p, k)) = Len(p) - k + 1
        /\ Remains(p, k)[1].id = p[k].id
        /\ \A i \in 2..(Len(p) - k + 1) : Remains(p, k)[i] = p[k + i - 1]
    BY <1>2, <1>3, TailTyped
  <2>2. Len(p) \in Nat /\ k \in 1..Len(p)
    BY <1>2, <1>3, Textual DEF IsCut
  <2>3. /\ x \in Texts /\ Len(x) = Len(p) - k + 1
        /\ x[1].id = p[k].id
        /\ \A i \in 2..(Len(p) - k + 1) : x[i] = p[k + i - 1]
    BY <1>3, <2>1
  <2>4. \A i \in 1..Len(x) : i = 1 \/ i \in 2..(Len(p) - k + 1)
    BY <2>2, <2>3
  <2>5. k + 1 - 1 = k
    BY <2>2
  <2>6. \A i \in 1..Len(x) : x[i].id = p[k + i - 1].id
    <3>. TAKE i \in 1..Len(x)
    <3>. QED  BY <2>3, <2>4, <2>5
  <2>. QED  BY <2>2, <2>3, <2>6
<1>5. ASSUME NEW i \in Matched(x, Doors)
      PROVE  x[i + 6].id = "door1"
  <2>1. i \in 1..Len(x) - 4 /\ SubSeq(x, i, i + 3) = Quoted(Doors) \o <<Mark("colon")>>
    BY DEF Matched
  <2>2. (Quoted(Doors) \o <<Mark("colon")>>)[2] = Doors
    <3>1. Long(Quoted(Doors), 3) /\ Quoted(Doors)[2] = Doors
      BY KnownBegin, QuotedTyped
    <3>2. Long(<<Mark("colon")>>, 1)
      <4>1. Mark("colon") \in Tokens
        BY TokensTyped DEF Marks
      <4>. QED  BY <4>1, Single
    <3>. DEFINE q == Quoted(Doors)
                c == <<Mark("colon")>>
    <3>3. Long(q, 3) /\ Long(c, 1) /\ q[2] = Doors /\ 3 \in Nat /\ 1 \in Nat /\ 2 \in 1..3
      BY <3>1, <3>2
    <3>. HIDE DEF q, c
    <3>4. q \in Texts /\ c \in Texts /\ 2 \in 1..Len(q)
      BY <3>3, Textual DEF Long
    <3>5. (q \o c)[2] = q[2]
      BY <3>4, Joined
    <3>. QED  BY <3>3, <3>5 DEF q, c
  <2>3. SubSeq(x, i, i + 3)[2] = x[i + 1]
    <3>. DEFINE m == i + 3
    <3>1. x \in Seq(Tokens) /\ i \in 1..Len(x) /\ m \in 1..Len(x) /\ i + 3 <= m
          /\ Len(x) \in Nat
      BY <1>4, <2>1, Textual DEF Texts
    <3>. HIDE DEF m
    <3>2. SubSeq(x, i, m)[2] = x[i + 1]
      BY <3>1
    <3>. QED  BY <3>2 DEF m
  <2>4. x[i + 1] = Doors
    BY <2>1, <2>2, <2>3, Zenon
  <2>5. i + 1 \in 1..Len(x) /\ i \in Nat
    BY <1>4, <2>1
  <2>. DEFINE j == k + i
  <2>6. j \in 1..Len(p) /\ p[j].id = "devicePermissions"
    <3>1. k + (i + 1) - 1 = j /\ j \in 1..Len(p)
      BY <1>4, <2>5
    <3>2. x[i + 1].id = p[k + (i + 1) - 1].id
      BY <1>4, <2>5
    <3>. QED  BY <2>4, <3>1, <3>2, KnownBegin
  <2>7. j + 5 \in 1..Len(p) /\ p[j + 5].id = "door1"
    BY <1>1, <2>6 DEF OneDoor
  <2>8. i + 6 \in 1..Len(x) /\ k + (i + 6) - 1 = j + 5
    BY <1>4, <2>5, <2>7
  <2>9. x[i + 6].id = p[k + (i + 6) - 1].id
    BY <1>4, <2>8
  <2>. QED  BY <2>7, <2>8, <2>9
<1>6. ExtractDoors(x) = {x[i + 6].id : i \in Matched(x, Doors)}
  BY DEF ExtractDoors, Doors
<1>7. ExtractDoors(x) \subseteq {"door1"}
  BY <1>5, <1>6
<1>. QED  BY <1>7 DEF x, p

\* Permissions that are not the first field show their first door.
LEMMA DoorsShown == "door1" \in ExtractDoors(DecryptPairingReply(Plaintext(DoorsLater)))
<1>. DEFINE E == ExpiryField
            P == Permissions
            K == KeyField
            l == <<Mark("lbrace")>>
            r == <<Mark("rbrace")>>
            h == ((E \o Also) \o K) \o Also
            a == DataPrefix \o (l \o h)
            p == Plaintext(DoorsLater)
            x == DecryptPairingReply(p)
<1>1. /\ E \in Texts /\ P \in Texts /\ K \in Texts /\ Also \in Texts
      /\ l \in Texts /\ r \in Texts /\ DataPrefix \in Texts /\ DataSuffix \in Texts
      /\ Len(l) = 1 /\ Len(Also) = 1
  BY KnownBegin, MarksTyped, SuffixTyped DEF Marks, Also
<1>2. /\ P[1] = Q /\ P[2] = Doors /\ P[3] = Q /\ P[4] = Mark("colon")
      /\ 6 <= Len(P) /\ 5 <= Len(E) /\ 5 <= Len(K)
  <2>1. /\ Doors \in Tokens /\ Expiry \in Tokens /\ Key \in Tokens
        /\ SessionKey \in Tokens /\ Number("expiry", 3) \in Tokens
    <3>1. "expiry" \in Labels /\ 3 \in Nat \ {0}
      BY DEF Labels
    <3>. QED  BY <3>1, KnownBegin, KeyTyped, TokensTyped
  <2>2. ASSUME NEW w \in Tokens, NEW v \in Texts
        PROVE  /\ Field(w, v)[1] = Q /\ Field(w, v)[2] = w
               /\ Field(w, v)[3] = Q /\ Field(w, v)[4] = Mark("colon")
               /\ Len(Field(w, v)) = 4 + Len(v) /\ Len(v) \in Nat
    <3>1. Long(v, Len(v)) /\ Len(v) \in Nat
      BY Textual
    <3>2. /\ Long(Field(w, v), 4 + Len(v))
          /\ Field(w, v)[1] = Q /\ Field(w, v)[2] = w
          /\ Field(w, v)[3] = Q /\ Field(w, v)[4] = Mark("colon")
      BY <3>1, FieldTyped
    <3>3. Len(Field(w, v)) \in Nat
      BY <3>2, Textual DEF Long
    <3>. QED  BY <3>1, <3>2, <3>3 DEF Long
  <2>. DEFINE m == Field(Word("door1", 8), Braces(<<>>)) \o Also \o
                   Field(Word("door2", 8), Braces(<<>>))
  <2>3. m \in Texts /\ Braces(m) \in Texts /\ 2 <= Len(Braces(m))
    <3>1. /\ Word("door1", 8) \in Tokens /\ Word("door2", 8) \in Tokens
      <4>1. "door1" \in Labels /\ "door2" \in Labels /\ 8 \in Nat \ {0}
        BY DEF Labels
      <4>. QED  BY <4>1, TokensTyped
    <3>2. Braces(<<>>) \in Texts
      <4>1. Long(<<>>, 0)
        BY DEF Long, Texts
      <4>2. Long(Braces(<<>>), 0 + 2)
        BY <4>1, BracesTyped
      <4>. QED  BY <4>2 DEF Long
    <3>3. /\ Field(Word("door1", 8), Braces(<<>>)) \in Texts
          /\ Field(Word("door2", 8), Braces(<<>>)) \in Texts
      BY <3>1, <3>2, FieldBegins
    <3>4. m \in Texts
      <4>1. Field(Word("door1", 8), Braces(<<>>)) \o Also \in Texts
        BY <1>1, <3>3, Joined, Zenon
      <4>. QED  BY <3>3, <4>1, Joined, Zenon
    <3>. HIDE DEF m
    <3>5. Long(m, Len(m)) /\ Len(m) \in Nat
      BY <3>4, Textual
    <3>6. Long(Braces(m), Len(m) + 2)
      BY <3>5, BracesTyped
    <3>. QED  BY <3>4, <3>5, <3>6, Textual DEF Long
  <2>4. P = Field(Doors, Braces(m))
    BY Zenon DEF Permissions, Doors
  <2>. HIDE DEF m
  <2>5. Quoted(SessionKey) \in Texts /\ 1 <= Len(Quoted(SessionKey))
    BY <2>1, QuotedTyped DEF Long
  <2>6. <<Number("expiry", 3)>> \in Texts /\ 1 <= Len(<<Number("expiry", 3)>>)
    BY <2>1, Single DEF Long
  <2>7. E = Field(Expiry, <<Number("expiry", 3)>>) /\ K = Field(Key, Quoted(SessionKey))
    BY Zenon DEF ExpiryField, KeyField, Expiry, Key
  <2>8. 5 <= Len(E) /\ 5 <= Len(K)
    <3>1. /\ Len(E) = 4 + Len(<<Number("expiry", 3)>>)
          /\ Len(K) = 4 + Len(Quoted(SessionKey))
          /\ Len(<<Number("expiry", 3)>>) \in Nat /\ Len(Quoted(SessionKey)) \in Nat
      BY <2>1, <2>2, <2>5, <2>6, <2>7, Zenon
    <3>. QED  BY <2>5, <2>6, <3>1
  <2>9. /\ P[1] = Q /\ P[2] = Doors /\ P[3] = Q /\ P[4] = Mark("colon")
        /\ Len(P) = 4 + Len(Braces(m)) /\ Len(Braces(m)) \in Nat
    BY <2>1, <2>2, <2>3, <2>4, Zenon
  <2>. QED  BY <2>3, <2>8, <2>9
<1>3. \E z \in Texts : p = a \o (P \o z)
  <2>. DEFINE f == h \o P
              d == (l \o f) \o r
  <2>1. DoorsLater = d
    BY Zenon DEF DoorsLater, Braces
  <2>. HIDE DEF E, P, K, l, r
  <2>2. h \in Texts
    <3>1. E \o Also \in Texts
      BY <1>1, Joined, Zenon
    <3>2. (E \o Also) \o K \in Texts
      BY <1>1, <3>1, Joined, Zenon
    <3>. QED  BY <1>1, <3>2, Joined, Zenon
  <2>. HIDE DEF h
  <2>3. Parted(f, h, P, <<>>)
    <3>1. P \o <<>> = P /\ <<>> \in Texts
      BY <1>1 DEF Texts
    <3>. QED  BY <1>1, <2>2, <3>1, Zenon DEF Parted
  <2>. HIDE DEF f
  <2>4. Parted(l \o f, l \o h, P, <<>>)
    BY <1>1, <2>3, PartedMore, Zenon
  <2>5. Parted(d, l \o h, P, <<>> \o r)
    BY <1>1, <2>4, PartedMore, Zenon
  <2>. HIDE DEF d
  <2>6. Parted(DataPrefix \o d, a, P, <<>> \o r)
    BY <1>1, <2>5, PartedMore, Zenon
  <2>7. Parted((DataPrefix \o d) \o DataSuffix, a, P, (<<>> \o r) \o DataSuffix)
    BY <1>1, <2>6, PartedMore, Zenon
  <2>8. p = (DataPrefix \o d) \o DataSuffix
    BY <2>1, Zenon DEF Plaintext
  <2>. HIDE DEF p, a
  <2>. QED  BY <2>7, <2>8, Zenon DEF Parted
<1>4. a \in Texts /\ Lost < Width(a)
  <2>. HIDE DEF E, P, K, l, r
  <2>1. E \o Also \in Texts /\ Len(E \o Also) = Len(E) + 1
    <3>1. E \o Also \in Texts /\ Len(E \o Also) = Len(E) + Len(Also)
      BY <1>1, Joined, Zenon
    <3>. QED  BY <1>1, <3>1, Zenon
  <2>. DEFINE u == E \o Also
  <2>2. u \in Texts /\ Len(u) = Len(E) + 1
    BY <2>1
  <2>. HIDE DEF u
  <2>3. u \o K \in Texts /\ Len(u \o K) = Len(E) + 1 + Len(K)
    <3>1. u \o K \in Texts /\ Len(u \o K) = Len(u) + Len(K)
      BY <1>1, <2>2, Joined, Zenon
    <3>. QED  BY <2>2, <3>1, Zenon
  <2>. DEFINE v == u \o K
  <2>4. v \in Texts /\ Len(v) = Len(E) + 1 + Len(K)
    BY <2>3
  <2>. HIDE DEF v
  <2>5. v \o Also \in Texts /\ Len(v \o Also) = Len(v) + 1
    <3>1. v \o Also \in Texts /\ Len(v \o Also) = Len(v) + Len(Also)
      BY <1>1, <2>4, Joined, Zenon
    <3>. QED  BY <1>1, <3>1, Zenon
  <2>6. h \in Texts /\ Len(h) = Len(E) + 1 + Len(K) + 1
    BY <2>4, <2>5 DEF v, u
  <2>. HIDE DEF h
  <2>7. l \o h \in Texts /\ Len(l \o h) = 1 + Len(h) /\ Len(h) \in Nat
    <3>1. /\ l \o h \in Texts /\ Len(l \o h) = Len(l) + Len(h)
          /\ Len(h) \in Nat
      BY <1>1, <2>6, Joined, Zenon
    <3>. QED  BY <1>1, <3>1, Zenon
  <2>. DEFINE t == l \o h
  <2>8. t \in Texts /\ 10 <= Len(t)
    <3>1. Len(E) \in Nat /\ Len(K) \in Nat
      BY <1>1, Textual
    <3>. QED  BY <1>2, <2>6, <2>7, <3>1
  <2>. HIDE DEF t
  <2>9. /\ DataPrefix \o t \in Texts /\ Width(t) \in Nat /\ Len(t) <= Width(t)
        /\ Width(DataPrefix \o t) = 8 + Width(t) /\ Len(t) \in Nat
    BY <1>1, <2>8, Joined, Widths, PrefixWidth
  <2>10. a = DataPrefix \o t
    BY DEF t
  <2>. HIDE DEF a
  <2>. QED  BY <2>8, <2>9, <2>10 DEF Lost
<1>. HIDE DEF E, K, l, r, h, a, P, p
<1>5. PICK z \in Texts : p = a \o (P \o z)
  BY <1>3
<1>. DEFINE b == P \o z
<1>6. b \in Texts /\ Len(b) = Len(P) + Len(z) /\ Len(P) \in Nat /\ Len(z) \in Nat
      /\ \A i \in 1..Len(P) : b[i] = P[i]
  BY <1>1, Joined
<1>. HIDE DEF b
<1>7. /\ p = a \o b /\ p \in Texts /\ Len(a) \in Nat
      /\ Len(p) = Len(a) + Len(b) /\ Ends(p)[Len(a)] = Width(a)
  <2>1. p = a \o b
    BY <1>5 DEF b
  <2>. QED  BY <1>4, <1>6, <2>1, Joined, Widths
<1>8. Len(a) \in 1..Len(p)
  <2>1. Width(a) # 0
    BY <1>4 DEF Lost
  <2>2. Len(a) # 0
    BY <1>7, <2>1, EndsRecursion, Textual
  <2>. QED  BY <1>6, <1>7, <2>2
<1>9. PICK k \in 1..Len(a) : IsCut(p, k)
  BY <1>4, <1>7, <1>8, CutExists
<1>10. x = Remains(p, k)
  BY <1>7, <1>9, Decrypted
<1>. HIDE DEF x
<1>11. PICK y \in Texts : Remains(p, k) = y \o b
  BY <1>4, <1>6, <1>7, <1>9, TailJoined
<1>12. /\ x = y \o b /\ x \in Texts /\ Len(x) = Len(y) + Len(b)
       /\ Len(y) \in Nat /\ Len(b) \in Nat
       /\ \A i \in 1..Len(b) : x[Len(y) + i] = b[i]
  <2>1. /\ y \o b \in Texts /\ Len(y \o b) = Len(y) + Len(b)
        /\ Len(y) \in Nat /\ Len(b) \in Nat
        /\ \A i \in 1..Len(b) : (y \o b)[Len(y) + i] = b[i]
    BY <1>6, <1>11, Joined, Zenon
  <2>2. x = y \o b
    BY <1>10, <1>11, Zenon
  <2>. QED  BY <2>1, <2>2, Zenon
<1>13. /\ x[Len(y) + 1] = Q /\ x[Len(y) + 2] = Doors
       /\ x[Len(y) + 3] = Q /\ x[Len(y) + 4] = Mark("colon")
       /\ Len(y) + 5 <= Len(x)
  <2>. HIDE DEF Q, Doors
  <2>1. 6 <= Len(P) /\ 6 <= Len(b)
    BY <1>2, <1>6
  <2>2. {1, 2, 3, 4} \subseteq 1..Len(P) /\ {1, 2, 3, 4} \subseteq 1..Len(b)
    BY <1>6, <1>12, <2>1
  <2>3. \A i \in {1, 2, 3, 4} : x[Len(y) + i] = P[i]
    BY <1>6, <1>12, <2>2, Zenon
  <2>4. Len(y) + 5 <= Len(x)
    BY <1>12, <2>1
  <2>. QED  BY <1>2, <2>3, <2>4, Zenon
<1>14. Len(y) + 1 \in Matched(x, Doors)
  BY <1>12, <1>13, MatchedAt, KnownBegin
<1>15. x[(Len(y) + 1) + 6].id \in ExtractDoors(x)
  BY <1>14 DEF ExtractDoors, Doors
<1>16. ExtractDoors(x) \subseteq {"door1"}
  <2>1. DoorsLater \in Datas
    BY DEF Datas
  <2>. QED  BY <2>1, DoorsExtracted DEF x, p
<1>. QED  BY <1>15, <1>16 DEF x, p
-----------------------------------------------------------------------------
(* The theorems: what holds of every reply holds in every state.           *)

\* Once there is a tail, it is what decryption left of the reply, and what was
\* decoded was decoded from it (Receive: one reply, decrypted and decoded once).
LEMMA AlwaysAnswered == Spec => []Answered
<1>1. Init => Answered
  BY DEF Init, Answered
<1>2. Answered /\ [Next]_vars => Answered'
  <2>1. ASSUME Answered, Receive PROVE Answered'
    BY <2>1 DEF Answered, Receive
  <2>2. ASSUME Answered, UNCHANGED vars PROVE Answered'
    BY <2>2 DEF Answered, vars
  <2>. QED  BY <2>1, <2>2 DEF Next, Done
<1>. QED  BY <1>1, <1>2, PTL DEF Spec

\* Whatever the data, and however long its names and values are, a reply that
\* the client has received tells it whether the command succeeded (_decode:
\* "still enough to tell a caller whether the command succeeded").
THEOREM ErrorCodeAlwaysSurvives == Spec => []ErrorCodeSurvives
<1>1. Answered => ErrorCodeSurvives
  <2>1. SUFFICES ASSUME Answered, tail # None
                 PROVE  HasField(decoded, Word("errorCode", 9))
    BY Zenon DEF ErrorCodeSurvives
  <2>2. /\ data \in Texts /\ tail = DecryptPairingReply(Plaintext(data))
        /\ decoded = Decode(tail)
    BY <2>1, DatasTyped DEF Answered
  <2>3. PICK y \in Texts : tail = y \o Ending
    BY <2>2, EndingStays
  <2>4. decoded = Decode(y \o Ending)
    BY <2>2, <2>3
  <2>. QED  BY <2>4, ErrorCodeDecoded DEF ErrorCode
<1>. QED  BY <1>1, AlwaysAnswered, PTL

\* However long the names and values are, data whose first name outlasts the
\* lost block comes back whole but for that name (repair_sdk_reply: "only the
\* first field's key name is lost"; the wrong guesses before the right one are
\* not JSON).
THEOREM LongNamesAlwaysRepaired == Spec => []LongNamesRepaired
<1>1. Answered => LongNamesRepaired
  <2>1. SUFFICES ASSUME Answered,
                        tail # None /\ data \in Objects \cup Lists \cup Strings
                 PROVE  LongNamesRepaired
    BY Zenon DEF LongNamesRepaired
  <2>. QED  BY <2>1, ObjectsRepaired, ListsRepaired, StringsRepaired
<1>. QED  BY <1>1, AlwaysAnswered, PTL

\* A reply to auth whose first field is not the key yields the session key:
\* the name of that field is long enough to outlast the lost block, and is all
\* that is lost (SdkClient._ensure_session looks up the key in what the guess
\* restored).
THEOREM SessionKeyAlwaysRecovered == Spec => []SessionKeyRecovered
<1>1. Answered => SessionKeyRecovered
  <2>1. SUFFICES ASSUME Answered,
                        tail # None /\ data \in {ExpiryFirst, DoorsFirst, DoorsLater}
                 PROVE  SessionKeyRecovered
    BY Zenon DEF SessionKeyRecovered
  <2>. QED  BY <2>1, KeyRecovered
<1>. QED  BY <1>1, AlwaysAnswered, PTL

\* What is left of an encrypted reply is never JSON by itself, whatever the data,
\* and shows the first of the hub's doors at most - and does show it if the
\* permissions are not the first field (_decode_pairing_reply and
\* _extract_session_key try json.loads on it before they fall back to patterns,
\* of which '"devicePermissions"\s*:\s*\{"([^"]+)"' finds one door).
THEOREM SealedAlwaysShowsOneDoor == Spec => []SealedShowsOneDoor
<1>1. Answered => SealedShowsOneDoor
  <2>1. SUFFICES ASSUME Answered, tail # None
                 PROVE  /\ ~IsJson(Lexemes(tail))
                        /\ ExtractDoors(tail) \subseteq {"door1"}
                        /\ data = DoorsLater => "door1" \in ExtractDoors(tail)
    BY Zenon DEF SealedShowsOneDoor
  <2>2. data \in Datas /\ tail = DecryptPairingReply(Plaintext(data))
    BY <2>1 DEF Answered
  <2>3. ~IsJson(Lexemes(tail))
    BY <2>2, DatasSealed, Zenon
  <2>4. ExtractDoors(tail) \subseteq {"door1"}
    BY <2>2, DoorsExtracted, Zenon
  <2>5. data = DoorsLater => "door1" \in ExtractDoors(tail)
    BY <2>2, DoorsShown, Zenon
  <2>. QED  BY <2>3, <2>4, <2>5
<1>. QED  BY <1>1, AlwaysAnswered, PTL
=============================================================================
