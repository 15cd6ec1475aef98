--------------------------- MODULE PersonasProofs ---------------------------
(***************************************************************************)
(* Proofs about Personas for queues and buffers of any size and any read   *)
(* timeout: what a handler has read and not answered, together with what   *)
(* it has still to read, is what its client is owed.                       *)
(***************************************************************************)
EXTENDS Personas, Integers, SequenceTheorems, TLAPS

----------------------------------------------------------------------------
(* The lines in a sequence of pieces. *)

\* d is what the lines that s ends say, in their order: f gives the place of each end.
Spells(d, s) ==
  \E f \in [1 .. Len(d) -> 1 .. Len(s)] :
    /\ \A i, j \in 1 .. Len(d) : i < j => f[i] < f[j]
    /\ \A i \in 1 .. Len(d) : d[i] = s[f[i]]
    /\ \A p \in 1 .. Len(s) : s[p] \in Ends <=> \E i \in 1 .. Len(d) : f[i] = p

\* A piece that ends no line spells nothing.
LEMMA SpellsPart ==
  ASSUME NEW d \in Seq(Ends), NEW s \in Seq(Piece), Spells(d, s)
  PROVE  Spells(d, Append(s, "part"))
<1> DEFINE t == Append(s, "part")
<1>1. PICK f \in [1 .. Len(d) -> 1 .. Len(s)] :
        /\ \A i, j \in 1 .. Len(d) : i < j => f[i] < f[j]
        /\ \A i \in 1 .. Len(d) : d[i] = s[f[i]]
        /\ \A p \in 1 .. Len(s) : s[p] \in Ends <=> \E i \in 1 .. Len(d) : f[i] = p
  BY DEF Spells
<1>2. /\ Len(s) \in Nat /\ Len(t) = Len(s) + 1 /\ t[Len(s) + 1] = "part"
      /\ \A p \in 1 .. Len(s) : t[p] = s[p]
  OBVIOUS
<1>3. "part" \notin Ends BY DEF Ends
<1> HIDE DEF t
<1>4. f \in [1 .. Len(d) -> 1 .. Len(t)] BY <1>1, <1>2
<1>5. \A i \in 1 .. Len(d) : f[i] \in 1 .. Len(s) /\ d[i] = t[f[i]] BY <1>1, <1>2
<1>6. \A p \in 1 .. Len(t) : t[p] \in Ends <=> \E i \in 1 .. Len(d) : f[i] = p
  <2> SUFFICES ASSUME NEW p \in 1 .. Len(t)
               PROVE  t[p] \in Ends <=> \E i \in 1 .. Len(d) : f[i] = p
    OBVIOUS
  <2>1. CASE p \in 1 .. Len(s) BY <1>1, <1>2, <2>1
  <2>2. CASE p = Len(s) + 1 BY <1>2, <1>3, <1>5, <2>2
  <2> QED BY <1>2, <2>1, <2>2
<1>7. Spells(d, t) BY <1>1, <1>4, <1>5, <1>6 DEF Spells
<1> QED BY <1>7 DEF t

\* The end of a line spells one more word.
LEMMA SpellsEnd ==
  ASSUME NEW d \in Seq(Ends), NEW s \in Seq(Piece), Spells(d, s), NEW x \in Ends
  PROVE  Spells(Append(d, x), Append(s, x))
<1> DEFINE t == Append(s, x)  e == Append(d, x)
<1>1. PICK f \in [1 .. Len(d) -> 1 .. Len(s)] :
        /\ \A i, j \in 1 .. Len(d) : i < j => f[i] < f[j]
        /\ \A i \in 1 .. Len(d) : d[i] = s[f[i]]
        /\ \A p \in 1 .. Len(s) : s[p] \in Ends <=> \E i \in 1 .. Len(d) : f[i] = p
  BY DEF Spells
<1>2. /\ Len(s) \in Nat /\ Len(t) = Len(s) + 1 /\ t[Len(s) + 1] = x
      /\ \A p \in 1 .. Len(s) : t[p] = s[p]
  BY DEF Piece
<1>3. /\ Len(d) \in Nat /\ Len(e) = Len(d) + 1 /\ e[Len(d) + 1] = x
      /\ \A i \in 1 .. Len(d) : e[i] = d[i]
  OBVIOUS
<1> HIDE DEF t, e
<1> DEFINE g == [i \in 1 .. Len(e) |-> IF i = Len(e) THEN Len(t) ELSE f[i]]
<1>4. /\ \A i \in 1 .. Len(d) : g[i] = f[i] /\ g[i] \in 1 .. Len(s)
      /\ g[Len(e)] = Len(t)
  <2>1. \A i \in 1 .. Len(d) : i \in 1 .. Len(e) /\ i # Len(e) BY <1>3
  <2>2. \A i \in 1 .. Len(d) : g[i] = f[i] BY <2>1
  <2>3. Len(e) \in 1 .. Len(e) BY <1>3
  <2> QED BY <1>1, <2>2, <2>3
<1>5. g \in [1 .. Len(e) -> 1 .. Len(t)]
  <2>1. Len(t) \in 1 .. Len(t) BY <1>2
  <2>2. \A i \in 1 .. Len(e) : i # Len(e) => i \in 1 .. Len(d) BY <1>3
  <2>3. \A i \in 1 .. Len(e) : i # Len(e) => f[i] \in 1 .. Len(t) BY <1>1, <1>2, <2>2
  <2> QED BY <2>1, <2>3
<1> HIDE DEF g
<1>6. \A i \in 1 .. Len(e) : i \in 1 .. Len(d) \/ i = Len(e) BY <1>3
<1>7. \A i, j \in 1 .. Len(e) : i < j => g[i] < g[j]
  <2> SUFFICES ASSUME NEW i \in 1 .. Len(e), NEW j \in 1 .. Len(e), i < j PROVE g[i] < g[j]
    OBVIOUS
  <2>1. i \in 1 .. Len(d) BY <1>3
  <2>2. CASE j \in 1 .. Len(d) BY <1>1, <1>4, <2>1, <2>2
  <2>3. CASE j = Len(e) BY <1>2, <1>4, <2>1, <2>3
  <2> QED BY <1>6, <2>2, <2>3
<1>8. \A i \in 1 .. Len(e) : e[i] = t[g[i]] BY <1>1, <1>2, <1>3, <1>4, <1>6
<1>9. \A p \in 1 .. Len(t) : t[p] \in Ends <=> \E i \in 1 .. Len(e) : g[i] = p
  <2> SUFFICES ASSUME NEW p \in 1 .. Len(t)
               PROVE  t[p] \in Ends <=> \E i \in 1 .. Len(e) : g[i] = p
    OBVIOUS
  <2>1. CASE p \in 1 .. Len(s)
    <3>1. t[p] \in Ends <=> \E i \in 1 .. Len(d) : g[i] = p BY <1>1, <1>2, <1>4, <2>1
    <3>2. g[Len(e)] # p BY <1>2, <1>4, <2>1
    <3> QED BY <1>3, <1>6, <3>1, <3>2
  <2>2. CASE p = Len(t) BY <1>2, <1>3, <1>4, <2>2
  <2> QED BY <1>2, <2>1, <2>2
<1>10. Spells(e, t) BY <1>5, <1>7, <1>8, <1>9 DEF Spells
<1> QED BY <1>10 DEF e, t

\* Input without an end spells nothing, and nothing else does.
LEMMA SpellsNone ==
  ASSUME NEW d \in Seq(Ends), NEW s \in Seq(Piece)
  PROVE  /\ LineEnds(s) = {} /\ Spells(d, s) => d = <<>>
         /\ LineEnds(s) # {} /\ Spells(d, s) => d # <<>>
         /\ LineEnds(s) = {} => Spells(<<>>, s)
<1>1. LineEnds(s) = {} /\ Spells(d, s) => d = <<>>
  <2> SUFFICES ASSUME LineEnds(s) = {}, Spells(d, s), d # <<>> PROVE FALSE OBVIOUS
  <2>1. 1 \in 1 .. Len(d) OBVIOUS
  <2>2. PICK f \in [1 .. Len(d) -> 1 .. Len(s)] :
          \A p \in 1 .. Len(s) : s[p] \in Ends <=> \E i \in 1 .. Len(d) : f[i] = p
    BY DEF Spells
  <2>3. f[1] \in 1 .. Len(s) /\ s[f[1]] \in Ends BY <2>1, <2>2
  <2> QED BY <2>3 DEF LineEnds
<1>2. LineEnds(s) # {} /\ Spells(d, s) => d # <<>>
  <2> SUFFICES ASSUME LineEnds(s) # {}, Spells(d, s), d = <<>> PROVE FALSE OBVIOUS
  <2>1. PICK p \in 1 .. Len(s) : s[p] \in Ends BY DEF LineEnds
  <2>2. \E i \in 1 .. Len(d) : TRUE BY <2>1 DEF Spells
  <2> QED BY <2>2
<1>3. LineEnds(s) = {} => Spells(<<>>, s)
  <2> SUFFICES ASSUME LineEnds(s) = {} PROVE Spells(<<>>, s) OBVIOUS
  <2>1. 1 .. Len(<<>>) = {} OBVIOUS
  <2> DEFINE f == [i \in {} |-> 0]
  <2>2. f \in [1 .. Len(<<>>) -> 1 .. Len(s)] BY <2>1
  <2>3. \A p \in 1 .. Len(s) : s[p] \notin Ends BY DEF LineEnds
  <2> HIDE DEF f
  <2> QED BY <2>1, <2>2, <2>3 DEF Spells
<1> QED BY <1>1, <1>2, <1>3

\* Cutting s behind the first end in it takes the first word.
LEMMA SpellsCut ==
  ASSUME NEW d \in Seq(Ends), NEW s \in Seq(Piece), Spells(d, s),
         NEW n \in LineEnds(s), \A k \in LineEnds(s) : n <= k
  PROVE  /\ d # <<>> /\ Head(d) = s[n]
         /\ Spells(Tail(d), SubSeq(s, n + 1, Len(s)))
<1> DEFINE t == SubSeq(s, n + 1, Len(s))  e == Tail(d)
<1>1. PICK f \in [1 .. Len(d) -> 1 .. Len(s)] :
        /\ \A i, j \in 1 .. Len(d) : i < j => f[i] < f[j]
        /\ \A i \in 1 .. Len(d) : d[i] = s[f[i]]
        /\ \A p \in 1 .. Len(s) : s[p] \in Ends <=> \E i \in 1 .. Len(d) : f[i] = p
  BY DEF Spells
<1>2. n \in 1 .. Len(s) /\ s[n] \in Ends /\ Len(s) \in Nat BY DEF LineEnds
<1>3. d # <<>> /\ Len(d) \in Nat \ {0} BY SpellsNone
<1>4. Len(e) = Len(d) - 1 /\ \A i \in 1 .. Len(e) : e[i] = d[i + 1] BY <1>3
<1>5. Len(t) = Len(s) - n /\ \A p \in 1 .. Len(t) : t[p] = s[p + n] BY <1>2
<1> HIDE DEF t, e
<1>6. \A i \in 1 .. Len(d) : f[i] \in LineEnds(s) BY <1>1 DEF LineEnds
<1>7. f[1] = n
  <2>1. PICK i \in 1 .. Len(d) : f[i] = n BY <1>1, <1>2
  <2>2. 1 \in 1 .. Len(d) /\ n <= f[1] /\ f[1] \in 1 .. Len(s) BY <1>1, <1>3, <1>6
  <2>3. i = 1 \/ f[1] < f[i] BY <1>1, <2>2
  <2> QED BY <1>2, <2>1, <2>2, <2>3
<1>8. Head(d) = s[n] BY <1>1, <1>3, <1>7
<1> DEFINE g == [i \in 1 .. Len(e) |-> f[i + 1] - n]
<1>9. \A i \in 1 .. Len(e) : /\ i + 1 \in 1 .. Len(d) /\ f[i + 1] \in 1 .. Len(s) /\ n < f[i + 1]
                             /\ g[i] \in Int /\ g[i] + n = f[i + 1]
  <2> SUFFICES ASSUME NEW i \in 1 .. Len(e)
               PROVE  /\ i + 1 \in 1 .. Len(d) /\ f[i + 1] \in 1 .. Len(s) /\ n < f[i + 1]
                      /\ g[i] \in Int /\ g[i] + n = f[i + 1]
    OBVIOUS
  <2>1. i + 1 \in 1 .. Len(d) /\ 1 \in 1 .. Len(d) /\ 1 < i + 1 BY <1>3, <1>4
  <2>2. f[i + 1] \in 1 .. Len(s) /\ n < f[i + 1] BY <1>1, <1>7, <2>1
  <2>3. g[i] = f[i + 1] - n OBVIOUS
  <2>4. f[i + 1] \in Int /\ n \in Int BY <1>2, <2>2
  <2> HIDE DEF g
  <2>5. g[i] \in Int /\ g[i] + n = f[i + 1] BY <2>3, <2>4
  <2> QED BY <2>1, <2>2, <2>5
<1>10. g \in [1 .. Len(e) -> 1 .. Len(t)]
  <2>1. \A i \in 1 .. Len(e) : g[i] \in 1 .. Len(t)
    <3> HIDE DEF g
    <3> QED BY <1>2, <1>5, <1>9
  <2> QED BY <2>1
<1> HIDE DEF g
<1>11. \A i, j \in 1 .. Len(e) : i < j => g[i] < g[j]
  <2> SUFFICES ASSUME NEW i \in 1 .. Len(e), NEW j \in 1 .. Len(e), i < j PROVE g[i] < g[j]
    OBVIOUS
  <2>1. f[i + 1] < f[j + 1] BY <1>1, <1>9
  <2> QED BY <1>2, <1>9, <2>1
<1>12. \A i \in 1 .. Len(e) : e[i] = t[g[i]]
  <2> SUFFICES ASSUME NEW i \in 1 .. Len(e) PROVE e[i] = t[g[i]] OBVIOUS
  <2>1. e[i] = s[f[i + 1]] BY <1>1, <1>4, <1>9
  <2>2. g[i] \in 1 .. Len(t) /\ g[i] + n = f[i + 1] BY <1>2, <1>9, <1>10
  <2> QED BY <1>5, <2>1, <2>2
<1>13. \A p \in 1 .. Len(t) : t[p] \in Ends <=> \E i \in 1 .. Len(e) : g[i] = p
  <2> SUFFICES ASSUME NEW p \in 1 .. Len(t)
               PROVE  t[p] \in Ends <=> \E i \in 1 .. Len(e) : g[i] = p
    OBVIOUS
  <2>1. p + n \in 1 .. Len(s) /\ t[p] = s[p + n] BY <1>2, <1>5
  <2>2. t[p] \in Ends <=> \E i \in 1 .. Len(d) : f[i] = p + n BY <1>1, <2>1
  <2>3. ASSUME NEW i \in 1 .. Len(d), f[i] = p + n PROVE \E j \in 1 .. Len(e) : g[j] = p
    <3>1. i # 1 BY <1>2, <1>7, <2>3
    <3>2. i - 1 \in 1 .. Len(e) /\ (i - 1) + 1 = i BY <1>3, <1>4, <3>1
    <3>3. g[i - 1] = p BY <1>2, <1>9, <2>3, <3>2
    <3> QED BY <3>2, <3>3
  <2>4. ASSUME NEW j \in 1 .. Len(e), g[j] = p PROVE \E i \in 1 .. Len(d) : f[i] = p + n
    <3>1. f[j + 1] = p + n BY <1>2, <1>9, <2>4
    <3> QED BY <1>9, <3>1
  <2> QED BY <2>2, <2>3, <2>4
<1>14. Spells(e, t) BY <1>10, <1>11, <1>12, <1>13 DEF Spells
<1> QED BY <1>3, <1>8, <1>14 DEF e, t

----------------------------------------------------------------------------
(* The invariant. *)

\* What the handler has in hand at each point.  A line in hand without an end is the last
\* one of a client that has closed.
LineInv ==
  /\ pc = "jitter" => snd = 0 /\ buf = <<>>
  /\ pc \in {"jitter", "read"} => line \in {<<>>, <<"part">>}
  /\ pc = "line" => /\ persona # "ssh"
                    /\ \/ \E e \in Ends : line = <<e>> \/ line = <<"part", e>>
                       \/ line = <<"part">> /\ Input = <<>> /\ client # "open"
  /\ pc = "jitter" => line = <<>>
  /\ pc = "think" => persona = "ssh"
  /\ close = "rst" => pc = "done"

\* Bytes without a newline are waiting, in the line buffer or at the end of the input.
Loose == IF Input = <<>> THEN pc # "line" /\ line # <<>> ELSE Input[Len(Input)] = "part"

\* The input still to be read, with the end that FIN gives to its last line, and the
\* answers that are due for it, apart from the one for the line in hand.
Stream == IF client = "closed" /\ Loose THEN Append(Input, "other") ELSE Input
Owed   == IF pc = "line" THEN Tail(due) ELSE due

OrderInv ==
  persona # "ssh" /\ pc # "done" /\ client # "reset" =>
    /\ Spells(Owed, Stream)
    /\ pc = "line" => due # <<>> /\ Head(due) = Command(line)

\* A handler that has sent RST left something in the receive queue.
ResetInv ==
  close = "rst" /\ client # "reset" /\ persona # "ssh"
    => rcv # <<>> /\ (rcv[Len(rcv)] = "part" \/ Len(due) > (IF Unreadable THEN 1 ELSE 0))

\* Every step of the handler or the client.
ClientStep == (\E x \in Piece : Send(x)) \/ ClientCloses \/ ClientResets \/ ClientReads

\* Sequences of pieces are cut and joined to sequences of pieces.
LEMMA PieceSeqs ==
  ASSUME NEW s \in Seq(Piece), NEW t \in Seq(Piece)
  PROVE  /\ s \o t \in Seq(Piece)
         /\ \A m, n \in Nat : m >= 1 /\ n <= Len(s) => SubSeq(s, m, n) \in Seq(Piece)
         /\ \A x \in Piece : Append(s, x) \in Seq(Piece) /\ <<x>> \in Seq(Piece) /\ <<"part", x>> \in Seq(Piece)
<1>1. "part" \in Piece BY DEF Piece
<1>2. \A x \in Piece : <<x>> \in Seq(Piece) /\ <<"part", x>> \in Seq(Piece) BY <1>1
<1>3. \A m, n \in Nat : m >= 1 /\ n <= Len(s) => SubSeq(s, m, n) \in Seq(Piece) OBVIOUS
<1> QED BY <1>2, <1>3

\* What is in hand, with the last piece of the line.
LEMMA LineJoins ==
  ASSUME NEW x \in Piece
  PROVE  /\ <<>> \o <<x>> = <<x>> /\ <<>> \o <<"part", x>> = <<"part", x>>
         /\ <<"part">> \o <<x>> = <<"part", x>>
<1>1. "part" \in Piece BY DEF Piece
<1>2. <<x>> \in Seq(Piece) /\ <<"part", x>> \in Seq(Piece) /\ <<"part">> \in Seq(Piece) BY <1>1
<1>3. <<>> \o <<x>> = <<x>> /\ <<>> \o <<"part", x>> = <<"part", x>> BY <1>2, ConcatEmptySeq
<1>4. <<"part">> \o <<x>> = <<"part", x>>
  <2>1. <<"part">> \o <<x>> = Append(<<"part">>, x) BY <1>2, AppendIsConcat
  <2> DEFINE a == Append(<<"part">>, x)  b == <<"part", x>>
  <2>2. a \in Seq(Piece) /\ Len(a) = 2 /\ a[1] = "part" /\ a[2] = x BY <1>2
  <2>3. b \in Seq(Piece) /\ Len(b) = 2 /\ b[1] = "part" /\ b[2] = x BY <1>2
  <2>4. \A i \in 1 .. 2 : i = 1 \/ i = 2 OBVIOUS
  <2> HIDE DEF a, b
  <2>5. \A i \in 1 .. Len(a) : a[i] = b[i] BY <2>2, <2>3, <2>4
  <2>6. a = b BY <2>2, <2>3, <2>5, SeqEqual
  <2> QED BY <2>1, <2>6 DEF a, b
<1> QED BY <1>3, <1>4

\* Reading a line takes the pieces up to the first end, and leaves the rest.
LEMMA ReadLineEffect ==
  ASSUME TypeOK, LineInv, ReadLine
  PROVE  \E n \in LineEnds(Input) :
           /\ \A k \in LineEnds(Input) : n <= k
           /\ line' = <<Input[n]>> \/ line' = <<"part", Input[n]>>
           /\ buf' \in Seq(Piece) /\ rcv' \in Seq(Piece)
           /\ Input' = SubSeq(Input, n + 1, Len(Input))
<1>1. Input \in Seq(Piece) BY PieceSeqs DEF TypeOK, Input
<1>2. line = <<>> \/ line = <<"part">> BY DEF LineInv, ReadLine, Reading
<1>3. PICK n \in LineEnds(Input) :
        /\ \A k \in LineEnds(Input) : n <= k
        /\ line' = line \o (IF n = 1 \/ line # <<>> THEN <<Input[n]>> ELSE <<"part", Input[n]>>)
        /\ \E m \in IF n <= Len(buf) THEN {Len(buf)} ELSE n .. Len(Input) :
             buf' = SubSeq(Input, n + 1, m) /\ rcv' = SubSeq(Input, m + 1, Len(Input))
  BY DEF ReadLine
<1>4. PICK m \in IF n <= Len(buf) THEN {Len(buf)} ELSE n .. Len(Input) :
        buf' = SubSeq(Input, n + 1, m) /\ rcv' = SubSeq(Input, m + 1, Len(Input))
  BY <1>3
<1>5. n \in 1 .. Len(Input) /\ Input[n] \in Piece BY <1>1 DEF LineEnds, Piece
<1>6. m \in n .. Len(Input)
  <2>1. buf \in Seq(Piece) /\ rcv \in Seq(Piece) BY DEF TypeOK
  <2>2. Len(Input) = Len(buf) + Len(rcv) /\ Len(buf) \in Nat /\ Len(rcv) \in Nat BY <2>1 DEF Input
  <2> QED BY <1>4, <1>5, <2>2
<1>7. buf' \in Seq(Piece) /\ rcv' \in Seq(Piece) BY <1>1, <1>4, <1>5, <1>6
<1>8. line' = <<Input[n]>> \/ line' = <<"part", Input[n]>> 
  <2>1. CASE line = <<>> /\ n = 1 BY <1>3, <1>5, <2>1, LineJoins
  <2>2. CASE line = <<>> /\ n # 1 BY <1>3, <1>5, <2>2, LineJoins
  <2>3. CASE line = <<"part">>
    <3>1. line # <<>> BY <2>3
    <3> QED BY <1>3, <1>5, <2>3, <3>1, LineJoins
  <2> QED BY <1>2, <2>1, <2>2, <2>3
<1>9. Input' = SubSeq(Input, n + 1, Len(Input))
  <2> DEFINE s == Input  a == SubSeq(s, n + 1, m)  b == SubSeq(s, m + 1, Len(s))
  <2>1. Input' = a \o b BY <1>4 DEF Input
  <2> HIDE DEF s
  <2>2. s \in Seq(Piece) /\ n \in 1 .. Len(s) /\ m \in n .. Len(s) BY <1>1, <1>5, <1>6 DEF s
  <2>3. /\ n + 1 \in 1 .. Len(s) + 1 /\ m \in (n + 1) - 1 .. Len(s)
        /\ Len(s) \in m .. Len(s)
    BY <2>2
  <2>4. SubSeq(s, n + 1, m) \o SubSeq(s, m + 1, Len(s)) = SubSeq(s, n + 1, Len(s))
    BY <2>2, <2>3, ConcatAdjacentSubSeq
  <2> QED BY <2>1, <2>4 DEF s
<1> QED BY <1>3, <1>7, <1>8, <1>9

\* The type invariant and the shape of the line in hand hold at the start.
LEMMA LineInit == Init => TypeOK /\ LineInv
<1> SUFFICES ASSUME Init PROVE TypeOK /\ LineInv OBVIOUS
<1>1. TypeOK
  <2>1. <<>> \in Seq(Piece) /\ <<>> \in Seq(Ends) OBVIOUS
  <2>2. snd \in 0 .. SndCap /\ left \in 0 .. ReadTime BY PersonasAssumption DEF Init
  <2>3. line \in Seq(Piece) /\ buf \in Seq(Piece) /\ rcv \in Seq(Piece) /\ due \in Seq(Ends)
    BY <2>1 DEF Init
  <2> QED BY <2>2, <2>3 DEF Init, TypeOK
<1>2. LineInv BY DEF Init, LineInv
<1> QED BY <1>1, <1>2

\* The client keeps both.
LEMMA LineClient == TypeOK /\ LineInv /\ ClientStep => TypeOK' /\ LineInv'
<1> SUFFICES ASSUME TypeOK, LineInv, ClientStep PROVE TypeOK' /\ LineInv' OBVIOUS
<1>1. UNCHANGED <<persona, pc, line, buf, left, close, greeted>>
  BY DEF ClientStep, Send, ClientCloses, ClientResets, ClientReads, ClientKeeps
<1>2. /\ rcv' \in Seq(Piece) /\ due' \in Seq(Ends) /\ client' \in {"open", "closed", "reset"}
      /\ snd' \in 0 .. SndCap
  <2>1. CASE \E x \in Piece : Send(x) BY <2>1 DEF Send, TypeOK
  <2>2. CASE ClientCloses BY <2>2 DEF ClientCloses, TypeOK, Ends
  <2>3. CASE ClientResets
    <3>1. <<>> \in Seq(Piece) OBVIOUS
    <3> QED BY <2>3, <3>1 DEF ClientResets, TypeOK
  <2>4. CASE ClientReads BY <2>4, PersonasAssumption DEF ClientReads, TypeOK
  <2> QED BY <2>1, <2>2, <2>3, <2>4 DEF ClientStep
<1>3. pc = "jitter" => snd' = 0
  BY DEF ClientStep, LineInv, Send, ClientCloses, ClientResets, ClientReads
<1>4. line = <<"part">> /\ Input = <<>> /\ client # "open" => Input' = <<>> /\ client' # "open"
  BY <1>1 DEF ClientStep, Send, ClientCloses, ClientResets, ClientReads, Input
<1>5. TypeOK' BY <1>1, <1>2 DEF TypeOK
<1>6. LineInv' BY <1>1, <1>3, <1>4 DEF LineInv
<1> QED BY <1>5, <1>6
\* A handler that returns closes its socket one way or the other.
LEMMA ReturnCloses ==
  ASSUME NEW unread \in Seq(Piece), Return(unread)
  PROVE  pc' = "done" /\ close' \in {"fin", "rst"}
BY DEF Return

\* One poll without a newline leaves nothing in the queues and at most one run of bytes.
LEMMA TakePartsEffect ==
  ASSUME TypeOK, LineInv, TakeParts
  PROVE  /\ line' \in {<<>>, <<"part">>} /\ buf' = <<>> /\ rcv' = <<>> /\ Input' = <<>>
         /\ line' \in Seq(Piece) /\ buf' \in Seq(Piece) /\ rcv' \in Seq(Piece)
         /\ pc = "read" /\ persona # "ssh"
<1>1. pc = "read" /\ persona # "ssh" BY DEF TakeParts, Reading
<1>2. line' \in {<<>>, <<"part">>} BY <1>1 DEF TakeParts, LineInv
<1>3. <<>> \in Seq(Piece) /\ <<"part">> \in Seq(Piece) BY DEF Piece
<1>4. buf' = <<>> /\ rcv' = <<>> BY DEF TakeParts
<1>5. Input' = <<>> BY <1>3, <1>4, ConcatEmptySeq DEF Input
<1> QED BY <1>1, <1>2, <1>3, <1>4, <1>5

\* The banner, or the failure to write it.
LEMMA LineStart == TypeOK /\ LineInv /\ Start => TypeOK' /\ LineInv'
<1> SUFFICES ASSUME TypeOK, LineInv, Start PROVE TypeOK' /\ LineInv' OBVIOUS
<1>1. /\ UNCHANGED <<persona, line, buf, rcv, left, client, due>> /\ pc = "jitter"
      /\ snd = 0 /\ line = <<>>
  BY DEF Start, LineInv
<1>2. CASE persona \in {"ssh", "raw"} /\ client = "reset"
  <2>1. Return(rcv) /\ UNCHANGED <<greeted, snd>> BY <1>2 DEF Start
  <2>2. pc' = "done" /\ close' \in {"fin", "rst"} BY <2>1 DEF Return
  <2> QED BY <1>1, <2>1, <2>2 DEF TypeOK, LineInv
<1>3. CASE ~ (persona \in {"ssh", "raw"} /\ client = "reset")
  <2>1. /\ pc' = "read" /\ UNCHANGED close /\ greeted' = (persona \in {"ssh", "raw"})
        /\ snd' = IF greeted' THEN snd + 1 ELSE snd
    BY <1>3 DEF Start
  <2>2. snd' = snd + 1 \/ snd' = snd BY <2>1
  <2>3. snd' \in 0 .. SndCap BY <1>1, <2>2, PersonasAssumption
  <2>4. greeted' \in BOOLEAN BY <2>1
  <2>5. TypeOK' BY <1>1, <2>1, <2>3, <2>4 DEF TypeOK
  <2>6. LineInv' BY <1>1, <2>1 DEF LineInv
  <2> QED BY <2>5, <2>6
<1> QED BY <1>2, <1>3

\* The handler and the clock keep both.
LEMMA LineHandler == TypeOK /\ LineInv /\ (Handler \/ Tick) => TypeOK' /\ LineInv'
<1> SUFFICES ASSUME TypeOK, LineInv, Handler \/ Tick PROVE TypeOK' /\ LineInv' OBVIOUS
<1>1. CASE Start BY <1>1, LineStart
<1>2. CASE SshReads
  <2>1. rcv' \in Seq(Piece)
    <3>1. PICK n \in 1 .. Len(rcv) : rcv' = SubSeq(rcv, n + 1, Len(rcv)) BY <1>2 DEF SshReads
    <3>2. rcv \in Seq(Piece) BY DEF TypeOK
    <3> QED BY <3>1, <3>2
  <2>2. /\ UNCHANGED <<persona, client, greeted, line, buf, snd, left, close, due>>
        /\ pc = "read" /\ pc' = "think" /\ persona = "ssh"
    BY <1>2 DEF SshReads, HandlerKeeps
  <2> QED BY <2>1, <2>2 DEF TypeOK, LineInv
<1>3. CASE SshEnds
  <2>1. /\ UNCHANGED <<persona, client, greeted, line, buf, rcv, snd, left, due>>
        /\ pc' = "done" /\ close' \in {"fin", "rst"}
    BY <1>3 DEF SshEnds, HandlerKeeps, Return
  <2> QED BY <2>1 DEF TypeOK, LineInv
<1>4. CASE ReadLine
  <2>1. PICK n \in LineEnds(Input) :
           /\ line' = <<Input[n]>> \/ line' = <<"part", Input[n]>>
           /\ buf' \in Seq(Piece) /\ rcv' \in Seq(Piece)
    BY <1>4, ReadLineEffect
  <2>2. Input[n] \in Ends BY <2>1 DEF LineEnds
  <2>3. line' \in Seq(Piece)
    <3>1. \A x \in Piece : <<x>> \in Seq(Piece) /\ <<"part", x>> \in Seq(Piece)
      BY DEF Piece
    <3>2. Input[n] \in Piece BY <2>2 DEF Piece
    <3> QED BY <2>1, <3>1, <3>2, Zenon
  <2>4. /\ UNCHANGED <<persona, client, greeted, snd, left, close, due>>
        /\ pc = "read" /\ pc' = "line" /\ persona # "ssh"
    BY <1>4 DEF ReadLine, HandlerKeeps, Reading
  <2>5. TypeOK' BY <2>1, <2>3, <2>4 DEF TypeOK
  <2>6. LineInv' BY <2>1, <2>2, <2>4 DEF LineInv
  <2> QED BY <2>5, <2>6
<1>5. CASE WaitForLine
  <2>1. TakeParts /\ UNCHANGED <<persona, client, greeted, pc, snd, left, close, due>>
    BY <1>5 DEF WaitForLine, HandlerKeeps
  <2> QED BY <2>1, TakePartsEffect DEF TypeOK, LineInv
<1>6. CASE ReadRest
  <2>1. /\ TakeParts /\ UNCHANGED <<persona, client, greeted, snd, left, close, due>>
        /\ client = "closed" /\ line' # <<>> /\ pc' = "line"
    BY <1>6 DEF ReadRest, HandlerKeeps
  <2> QED BY <2>1, TakePartsEffect DEF TypeOK, LineInv
<1>7. CASE ReadEnds
  <2>1. /\ TakeParts /\ UNCHANGED <<persona, client, greeted, snd, left, due>>
        /\ pc' = "done" /\ close' \in {"fin", "rst"}
    BY <1>7 DEF ReadEnds, HandlerKeeps, Return
  <2> QED BY <2>1, TakePartsEffect DEF TypeOK, LineInv
<1>8. CASE Answer
  <2>1. /\ pc = "line" /\ UNCHANGED <<persona, client, greeted, buf, rcv>>
        /\ due' = Tail(due)
    BY <1>8 DEF Answer, Respond, HandlerKeeps
  <2>2. snd' \in 0 .. SndCap
    <3>1. snd < SndCap /\ snd' = snd + 1 /\ snd \in 0 .. SndCap BY <1>8 DEF Answer, Respond, TypeOK
    <3> QED BY <3>1, PersonasAssumption
  <2>3. due' \in Seq(Ends)
    <3>1. due \in Seq(Ends) BY DEF TypeOK
    <3>2. CASE due = <<>>
      <4>1. Tail(<<>>) = <<>> OBVIOUS
      <4> QED BY <2>1, <3>1, <3>2, <4>1
    <3>3. CASE due # <<>> BY <2>1, <3>1, <3>3, HeadTailProperties
    <3> QED BY <3>2, <3>3
  <2>4. CASE persona = "http" \/ (persona = "redis" /\ Command(line) = "quit")
    <3>1. UNCHANGED <<line, left>> /\ pc' = "done" /\ close' \in {"fin", "rst"}
      BY <1>8, <2>4 DEF Answer, Respond, Return
    <3> QED BY <2>1, <2>2, <2>3, <3>1 DEF TypeOK, LineInv
  <2>5. CASE ~ (persona = "http" \/ (persona = "redis" /\ Command(line) = "quit"))
    <3>1. pc' = "read" /\ left' = ReadTime /\ line' = <<>> /\ UNCHANGED close
      BY <1>8, <2>5 DEF Answer, Respond, Loop
    <3>2. left' \in 0 .. ReadTime /\ line' \in Seq(Piece) BY <3>1, PersonasAssumption
    <3> QED BY <2>1, <2>2, <2>3, <3>1, <3>2 DEF TypeOK, LineInv
  <2> QED BY <2>4, <2>5
<1>9. CASE WriteFails
  <2>1. /\ UNCHANGED <<persona, client, greeted, line, buf, rcv, snd, left, due>>
        /\ pc' = "done" /\ close' \in {"fin", "rst"}
    BY <1>9 DEF WriteFails, HandlerKeeps, Return
  <2> QED BY <2>1 DEF TypeOK, LineInv
<1>11. CASE NotUtf8
  <2>1. /\ UNCHANGED <<persona, client, greeted, line, buf, rcv, snd, left, due>>
        /\ pc' = "done" /\ close' \in {"fin", "rst"}
    BY <1>11 DEF NotUtf8, HandlerKeeps, Return
  <2> QED BY <2>1 DEF TypeOK, LineInv
<1>10. CASE Tick
  <2>1. /\ UNCHANGED <<persona, pc, line, buf, rcv, snd, client, close, greeted, due>>
        /\ left' \in 0 .. ReadTime
    BY <1>10, PersonasAssumption DEF Tick, TypeOK
  <2> QED BY <2>1 DEF TypeOK, LineInv, Input
<1> QED BY <1>1, <1>2, <1>3, <1>4, <1>5, <1>6, <1>7, <1>8, <1>9, <1>10, <1>11 DEF Handler

\* Every variable has its type, and a line in hand has an end, or is the last one of a
\* client that has closed (read_line's two ways to return, personas.rs:99).
THEOREM HandlerTypes == Spec => [](TypeOK /\ LineInv)
<1>1. Init => TypeOK /\ LineInv BY LineInit
<1>2. TypeOK /\ LineInv /\ [Next]_vars => (TypeOK /\ LineInv)'
  <2> SUFFICES ASSUME TypeOK, LineInv, [Next]_vars PROVE TypeOK' /\ LineInv' OBVIOUS
  <2>1. CASE Next
    <3>1. ClientStep \/ Handler \/ Tick BY <2>1 DEF Next, ClientStep
    <3> QED BY <3>1, LineClient, LineHandler
  <2>2. CASE UNCHANGED vars BY <2>2 DEF vars, TypeOK, LineInv, Input
  <2> QED BY <2>1, <2>2
<1> QED BY <1>1, <1>2, PTL DEF Spec
----------------------------------------------------------------------------
(* Every answer is for the oldest line without one. *)

\* The last piece of a sequence that ends in t, and a sequence with one piece more.
LEMMA ConcatLast ==
  ASSUME NEW s \in Seq(Piece), NEW t \in Seq(Piece)
  PROVE  /\ t # <<>> => s \o t # <<>> /\ (s \o t)[Len(s \o t)] = t[Len(t)]
         /\ \A x \in Piece : s \o Append(t, x) = Append(s \o t, x)
<1> DEFINE u == s \o t
<1>1. /\ u \in Seq(Piece) /\ Len(u) = Len(s) + Len(t) /\ Len(s) \in Nat /\ Len(t) \in Nat
      /\ \A i \in 1 .. Len(s) + Len(t) : u[i] = IF i <= Len(s) THEN s[i] ELSE t[i - Len(s)]
  BY ConcatProperties
<1>2. ASSUME t # <<>> PROVE u # <<>> /\ u[Len(u)] = t[Len(t)]
  <2> HIDE DEF u
  <2>1. Len(t) \in Nat \ {0} BY <1>2
  <2>2. Len(u) \in 1 .. Len(s) + Len(t) /\ ~ (Len(u) <= Len(s)) /\ Len(u) - Len(s) = Len(t)
    BY <1>1, <2>1
  <2>3. u[Len(u)] = t[Len(t)] BY <1>1, <2>2
  <2> QED BY <1>1, <2>1, <2>3
<1>3. ASSUME NEW x \in Piece PROVE s \o Append(t, x) = Append(u, x)
  <2>1. <<x>> \in Seq(Piece) OBVIOUS
  <2>2. Append(t, x) = t \o <<x>> BY AppendIsConcat
  <2>3. Append(u, x) = u \o <<x>> BY <1>1, AppendIsConcat
  <2>4. (s \o t) \o <<x>> = s \o (t \o <<x>>) BY <2>1, ConcatAssociative
  <2> QED BY <2>2, <2>3, <2>4
<1> QED BY <1>2, <1>3

\* The input and what the client is owed are sequences of their kinds.
LEMMA StreamTypes ==
  ASSUME TypeOK
  PROVE  /\ Input \in Seq(Piece) /\ Stream \in Seq(Piece) /\ due \in Seq(Ends)
         /\ "other" \in Ends /\ "other" \in Piece /\ "part" \in Piece /\ "part" \notin Ends
         /\ due # <<>> => Owed \in Seq(Ends)
         /\ pc # "line" => Owed = due
<1>1. Input \in Seq(Piece) BY PieceSeqs DEF TypeOK, Input
<1>2. "other" \in Ends /\ "other" \in Piece /\ "part" \in Piece /\ "part" \notin Ends
  BY DEF Ends, Piece
<1>3. Stream \in Seq(Piece) BY <1>1, <1>2 DEF Stream
<1>4. due \in Seq(Ends) BY DEF TypeOK
<1>5. due # <<>> => Owed \in Seq(Ends) BY <1>4, HeadTailProperties DEF Owed
<1> QED BY <1>1, <1>2, <1>3, <1>4, <1>5 DEF Owed

\* While the client is open, its last line is unfinished when bytes are waiting loose.
LEMMA LooseUnfinished ==
  ASSUME TypeOK, LineInv, client = "open", pc # "done", persona # "ssh"
  PROVE  Unfinished <=> Loose
<1>1. line \in Seq(Piece) /\ buf \in Seq(Piece) /\ rcv \in Seq(Piece) BY DEF TypeOK
<1>2. Input \in Seq(Piece) BY StreamTypes
<1>3. line \o buf \o rcv = line \o Input BY <1>1, ConcatAssociative DEF Input
<1>4. CASE Input # <<>>
  <2>1. line \o Input # <<>> /\ (line \o Input)[Len(line \o Input)] = Input[Len(Input)]
    BY <1>1, <1>2, <1>4, ConcatLast
  <2> QED BY <1>3, <1>4, <2>1 DEF Unfinished, Loose
<1>5. CASE Input = <<>>
  <2>1. line \o Input = line BY <1>1, <1>5, ConcatEmptySeq
  <2>2. Unfinished <=> line # <<>> /\ line[Len(line)] = "part" BY <1>3, <2>1 DEF Unfinished
  <2>3. CASE pc = "line"
    <3>1. PICK e \in Ends : line = <<e>> \/ line = <<"part", e>> BY <2>3 DEF LineInv
    <3>2. line[Len(line)] = e BY <3>1
    <3> QED BY <1>5, <2>2, <2>3, <3>2, StreamTypes DEF Loose
  <2>4. CASE pc # "line"
    <3>1. line \in {<<>>, <<"part">>} BY <2>4 DEF LineInv, TypeOK
    <3>2. line = <<"part">> => line # <<>> /\ line[Len(line)] = "part" OBVIOUS
    <3> QED BY <1>5, <2>2, <2>4, <3>1, <3>2 DEF Loose
  <2> QED BY <2>3, <2>4
<1> QED BY <1>4, <1>5

\* Another line that the client finishes is owed an answer after all the others.
LEMMA OwedAppends ==
  ASSUME TypeOK, OrderInv, NEW x \in Ends, due' = Append(due, x), UNCHANGED <<pc, line>>,
         persona # "ssh", pc # "done", client # "reset"
  PROVE  /\ Spells(Owed', Append(Stream, x))
         /\ pc' = "line" => due' # <<>> /\ Head(due') = Command(line')
<1>1. due \in Seq(Ends) /\ Stream \in Seq(Piece) BY StreamTypes
<1>2. Spells(Owed, Stream) /\ (pc = "line" => due # <<>> /\ Head(due) = Command(line))
  BY DEF OrderInv
<1>3. CASE pc # "line"
  <2>1. Owed = due /\ Owed' = Append(due, x) BY <1>3 DEF Owed
  <2> QED BY <1>1, <1>2, <1>3, <2>1, SpellsEnd
<1>4. CASE pc = "line"
  <2>1. /\ Tail(Append(due, x)) = Append(Tail(due), x)
        /\ Head(Append(due, x)) = Head(due)
    BY <1>1, <1>2, <1>4, HeadTailAppend
  <2>2. Owed = Tail(due) /\ Owed' = Append(Owed, x) BY <1>4, <2>1 DEF Owed
  <2>3. Owed \in Seq(Ends) BY <1>2, <1>4, StreamTypes
  <2>4. Spells(Owed', Append(Stream, x)) BY <1>1, <1>2, <2>2, <2>3, SpellsEnd
  <2>5. due' # <<>> BY <1>1, AppendProperties
  <2> QED BY <1>2, <1>4, <2>1, <2>4, <2>5
<1> QED BY <1>3, <1>4

\* The client keeps the order.
LEMMA OrderClient == TypeOK /\ LineInv /\ OrderInv /\ ClientStep => OrderInv'
<1> SUFFICES ASSUME TypeOK, LineInv, OrderInv, ClientStep,
                    persona' # "ssh", pc' # "done", client' # "reset"
             PROVE  /\ Spells(Owed', Stream')
                    /\ pc' = "line" => due' # <<>> /\ Head(due') = Command(line')
  BY DEF OrderInv
<1>1. UNCHANGED <<persona, pc, line, buf>>
  BY DEF ClientStep, Send, ClientCloses, ClientResets, ClientReads, ClientKeeps
<1>2. client # "reset" BY DEF ClientStep, Send, ClientCloses, ClientResets, ClientReads
<1>3. /\ Spells(Owed, Stream)
      /\ pc = "line" => due # <<>> /\ Head(due) = Command(line)
  BY <1>1, <1>2 DEF OrderInv
<1>4. ASSUME NEW x \in Piece, Send(x)
      PROVE  /\ Spells(Owed', Stream')
             /\ pc' = "line" => due' # <<>> /\ Head(due') = Command(line')
  <2>1. client = "open" /\ client' = "open" /\ rcv' = Append(rcv, x) BY <1>4 DEF Send
  <2>2. buf \in Seq(Piece) /\ rcv \in Seq(Piece) BY DEF TypeOK
  <2>3. Input' = Append(Input, x) BY <1>1, <2>1, <2>2, ConcatLast DEF Input
  <2>4. Stream = Input /\ Stream' = Append(Stream, x) BY <2>1, <2>3 DEF Stream
  <2>5. CASE x \in Ends
    <3>1. due' = Append(due, x) BY <1>4, <2>5 DEF Send
    <3> QED BY <1>1, <1>2, <2>4, <2>5, <3>1, OwedAppends
  <2>6. CASE x \notin Ends
    <3>1. x = "part" /\ UNCHANGED due BY <1>4, <2>6 DEF Send, Piece
    <3>2. Owed' = Owed BY <1>1, <3>1 DEF Owed
    <3>3. Owed \in Seq(Ends) BY <1>3, StreamTypes
    <3>4. Spells(Owed, Append(Stream, "part")) BY <1>3, <3>3, SpellsPart, StreamTypes
    <3> QED BY <1>1, <1>3, <2>4, <3>1, <3>2, <3>4
  <2> QED BY <2>5, <2>6
<1>5. CASE ClientCloses
  <2>1. /\ client = "open" /\ client' = "closed" /\ UNCHANGED rcv
        /\ due' = IF Unfinished THEN Append(due, "other") ELSE due
    BY <1>5 DEF ClientCloses
  <2>2. Unfinished <=> Loose BY <1>1, <2>1, LooseUnfinished
  <2>3. Input' = Input /\ Loose' = Loose BY <1>1, <2>1 DEF Input, Loose
  <2>4. CASE Loose
    <3>1. Stream = Input /\ Stream' = Append(Stream, "other") BY <2>1, <2>3, <2>4 DEF Stream
    <3>2. due' = Append(due, "other") BY <2>1, <2>2, <2>4
    <3> QED BY <1>1, <1>2, <3>1, <3>2, OwedAppends, StreamTypes
  <2>5. CASE ~ Loose
    <3>1. Stream' = Stream BY <2>1, <2>3, <2>5 DEF Stream
    <3>2. UNCHANGED due BY <2>1, <2>2, <2>5
    <3> QED BY <1>1, <1>3, <3>1, <3>2 DEF Owed
  <2> QED BY <2>4, <2>5
<1>6. CASE ClientReads
  <2>1. UNCHANGED <<rcv, client, due>> BY <1>6 DEF ClientReads
  <2> QED BY <1>1, <1>3, <2>1 DEF Owed, Stream, Loose, Input
<1>7. ~ ClientResets BY DEF ClientResets
<1> QED BY <1>4, <1>5, <1>6, <1>7 DEF ClientStep
\* What the line buffer holds after read_line is one command.
LEMMA CommandOf ==
  ASSUME NEW e \in Ends, NEW l, l = <<e>> \/ l = <<"part", e>>
  PROVE  Command(l) = e
<1>1. l[Len(l)] = e OBVIOUS
<1> QED BY <1>1 DEF Command

\* The first end in the input is the first in the stream, and what follows it there is the
\* stream that is left.
LEMMA StreamCut ==
  ASSUME NEW i \in Seq(Piece), NEW x \in Ends, NEW n \in LineEnds(i), \A k \in LineEnds(i) : n <= k
  PROVE  LET s == Append(i, x)
         IN  /\ s \in Seq(Piece) /\ n \in LineEnds(s) /\ s[n] = i[n]
             /\ \A k \in LineEnds(s) : n <= k
             /\ SubSeq(s, n + 1, Len(s)) = Append(SubSeq(i, n + 1, Len(i)), x)
<1> DEFINE s == Append(i, x)
<1>1. /\ s \in Seq(Piece) /\ Len(s) = Len(i) + 1 /\ Len(i) \in Nat /\ s[Len(i) + 1] = x
      /\ \A k \in 1 .. Len(i) : s[k] = i[k]
  BY DEF Piece
<1>2. n \in 1 .. Len(i) /\ i[n] \in Ends BY DEF LineEnds
<1> DEFINE a == SubSeq(s, n + 1, Len(s))
           b == SubSeq(i, n + 1, Len(i))
           c == Append(b, x)
<1>3. b \in Seq(Piece) /\ Len(b) = Len(i) - n /\ \A k \in 1 .. Len(b) : b[k] = i[n + k]
  BY <1>2
<1>4. /\ c \in Seq(Piece) /\ Len(c) = Len(b) + 1 /\ c[Len(b) + 1] = x
      /\ \A k \in 1 .. Len(b) : c[k] = b[k]
  <2> HIDE DEF b
  <2> QED BY <1>3 DEF Piece
<1> HIDE DEF s
<1>5. a \in Seq(Piece) /\ Len(a) = Len(s) - n /\ \A k \in 1 .. Len(a) : a[k] = s[n + k]
  BY <1>1, <1>2
<1> HIDE DEF a, b, c
<1>6. Len(a) = Len(c) BY <1>1, <1>2, <1>3, <1>4, <1>5
<1>7. \A k \in 1 .. Len(a) : a[k] = c[k]
  <2> SUFFICES ASSUME NEW k \in 1 .. Len(a) PROVE a[k] = c[k] OBVIOUS
  <2>1. a[k] = s[n + k] BY <1>5
  <2>2. CASE k \in 1 .. Len(b) BY <1>1, <1>2, <1>3, <1>4, <2>1, <2>2
  <2>3. CASE k = Len(b) + 1
    <3>1. n + k = Len(i) + 1 BY <1>1, <1>2, <1>3, <2>3
    <3> QED BY <1>1, <1>4, <2>1, <2>3, <3>1
  <2> QED BY <1>3, <1>4, <1>6, <2>2, <2>3
<1>8. a = c BY <1>4, <1>5, <1>6, <1>7, SeqEqual
<1>9. n \in LineEnds(s) /\ s[n] = i[n] BY <1>1, <1>2 DEF LineEnds
<1>10. ASSUME NEW k \in LineEnds(s) PROVE n <= k
  <2>1. CASE k \in 1 .. Len(i) BY <1>1, <2>1 DEF LineEnds
  <2>2. CASE k = Len(i) + 1 BY <1>1, <1>2, <2>2
  <2>3. k \in 1 .. Len(i) + 1 BY <1>1 DEF LineEnds
  <2> QED BY <1>1, <2>1, <2>2, <2>3
<1> QED BY <1>1, <1>8, <1>9, <1>10 DEF s, a, b, c

\* The line that is read is the oldest that is owed an answer.
LEMMA OrderReadLine == TypeOK /\ LineInv /\ OrderInv /\ ReadLine => OrderInv'
<1> SUFFICES ASSUME TypeOK, LineInv, OrderInv, ReadLine, client # "reset"
             PROVE  /\ Spells(Owed', Stream')
                    /\ due' # <<>> /\ Head(due') = Command(line')
  BY DEF OrderInv, ReadLine, HandlerKeeps
<1>1. /\ UNCHANGED <<persona, client, due>> /\ pc = "read" /\ pc' = "line" /\ persona # "ssh"
  BY DEF ReadLine, Reading, HandlerKeeps
<1>2. PICK n \in LineEnds(Input) :
        /\ \A k \in LineEnds(Input) : n <= k
        /\ line' = <<Input[n]>> \/ line' = <<"part", Input[n]>>
        /\ Input' = SubSeq(Input, n + 1, Len(Input))
  BY ReadLineEffect
<1>3. Input \in Seq(Piece) /\ Stream \in Seq(Piece) /\ due \in Seq(Ends) BY StreamTypes
<1>4. n \in 1 .. Len(Input) /\ Input[n] \in Ends BY <1>2 DEF LineEnds
<1>5. Spells(due, Stream) BY <1>1, StreamTypes DEF OrderInv
<1>6. Command(line') = Input[n] BY <1>2, <1>4, CommandOf
<1>7. Loose' <=> Loose
  <2> DEFINE i == Input  j == SubSeq(i, n + 1, Len(i))
  <2>1. i \in Seq(Piece) /\ n \in 1 .. Len(i) /\ i[n] \in Ends BY <1>3, <1>4
  <2>2. i # <<>> /\ (Loose <=> i[Len(i)] = "part") BY <2>1 DEF Loose
  <2>3. Loose' <=> j # <<>> /\ j[Len(j)] = "part" BY <1>1, <1>2 DEF Loose
  <2> HIDE DEF i
  <2>4. CASE n = Len(i)
    <3>1. j = <<>> BY <2>1, <2>4
    <3>2. i[Len(i)] # "part" BY <2>1, <2>4, StreamTypes
    <3> QED BY <2>2, <2>3, <3>1, <3>2
  <2>5. CASE n # Len(i)
    <3>1. Len(i) \in Nat /\ Len(j) = Len(i) - n /\ \A k \in 1 .. Len(j) : j[k] = i[n + k]
      BY <2>1
    <3>2. j \in Seq(Piece) BY <2>1
    <3> HIDE DEF j
    <3>3. Len(j) \in 1 .. Len(j) /\ n + Len(j) = Len(i) BY <2>1, <2>5, <3>1
    <3>4. j[Len(j)] = i[Len(i)] /\ j # <<>> BY <3>1, <3>2, <3>3
    <3> QED BY <2>2, <2>3, <3>4
  <2> QED BY <2>4, <2>5
<1>8. /\ n \in LineEnds(Stream) /\ \A k \in LineEnds(Stream) : n <= k
      /\ Stream[n] = Input[n] /\ Stream' = SubSeq(Stream, n + 1, Len(Stream))
  <2>1. CASE client = "closed" /\ Loose
    <3>1. Stream = Append(Input, "other") /\ Stream' = Append(Input', "other")
      BY <1>1, <1>7, <2>1 DEF Stream
    <3>2. "other" \in Ends BY StreamTypes
    <3> QED BY <1>2, <1>3, <3>1, <3>2, StreamCut
  <2>2. CASE ~ (client = "closed" /\ Loose)
    <3>1. Stream = Input /\ Stream' = Input' BY <1>1, <1>7, <2>2 DEF Stream
    <3> QED BY <1>2, <3>1
  <2> QED BY <2>1, <2>2
<1>9. /\ due # <<>> /\ Head(due) = Input[n]
      /\ Spells(Tail(due), SubSeq(Stream, n + 1, Len(Stream)))
  BY <1>3, <1>5, <1>8, SpellsCut
<1>10. Owed' = Tail(due) BY <1>1 DEF Owed
<1> QED BY <1>1, <1>6, <1>8, <1>9, <1>10
\* An unfinished line counts as the last one when the client has closed.
LEMMA OrderReadRest == TypeOK /\ LineInv /\ OrderInv /\ ReadRest => OrderInv'
<1> SUFFICES ASSUME TypeOK, LineInv, OrderInv, ReadRest
             PROVE  /\ Spells(Owed', Stream')
                    /\ due' # <<>> /\ Head(due') = Command(line')
  BY DEF OrderInv
<1>1. /\ TakeParts /\ client = "closed" /\ line' # <<>> /\ pc' = "line"
      /\ UNCHANGED <<persona, client, due>>
  BY DEF ReadRest, HandlerKeeps
<1>2. pc = "read" /\ persona # "ssh" /\ line' = <<"part">> /\ Input' = <<>>
  BY <1>1, TakePartsEffect
<1>3. Input \in Seq(Piece) /\ due \in Seq(Ends) BY StreamTypes
<1>4. LineEnds(Input) = {} BY <1>1 DEF TakeParts
<1>5. Loose
  <2>1. CASE Input = <<>>
    <3>1. line' = line BY <1>1, <2>1 DEF TakeParts
    <3> QED BY <1>1, <1>2, <2>1, <3>1 DEF Loose
  <2>2. CASE Input # <<>>
    <3>1. Len(Input) \in 1 .. Len(Input) /\ Input[Len(Input)] \in Piece BY <1>3, <2>2
    <3>2. Input[Len(Input)] \notin Ends BY <1>4, <3>1 DEF LineEnds
    <3> QED BY <2>2, <3>1, <3>2 DEF Loose, Piece
  <2> QED BY <2>1, <2>2
<1> DEFINE s == Append(Input, "other")  n == Len(Input) + 1
<1>6. Stream = s BY <1>1, <1>5 DEF Stream
<1>7. /\ s \in Seq(Piece) /\ Len(s) = n /\ Len(Input) \in Nat /\ s[n] = "other"
      /\ \A k \in 1 .. Len(Input) : s[k] = Input[k]
  BY <1>3, StreamTypes, AppendProperties
<1> HIDE DEF s
<1>8. n \in LineEnds(s)
  <2>1. n \in 1 .. Len(s) BY <1>7
  <2> QED BY <1>7, <2>1, StreamTypes DEF LineEnds
<1>9. ASSUME NEW k \in LineEnds(s) PROVE n <= k
  <2>1. k \in 1 .. Len(s) /\ s[k] \in Ends BY DEF LineEnds
  <2>2. CASE k \in 1 .. Len(Input)
    <3>1. Input[k] \in Ends BY <1>7, <2>1, <2>2
    <3> QED BY <1>4, <2>2, <3>1 DEF LineEnds
  <2> QED BY <1>7, <2>1, <2>2
<1>10. Spells(due, s) BY <1>1, <1>2, <1>6, StreamTypes DEF OrderInv
<1>11. due # <<>> /\ Head(due) = s[n] /\ Spells(Tail(due), SubSeq(s, n + 1, Len(s)))
  <2> HIDE DEF n
  <2> QED BY <1>3, <1>7, <1>8, <1>9, <1>10, SpellsCut
<1>12. SubSeq(s, n + 1, Len(s)) = <<>>
  <2>1. n + 1 \in Int /\ Len(s) \in Int /\ Len(s) < n + 1 BY <1>7
  <2> QED BY <2>1, SubSeqEmpty
<1>13. Stream' = <<>> /\ Owed' = Tail(due) BY <1>1, <1>2 DEF Stream, Loose, Owed
<1>14. Command(line') = "other"
  <2>1. \A e \in Ends : <<"part">> # <<"part", e>> OBVIOUS
  <2>2. \A e \in Ends : <<"part">> # <<e>>
    <3> SUFFICES ASSUME NEW e \in Ends, <<"part">> = <<e>> PROVE FALSE OBVIOUS
    <3>1. <<"part">>[1] = <<e>>[1] OBVIOUS
    <3>2. "part" = e BY <3>1
    <3> QED BY <3>2, StreamTypes
  <2> QED BY <1>2, <2>1, <2>2 DEF Command
<1> QED BY <1>1, <1>7, <1>11, <1>12, <1>13, <1>14

\* With an open client and no end of a line in the input, nothing is owed.
LEMMA OrderWait == TypeOK /\ LineInv /\ OrderInv /\ WaitForLine => OrderInv'
<1> SUFFICES ASSUME TypeOK, LineInv, OrderInv, WaitForLine PROVE OrderInv' OBVIOUS
<1>1. /\ TakeParts /\ client = "open" /\ UNCHANGED <<persona, client, pc, due>>
  BY DEF WaitForLine, HandlerKeeps
<1>2. pc = "read" /\ persona # "ssh" /\ Input' = <<>> BY <1>1, TakePartsEffect
<1>3. Stream = Input /\ Owed = due /\ Stream' = <<>> /\ Owed' = due
  BY <1>1, <1>2 DEF Stream, Owed
<1>4. Input \in Seq(Piece) /\ due \in Seq(Ends) /\ LineEnds(Input) = {}
  BY <1>1, StreamTypes DEF TakeParts
<1>5. Spells(due, Input) BY <1>1, <1>2, <1>3 DEF OrderInv
<1>6. due = <<>> BY <1>4, <1>5, SpellsNone
<1>7. Spells(<<>>, <<>>)
  <2>1. <<>> \in Seq(Piece) /\ <<>> \in Seq(Ends) /\ LineEnds(<<>>) = {} BY DEF LineEnds
  <2> QED BY <2>1, SpellsNone
<1> QED BY <1>1, <1>2, <1>3, <1>6, <1>7 DEF OrderInv

\* An answer pays for the line in hand and leaves the rest as it is.
LEMMA OrderAnswer == TypeOK /\ LineInv /\ OrderInv /\ Answer => OrderInv'
<1> SUFFICES ASSUME TypeOK, LineInv, OrderInv, Answer, pc' # "done"
             PROVE  Spells(Owed', Stream') /\ pc' # "line"
  BY DEF OrderInv
<1>1. /\ pc = "line" /\ client # "reset" /\ due' = Tail(due)
      /\ UNCHANGED <<persona, client, buf, rcv>>
  BY DEF Answer, Respond, HandlerKeeps
<1>2. pc' = "read" /\ line' = <<>> BY DEF Answer, Respond, Loop, Return
<1>3. persona # "ssh" BY <1>1 DEF LineInv
<1>4. Spells(Owed, Stream) BY <1>1, <1>3 DEF OrderInv
<1>5. Owed' = Owed BY <1>1, <1>2 DEF Owed
<1>6. Input' = Input BY <1>1 DEF Input
<1>7. Loose' = Loose BY <1>1, <1>2, <1>6 DEF Loose
<1>8. Stream' = Stream BY <1>1, <1>6, <1>7 DEF Stream
<1> QED BY <1>2, <1>4, <1>5, <1>8

\* The handler and the clock keep the order.
LEMMA OrderHandler == TypeOK /\ LineInv /\ OrderInv /\ (Handler \/ Tick) => OrderInv'
<1> SUFFICES ASSUME TypeOK, LineInv, OrderInv, Handler \/ Tick PROVE OrderInv' OBVIOUS
<1>1. CASE Start
  <2>1. UNCHANGED <<persona, line, buf, rcv, client, due>> /\ pc = "jitter"
    BY <1>1 DEF Start
  <2>2. pc' \in {"read", "done"} BY <1>1 DEF Start, Return
  <2>3. Input' = Input /\ Owed' = Owed /\ Loose' = Loose
    BY <2>1, <2>2 DEF Input, Owed, Loose
  <2>4. Stream' = Stream BY <2>1, <2>3 DEF Stream
  <2> QED BY <2>1, <2>2, <2>3, <2>4 DEF OrderInv
<1>2. CASE SshReads BY <1>2 DEF SshReads, HandlerKeeps, OrderInv
<1>3. CASE SshEnds BY <1>3 DEF SshEnds, HandlerKeeps, OrderInv
<1>4. CASE ReadLine BY <1>4, OrderReadLine
<1>5. CASE WaitForLine BY <1>5, OrderWait
<1>6. CASE ReadRest BY <1>6, OrderReadRest
<1>7. CASE ReadEnds BY <1>7 DEF ReadEnds, Return, OrderInv
<1>8. CASE Answer BY <1>8, OrderAnswer
<1>9. CASE WriteFails BY <1>9 DEF WriteFails, Return, OrderInv
<1>11. CASE NotUtf8 BY <1>11 DEF NotUtf8, Return, OrderInv
<1>10. CASE Tick
  <2>1. UNCHANGED <<persona, pc, line, buf, rcv, client, due>> BY <1>10 DEF Tick
  <2> QED BY <2>1 DEF OrderInv, Owed, Stream, Loose, Input
<1> QED BY <1>1, <1>2, <1>3, <1>4, <1>5, <1>6, <1>7, <1>8, <1>9, <1>10, <1>11 DEF Handler

\* Nothing is owed to a client that has sent nothing.
LEMMA OrderInit == Init => OrderInv
<1> SUFFICES ASSUME Init PROVE Spells(<<>>, <<>>) /\ Owed = <<>> /\ Stream = <<>> /\ pc # "line"
  BY DEF OrderInv
<1>1. <<>> \in Seq(Piece) /\ <<>> \in Seq(Ends) /\ LineEnds(<<>>) = {} BY DEF LineEnds
<1>2. Input = <<>> BY <1>1, ConcatEmptySeq DEF Init, Input
<1>3. Spells(<<>>, <<>>) BY <1>1, SpellsNone
<1> QED BY <1>2, <1>3 DEF Init, Owed, Stream

\* What a handler has read and not answered, and what it has still to read, is what its
\* client is owed, in the client's order.
THEOREM NothingIsForgotten == Spec => [](TypeOK /\ LineInv /\ OrderInv)
<1>1. Init => OrderInv BY OrderInit
<1>2. TypeOK /\ LineInv /\ OrderInv /\ [Next]_vars => OrderInv'
  <2> SUFFICES ASSUME TypeOK, LineInv, OrderInv, [Next]_vars PROVE OrderInv' OBVIOUS
  <2>1. CASE Next
    <3>1. ClientStep \/ Handler \/ Tick BY <2>1 DEF Next, ClientStep
    <3> QED BY <3>1, OrderClient, OrderHandler
  <2>2. CASE UNCHANGED vars
    <3>1. UNCHANGED <<persona, pc, line, buf, rcv, client, due>> BY <2>2 DEF vars
    <3> QED BY <3>1 DEF OrderInv, Owed, Stream, Loose, Input
  <2> QED BY <2>1, <2>2
<1> QED BY <1>1, <1>2, HandlerTypes, PTL DEF Spec

\* AnswersInOrder: every answer is for the oldest line without one, however the client
\* splits and pipelines its lines, and none is for a line that is not UTF-8 or for one
\* behind it (handle_http, handle_redis, handle_raw).
THEOREM AnswersKeepOrder == Spec => AnswersInOrder
<1>1. TypeOK /\ LineInv /\ OrderInv /\ [Next]_vars
        => [Len(due') < Len(due) => Command(line) = Head(due) /\ Head(due) # "binary"]_vars
  <2> SUFFICES ASSUME TypeOK, LineInv, OrderInv, Next, Len(due') < Len(due)
               PROVE  Command(line) = Head(due) /\ Head(due) # "binary"
    OBVIOUS
  <2>1. due \in Seq(Ends) BY DEF TypeOK
  <2>2. \A x : x \in Ends => Len(Append(due, x)) = Len(due) + 1 /\ Len(due) \in Nat BY <2>1
  <2>3. ASSUME NEW x \in Ends, due' = Append(due, x) PROVE FALSE
    <3>1. Len(due') = Len(due) + 1 /\ Len(due) \in Nat BY <2>2, <2>3
    <3> QED BY <3>1
  <2>7. due' # due
    <3>1. Len(due) \in Nat BY <2>1
    <3> QED BY <3>1
  <2>4. ~ ClientStep
    <3>1. ASSUME NEW x \in Piece, Send(x) PROVE FALSE BY <2>3, <2>7, <3>1 DEF Send
    <3>2. ~ ClientCloses BY <2>3, <2>7, StreamTypes DEF ClientCloses
    <3>3. ~ ClientResets /\ ~ ClientReads BY <2>7 DEF ClientResets, ClientReads
    <3> QED BY <3>1, <3>2, <3>3 DEF ClientStep
  <2>5. Answer
    <3>1. Handler \/ Tick BY <2>4 DEF Next, ClientStep
    <3> QED BY <2>7, <3>1 DEF Handler, Start, SshReads, SshEnds, ReadLine, WaitForLine, ReadRest,
                        ReadEnds, NotUtf8, WriteFails, Tick
  <2>6. pc = "line" /\ client # "reset" /\ persona # "ssh" /\ Command(line) # "binary" BY <2>5 DEF Answer, Respond, LineInv
  <2> QED BY <2>6 DEF OrderInv
<1> QED BY <1>1, NothingIsForgotten, PTL DEF AnswersInOrder, Spec

----------------------------------------------------------------------------
(* RST only for a client that runs ahead. *)

\* A handler that has not returned has not closed its socket.
LEMMA ResetLate ==
  ASSUME LineInv, ResetInv, pc # "done", UNCHANGED close
  PROVE  ResetInv'
BY DEF LineInv, ResetInv

\* The client's steps leave what made the handler send RST.
LEMMA ResetClient == TypeOK /\ LineInv /\ ResetInv /\ ClientStep => ResetInv'
<1> SUFFICES ASSUME TypeOK, LineInv, ResetInv, ClientStep,
                    close' = "rst", client' # "reset", persona' # "ssh"
             PROVE  /\ rcv' # <<>>
                    /\ rcv'[Len(rcv')] = "part" \/ Len(due') > (IF Unreadable' THEN 1 ELSE 0)
  BY DEF ResetInv
<1>1. UNCHANGED <<persona, pc, line, close>> /\ client # "reset"
  BY DEF ClientStep, Send, ClientCloses, ClientResets, ClientReads, ClientKeeps
<1>2. pc = "done" BY <1>1 DEF LineInv
<1>3. ClientCloses \/ ClientReads BY <1>2 DEF ClientStep, Send, ClientResets
<1>4. UNCHANGED rcv BY <1>3 DEF ClientCloses, ClientReads
<1>5. Len(due') >= Len(due) /\ Len(due) \in Nat /\ Len(due') \in Nat
  <2>1. due \in Seq(Ends) BY DEF TypeOK
  <2>2. Len(Append(due, "other")) = Len(due) + 1 BY <2>1, StreamTypes
  <2>3. due' = due \/ due' = Append(due, "other") BY <1>3 DEF ClientCloses, ClientReads
  <2> QED BY <2>1, <2>2, <2>3
<1>6. Unreadable' = Unreadable BY <1>1 DEF Unreadable, Command
<1>7. rcv # <<>> /\ (rcv[Len(rcv)] = "part" \/ Len(due) > (IF Unreadable THEN 1 ELSE 0))
  BY <1>1 DEF ResetInv
<1> QED BY <1>4, <1>5, <1>6, <1>7

\* What waits behind the line in hand is part of a line, or owed as another line.
LEMMA LeftBehind ==
  ASSUME TypeOK, LineInv, OrderInv, pc = "line", client # "reset",
         rcv # <<>>, rcv[Len(rcv)] # "part"
  PROVE  due \in Seq(Ends) /\ Tail(due) \in Seq(Ends) /\ Len(Tail(due)) > 0 /\ Len(due) > 1
<1>1. buf \in Seq(Piece) /\ rcv \in Seq(Piece) /\ due \in Seq(Ends) BY DEF TypeOK
<1>2. Len(rcv) \in 1 .. Len(rcv) /\ rcv[Len(rcv)] \in Ends BY <1>1 DEF Piece
<1>3. Input # <<>> /\ Input[Len(Input)] = rcv[Len(rcv)] BY <1>1, ConcatLast DEF Input
<1>4. Stream = Input BY <1>3 DEF Stream, Loose
<1>5. Input \in Seq(Piece) BY StreamTypes
<1>6. Len(Input) \in LineEnds(Input) BY <1>2, <1>3, <1>5 DEF LineEnds
<1>7. persona # "ssh" BY DEF LineInv
<1>8. Spells(Owed, Stream) /\ due # <<>> BY <1>7 DEF OrderInv
<1>9. Owed \in Seq(Ends) /\ Owed = Tail(due) BY <1>8, StreamTypes DEF Owed
<1>10. Owed # <<>> BY <1>4, <1>5, <1>6, <1>8, <1>9, SpellsNone
<1>11. Len(Tail(due)) > 0 BY <1>9, <1>10
<1>12. Len(Tail(due)) = Len(due) - 1 BY <1>1, <1>8
<1>13. Len(due) \in Nat BY <1>1
<1> QED BY <1>1, <1>9, <1>11, <1>12, <1>13

\* A handler that returns with its last answer leaves the lines that it has not read.
LEMMA ResetAnswer == TypeOK /\ LineInv /\ OrderInv /\ ResetInv /\ Answer => ResetInv'
<1> SUFFICES ASSUME TypeOK, LineInv, OrderInv, ResetInv, Answer PROVE ResetInv' OBVIOUS
<1>1. /\ pc = "line" /\ client # "reset" /\ due' = Tail(due) /\ UNCHANGED rcv
      /\ Command(line) # "binary"
  BY DEF Answer, Respond
<1>2. CASE UNCHANGED close BY <1>1, <1>2, ResetLate
<1>3. CASE ~ UNCHANGED close
  <2>1. (close' = IF rcv # <<>> THEN "rst" ELSE "fin") /\ UNCHANGED line
    BY <1>3 DEF Answer, Respond, Return, Loop
  <2>2. ~ Unreadable' BY <1>1, <2>1 DEF Unreadable, Command
  <2>3. CASE rcv = <<>> BY <2>1, <2>3 DEF ResetInv
  <2>4. CASE rcv # <<>> /\ rcv[Len(rcv)] = "part" BY <1>1, <2>4 DEF ResetInv
  <2>5. CASE rcv # <<>> /\ rcv[Len(rcv)] # "part" BY <1>1, <2>2, <2>5, LeftBehind DEF ResetInv
  <2> QED BY <2>3, <2>4, <2>5
<1> QED BY <1>2, <1>3

\* A handler that returns on a line it cannot read leaves that line and those behind it.
LEMMA ResetNotUtf8 == TypeOK /\ LineInv /\ OrderInv /\ ResetInv /\ NotUtf8 => ResetInv'
<1> SUFFICES ASSUME TypeOK, LineInv, OrderInv, ResetInv, NotUtf8, client # "reset" PROVE ResetInv'
  BY DEF NotUtf8, HandlerKeeps, ResetInv
<1>1. /\ pc = "line" /\ UNCHANGED <<rcv, due>>
      /\ close' = IF rcv # <<>> THEN "rst" ELSE "fin"
  BY DEF NotUtf8, Return
<1>2. CASE rcv = <<>> BY <1>1, <1>2 DEF ResetInv
<1>3. CASE rcv # <<>> /\ rcv[Len(rcv)] = "part" BY <1>1, <1>3 DEF ResetInv
<1>4. CASE rcv # <<>> /\ rcv[Len(rcv)] # "part"
  <2>1. Len(due) \in Nat /\ Len(due) > 1 BY <1>1, <1>4, LeftBehind
  <2> QED BY <1>1, <2>1 DEF ResetInv
<1> QED BY <1>2, <1>3, <1>4

\* The handler and the clock.
LEMMA ResetHandler ==
  TypeOK /\ LineInv /\ OrderInv /\ ResetInv /\ (Handler \/ Tick) => ResetInv'
<1> SUFFICES ASSUME TypeOK, LineInv, OrderInv, ResetInv, Handler \/ Tick PROVE ResetInv'
  OBVIOUS
<1>1. CASE Start
  <2>1. pc = "jitter" /\ UNCHANGED client BY <1>1 DEF Start
  <2>2. client = "reset" \/ UNCHANGED close BY <1>1 DEF Start
  <2>3. CASE client = "reset" BY <2>1, <2>3 DEF ResetInv
  <2>4. CASE UNCHANGED close BY <2>1, <2>4, ResetLate
  <2> QED BY <2>2, <2>3, <2>4
<1>2. CASE SshReads BY <1>2 DEF SshReads, HandlerKeeps, ResetInv
<1>3. CASE SshEnds BY <1>3 DEF SshEnds, HandlerKeeps, ResetInv
<1>4. CASE ReadLine BY <1>4, ResetLate DEF ReadLine, Reading
<1>5. CASE WaitForLine BY <1>5, ResetLate DEF WaitForLine, TakeParts, Reading
<1>6. CASE ReadRest BY <1>6, ResetLate DEF ReadRest, TakeParts, Reading
<1>7. CASE ReadEnds BY <1>7 DEF ReadEnds, Return, ResetInv
<1>8. CASE Answer BY <1>8, ResetAnswer
<1>9. CASE WriteFails BY <1>9 DEF WriteFails, HandlerKeeps, ResetInv
<1>10. CASE Tick BY <1>10, ResetLate DEF Tick
<1>11. CASE NotUtf8 BY <1>11, ResetNotUtf8
<1> QED BY <1>1, <1>2, <1>3, <1>4, <1>5, <1>6, <1>7, <1>8, <1>9, <1>10, <1>11 DEF Handler

\* What a handler that sent RST left unread is the begin of a line, or a line that is owed
\* an answer besides the one that could not be read.
LEMMA ResetCause == TypeOK /\ ResetInv => ResetOnlyAhead
<1> SUFFICES ASSUME TypeOK, rcv # <<>>, rcv[Len(rcv)] = "part" PROVE Unfinished
  BY DEF ResetInv, ResetOnlyAhead
<1>1. line \o buf \in Seq(Piece) /\ rcv \in Seq(Piece) BY PieceSeqs DEF TypeOK
<1>2. /\ line \o buf \o rcv # <<>>
      /\ (line \o buf \o rcv)[Len(line \o buf \o rcv)] = "part"
  BY <1>1, ConcatLast
<1> QED BY <1>2 DEF Unfinished

\* ResetOnlyAhead: every client but SSH's that sends nothing behind the last line that is
\* answered, or that is not UTF-8, is closed with FIN
\* (shutdown() and the drop of the socket, personas.rs:82-172).
THEOREM OrderlyClose == Spec => []ResetOnlyAhead
<1>1. Init => ResetInv BY DEF Init, ResetInv
<1>2. TypeOK /\ LineInv /\ OrderInv /\ ResetInv /\ [Next]_vars => ResetInv'
  <2> SUFFICES ASSUME TypeOK, LineInv, OrderInv, ResetInv, [Next]_vars PROVE ResetInv'
    OBVIOUS
  <2>1. CASE Next
    <3>1. ClientStep \/ Handler \/ Tick BY <2>1 DEF Next, ClientStep
    <3> QED BY <3>1, ResetClient, ResetHandler
  <2>2. CASE UNCHANGED vars BY <2>2 DEF vars, ResetInv, Unreadable, Command
  <2> QED BY <2>1, <2>2
<1>3. TypeOK /\ ResetInv => ResetOnlyAhead BY ResetCause
<1> QED BY <1>1, <1>2, <1>3, NothingIsForgotten, PTL DEF Spec
=============================================================================
