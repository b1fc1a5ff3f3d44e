--------------------------- MODULE HttpConnProofs ---------------------------
(***************************************************************************)
(* HttpConn for requests and files of any kind and size: the parser finds  *)
(* in the buffer what the client meant, however the request was cut, who   *)
(* owns the mapping, and what the client receives however much each writev *)
(* takes.                                                                  *)
(***************************************************************************)
EXTENDS HttpConn, SequenceTheorems, FiniteSetTheorems, WellFoundedInduction, TLAPS

USE SizesAssumption

----------------------------------------------------------------------------
(* The bytes of a request. *)

\* Of naturals one is the least: the sets 0..x are well-founded.
LEMMA Least ==
    ASSUME NEW S \in SUBSET Nat, S # {}
    PROVE  Min(S) \in S /\ \A y \in S : Min(S) <= y
<1> DEFINE Below == {0..x : x \in S}
           R == StrictSubsetOrdering(Nat)
<1>1. IsWellFoundedOn(R, FiniteSubsetsOf(Nat))
  BY FS_StrictSubsetOrderingWellFounded
<1>2. Below \subseteq FiniteSubsetsOf(Nat) /\ Below # {}
  <2>1. ASSUME NEW x \in S PROVE 0..x \in SUBSET Nat /\ IsFiniteSet(0..x)
    BY FS_Interval
  <2> QED
    BY <2>1 DEF FiniteSubsetsOf
<1>3. PICK T \in Below : \A U \in Below : ~(<<U, T>> \in R)
  <2> HIDE DEF Below, R
  <2> QED
    BY <1>1, <1>2, WFMin
<1>4. PICK x \in S : T = 0..x
  OBVIOUS
<1>5. ASSUME NEW y \in S, y < x PROVE FALSE
  <2>1. 0..y \in Below
    OBVIOUS
  <2>2. 0..y \subseteq 0..x /\ x \in 0..x /\ x \notin 0..y
    BY <1>5
  <2>3. <<0..y, 0..x>> \in R
    BY <2>2 DEF StrictSubsetOrdering
  <2> QED
    BY <1>3, <1>4, <2>1, <2>3
<1>6. \A y \in S : x <= y
  BY <1>5
<1> QED
  BY <1>6 DEF Min

LEMMA Joined ==
    ASSUME NEW X, NEW s \in Seq(X), NEW t \in Seq(X), NEW u, u = s \o t
    PROVE  /\ u \in Seq(X) /\ Len(u) = Len(s) + Len(t) /\ Len(s) \in Nat /\ Len(t) \in Nat
           /\ \A i \in 1..Len(s) : u[i] = s[i]
           /\ \A i \in 1..Len(t) : u[Len(s) + i] = t[i]
<1>1. /\ u \in Seq(X) /\ Len(u) = Len(s) + Len(t) /\ Len(s) \in Nat /\ Len(t) \in Nat
      /\ \A i \in 1..Len(s) + Len(t) : u[i] = IF i <= Len(s) THEN s[i] ELSE t[i - Len(s)]
  BY ConcatProperties
<1> QED
  BY <1>1

\* What a request consists of.
Symbols == LineTexts \cup HeaderTexts \cup Pieces \cup {"CR", "LF"}

LEMMA HeaderBytes ==
    ASSUME NEW hs \in Seq(HeaderTexts)
    PROVE  /\ HeaderLines(hs) \in Seq(Symbols) /\ Len(HeaderLines(hs)) = 3 * Len(hs)
           /\ \A p \in 1..Len(hs) : /\ HeaderLines(hs)[3 * p - 2] = hs[p]
                                    /\ HeaderLines(hs)[3 * p - 1] = "CR"
                                    /\ HeaderLines(hs)[3 * p] = "LF"
<1>1. Len(hs) \in Nat /\ \A p \in 1..Len(hs) : hs[p] \in Symbols
  BY DEF HeaderTexts, Symbols
<1>2. ASSUME NEW i \in 1..3 * Len(hs) PROVE HeaderLines(hs)[i] \in Symbols
  <2>1. i % 3 \in 0..2
    BY <1>1
  <2>2. i % 3 = 1 => (i + 2) \div 3 \in 1..Len(hs)
    BY <1>1
  <2>3. CASE i % 3 = 1
    <3>1. HeaderLines(hs)[i] = hs[(i + 2) \div 3]
      BY <2>3 DEF HeaderLines
    <3> QED
      BY <1>1, <2>2, <2>3, <3>1
  <2>4. CASE i % 3 = 2 \/ i % 3 = 0
    <3>1. HeaderLines(hs)[i] \in {"CR", "LF"}
      BY <2>4 DEF HeaderLines
    <3> QED
      BY <3>1 DEF Symbols
  <2> QED
    BY <2>1, <2>3, <2>4
<1>3. ASSUME NEW p \in 1..Len(hs)
      PROVE  /\ HeaderLines(hs)[3 * p - 2] = hs[p]
             /\ HeaderLines(hs)[3 * p - 1] = "CR" /\ HeaderLines(hs)[3 * p] = "LF"
  <2>1. 3 * p - 2 \in 1..3 * Len(hs) /\ 3 * p - 1 \in 1..3 * Len(hs) /\ 3 * p \in 1..3 * Len(hs)
    BY <1>1
  <2>2. (3 * p - 2) % 3 = 1 /\ (3 * p - 2 + 2) \div 3 = p /\ (3 * p - 1) % 3 = 2 /\ (3 * p) % 3 = 0
    BY <1>1
  <2> DEFINE Symbol(i) == CASE i % 3 = 1 -> hs[(i + 2) \div 3] [] i % 3 = 2 -> "CR" [] i % 3 = 0 -> "LF"
  <2>3. \A i \in 1..3 * Len(hs) : HeaderLines(hs)[i] = Symbol(i)
    BY DEF HeaderLines
  <2>4. Symbol(3 * p - 2) = hs[p] /\ Symbol(3 * p - 1) = "CR" /\ Symbol(3 * p) = "LF"
    BY <2>2
  <2> HIDE DEF Symbol
  <2> QED
    BY <2>1, <2>3, <2>4
<1> QED
  <2>1. DOMAIN HeaderLines(hs) = 1..3 * Len(hs) /\ 3 * Len(hs) \in Nat
    BY <1>1 DEF HeaderLines
  <2>2. HeaderLines(hs) = [i \in 1..3 * Len(hs) |-> HeaderLines(hs)[i]]
    BY DEF HeaderLines
  <2>3. HeaderLines(hs) \in Seq(Symbols)
    BY <1>2, <2>1, <2>2
  <2> QED
    BY <1>3, <2>1, <2>3

\* The text of line p: the request line, or the p-th header.
TextOf(m, p) == IF p = 0 THEN m.line ELSE m.headers[p]

LEMMA LinesOf ==
    ASSUME NEW m \in Messages, m.line # "lf"
    PROVE  /\ Lines[m] \in Seq(Symbols) /\ Len(m.headers) \in Nat
           /\ Len(Lines[m]) = 3 * Len(m.headers) + 5
           /\ \A p \in 0..Len(m.headers) : /\ Lines[m][3 * p + 1] = TextOf(m, p)
                                           /\ Lines[m][3 * p + 2] = "CR"
                                           /\ Lines[m][3 * p + 3] = "LF"
           /\ Lines[m][3 * Len(m.headers) + 4] = "CR" /\ Lines[m][3 * Len(m.headers) + 5] = "LF"
<1> DEFINE T == <<m.line>>
           E == <<"CR", "LF">>
           F == T \o E
           G == HeaderLines(m.headers)
           FG == F \o G
           n == Len(m.headers)
<1>1. m.line \in Symbols /\ m.headers \in Seq(HeaderTexts) /\ n \in Nat
  BY MessagesAssumption DEF Symbols
<1>2. Lines[m] = FG \o E
  BY DEF Lines, Line
<1>3. T \in Seq(Symbols) /\ Len(T) = 1 /\ T[1] = m.line
  BY <1>1
<1>4. E \in Seq(Symbols) /\ Len(E) = 2 /\ E[1] = "CR" /\ E[2] = "LF"
  BY DEF Symbols
<1>5. G \in Seq(Symbols) /\ Len(G) = 3 * n
      /\ \A p \in 1..n : G[3 * p - 2] = m.headers[p] /\ G[3 * p - 1] = "CR" /\ G[3 * p] = "LF"
  BY <1>1, HeaderBytes
<1>6. F = T \o E /\ FG = F \o G
  OBVIOUS
<1> HIDE DEF T, E, F, G, FG, n
<1>7. F \in Seq(Symbols) /\ Len(F) = 3 /\ F[1] = m.line /\ F[2] = "CR" /\ F[3] = "LF"
  <2>1. /\ F \in Seq(Symbols) /\ Len(F) = Len(T) + Len(E)
        /\ \A i \in 1..Len(T) : F[i] = T[i]
        /\ \A i \in 1..Len(E) : F[Len(T) + i] = E[i]
    <3>1. T \in Seq(Symbols) /\ E \in Seq(Symbols) /\ F = T \o E
      BY <1>3, <1>4, <1>6
    <3> QED
      BY <3>1, Joined
  <2> QED
    BY <1>3, <1>4, <2>1
<1>8. /\ FG \in Seq(Symbols) /\ Len(FG) = 3 * n + 3
      /\ \A i \in 1..3 : FG[i] = F[i]
      /\ \A i \in 1..3 * n : FG[3 + i] = G[i]
  <2>1. /\ FG \in Seq(Symbols) /\ Len(FG) = Len(F) + Len(G)
        /\ \A i \in 1..Len(F) : FG[i] = F[i]
        /\ \A i \in 1..Len(G) : FG[Len(F) + i] = G[i]
    <3>1. F \in Seq(Symbols) /\ G \in Seq(Symbols) /\ FG = F \o G
      BY <1>5, <1>6, <1>7
    <3> QED
      BY <3>1, Joined
  <2> QED
    BY <1>1, <1>5, <1>7, <2>1
<1>9. /\ Lines[m] \in Seq(Symbols) /\ Len(Lines[m]) = 3 * n + 5
      /\ \A i \in 1..3 * n + 3 : Lines[m][i] = FG[i]
      /\ \A i \in 1..2 : Lines[m][3 * n + 3 + i] = E[i]
  <2>1. /\ Lines[m] \in Seq(Symbols) /\ Len(Lines[m]) = Len(FG) + Len(E)
        /\ \A i \in 1..Len(FG) : Lines[m][i] = FG[i]
        /\ \A i \in 1..Len(E) : Lines[m][Len(FG) + i] = E[i]
    <3>1. FG \in Seq(Symbols) /\ E \in Seq(Symbols) /\ Lines[m] = FG \o E
      BY <1>2, <1>4, <1>8
    <3> QED
      BY <3>1, Joined
  <2> QED
    BY <1>1, <1>4, <1>8, <2>1
<1>10. ASSUME NEW p \in 0..n
       PROVE  Lines[m][3 * p + 1] = TextOf(m, p) /\ Lines[m][3 * p + 2] = "CR" /\ Lines[m][3 * p + 3] = "LF"
  <2>1. /\ 3 * p + 1 \in 1..3 * n + 3 /\ 3 * p + 2 \in 1..3 * n + 3 /\ 3 * p + 3 \in 1..3 * n + 3
    BY <1>1
  <2>2. CASE p = 0
    BY <1>7, <1>8, <1>9, <2>1, <2>2 DEF TextOf
  <2>3. CASE p # 0
    <3>1. /\ p \in 1..n /\ 3 * p - 2 \in 1..3 * n /\ 3 * p - 1 \in 1..3 * n /\ 3 * p \in 1..3 * n
      BY <1>1, <2>3
    <3>2. FG[3 + (3 * p - 2)] = m.headers[p] /\ FG[3 + (3 * p - 1)] = "CR" /\ FG[3 + 3 * p] = "LF"
      BY <1>5, <1>8, <3>1
    <3>3. 3 + (3 * p - 2) = 3 * p + 1 /\ 3 + (3 * p - 1) = 3 * p + 2 /\ 3 + 3 * p = 3 * p + 3
      BY <3>1
    <3>4. FG[3 * p + 1] = m.headers[p] /\ FG[3 * p + 2] = "CR" /\ FG[3 * p + 3] = "LF"
      BY <3>2, <3>3
    <3> QED
      BY <1>9, <2>1, <2>3, <3>4 DEF TextOf
  <2> QED
    BY <2>2, <2>3
<1>11. Lines[m][3 * n + 4] = "CR" /\ Lines[m][3 * n + 5] = "LF"
  <2>1. Lines[m][3 * n + 3 + 1] = "CR" /\ Lines[m][3 * n + 3 + 2] = "LF"
    BY <1>4, <1>9
  <2> QED
    BY <1>1, <2>1
<1> QED
  BY <1>1, <1>9, <1>10, <1>11 DEF n

LEMMA LoneFeed ==
    ASSUME NEW m \in Messages, m.line = "lf"
    PROVE  /\ Lines[m] \in Seq(Symbols) /\ Len(Lines[m]) > 2
           /\ Lines[m][1] = "get" /\ Lines[m][2] = "LF"
<1> DEFINE A == <<"get", "LF">>
           E == <<"CR", "LF">>
           G == HeaderLines(m.headers)
<1>1. A \in Seq(Symbols) /\ Len(A) = 2 /\ A[1] = "get" /\ A[2] = "LF"
  BY DEF Symbols, LineTexts
<1>2. E \in Seq(Symbols) /\ Len(E) = 2
  BY DEF Symbols
<1>3. G \in Seq(Symbols) /\ Len(G) \in Nat
  BY HeaderBytes, MessagesAssumption
<1>4. Lines[m] = ((A \o E) \o G) \o E
  BY DEF Lines, Line
<1> DEFINE AE == A \o E
           AG == AE \o G
<1>5. AE = A \o E /\ AG = AE \o G /\ Lines[m] = AG \o E
  BY <1>4
<1> HIDE DEF A, E, G, AE, AG
<1>6. AE \in Seq(Symbols) /\ Len(AE) = 4 /\ AE[1] = "get" /\ AE[2] = "LF"
  <2>1. AE \in Seq(Symbols) /\ Len(AE) = Len(A) + Len(E) /\ \A i \in 1..Len(A) : AE[i] = A[i]
    <3>1. A \in Seq(Symbols) /\ E \in Seq(Symbols) /\ AE = A \o E
      BY <1>1, <1>2, <1>5
    <3> QED
      BY <3>1, Joined
  <2> QED
    BY <1>1, <1>2, <2>1
<1>7. AG \in Seq(Symbols) /\ Len(AG) > 2 /\ AG[1] = "get" /\ AG[2] = "LF"
  <2>1. AG \in Seq(Symbols) /\ Len(AG) = Len(AE) + Len(G) /\ \A i \in 1..Len(AE) : AG[i] = AE[i]
    <3>1. AE \in Seq(Symbols) /\ G \in Seq(Symbols) /\ AG = AE \o G
      BY <1>3, <1>5, <1>6
    <3> QED
      BY <3>1, Joined
  <2> QED
    BY <1>3, <1>6, <2>1
<1> QED
  <2>1. /\ Lines[m] \in Seq(Symbols) /\ Len(Lines[m]) = Len(AG) + Len(E)
        /\ \A i \in 1..Len(AG) : Lines[m][i] = AG[i]
    <3>1. AG \in Seq(Symbols) /\ E \in Seq(Symbols) /\ Lines[m] = AG \o E
      BY <1>2, <1>5, <1>7
    <3> QED
      BY <3>1, Joined
  <2>2. 1 \in 1..Len(AG) /\ 2 \in 1..Len(AG) /\ Len(AG) \in Nat
    BY <1>7
  <2> QED
    BY <1>2, <1>7, <2>1, <2>2

LEMMA BytesOf ==
    ASSUME NEW m \in Messages
    PROVE  /\ Bytes[m] \in Seq(Symbols) /\ m.body \in Seq(Symbols)
           /\ Len(Bytes[m]) \in Nat /\ Len(m.body) \in Nat
           /\ Len(Lines[m]) \in Nat /\ Len(Bytes[m]) = Len(Lines[m]) + Len(m.body)
           /\ \A i \in 1..Len(Lines[m]) : Bytes[m][i] = Lines[m][i]
           /\ \A i \in 1..Len(m.body) : Bytes[m][Len(Lines[m]) + i] = m.body[i]
<1>1. Lines[m] \in Seq(Symbols)
  BY LinesOf, LoneFeed
<1>2. m.body \in Seq(Symbols)
  <2>1. m.body \in Seq(Pieces) /\ Pieces \subseteq Symbols
    BY MessagesAssumption DEF Symbols
  <2> QED
    BY <2>1
<1>3. Bytes[m] = Lines[m] \o m.body
  BY DEF Bytes
<1>4. Len(Lines[m]) \in Nat /\ Len(m.body) \in Nat
  BY <1>1, <1>2
<1>5. /\ Bytes[m] \in Seq(Symbols) /\ Len(Bytes[m]) = Len(Lines[m]) + Len(m.body)
      /\ \A i \in 1..Len(Lines[m]) : Bytes[m][i] = Lines[m][i]
      /\ \A i \in 1..Len(m.body) : Bytes[m][Len(Lines[m]) + i] = m.body[i]
  <2> DEFINE A == Lines[m]
             E == m.body
             AE == Bytes[m]
  <2>1. A \in Seq(Symbols) /\ E \in Seq(Symbols) /\ AE = A \o E
    BY <1>1, <1>2, <1>3
  <2>2. /\ AE \in Seq(Symbols) /\ Len(AE) = Len(A) + Len(E)
        /\ \A i \in 1..Len(A) : AE[i] = A[i]
        /\ \A i \in 1..Len(E) : AE[Len(A) + i] = E[i]
    <3> HIDE DEF A, E, AE
    <3> QED
      BY <2>1, Joined
  <2> QED
    BY <2>2
<1>6. Len(Bytes[m]) \in Nat
  BY <1>5, LenProperties
<1> QED
  BY <1>2, <1>4, <1>5, <1>6

----------------------------------------------------------------------------
(* parse_line. *)

Parser ==
    [buf : Seq(Symbols), checked : Nat, start : Nat, state : {"line", "header", "content"},
     cgi : BOOLEAN, alive : BOOLEAN, length : Nat]

\* parse_line goes on, and not beyond what has been read.
LEMMA ScanRange ==
    ASSUME in \in Parser, in.checked <= Len(in.buf)
    PROVE  Checked \in in.checked..Len(in.buf)
<1>1. in.checked \in Nat /\ Len(in.buf) \in Nat
  BY DEF Parser
<1>2. CASE Ends = {}
  BY <1>1, <1>2 DEF Checked
<1>3. CASE Ends # {}
  <2>1. Ends \in SUBSET Nat
    BY <1>1 DEF Ends
  <2>2. End \in Ends
    BY <1>3, <2>1, Least DEF End
  <2>3. End \in in.checked..Len(in.buf) - 1 /\ At(End) \in {"CR", "LF"}
    BY <2>2 DEF Ends
  <2>4. ~LineOpen /\ At(End) = "CR" => End + 1 # Len(in.buf)
    BY DEF LineOpen
  <2> QED
    BY <1>1, <1>3, <2>3, <2>4 DEF Checked, LineOk
<1> QED
  BY <1>2, <1>3

\* It finds the line that ends at q if q is where the next CR is.
LEMMA ScanLine ==
    ASSUME in \in Parser, NEW q \in Nat, in.checked <= q, in.checked <= Len(in.buf),
           \A i \in in.checked..q - 1 : i < Len(in.buf) => At(i) \notin {"CR", "LF"},
           q < Len(in.buf) => At(q) = "CR",
           q + 1 < Len(in.buf) => At(q + 1) = "LF"
    PROVE  /\ q + 1 < Len(in.buf) => LineOk /\ End = q /\ Checked = q + 2
           /\ q + 1 >= Len(in.buf) => ~LineOk
           /\ q + 1 = Len(in.buf) => Checked = q
           /\ q >= Len(in.buf) => Checked = Len(in.buf)
<1>1. in.checked \in Nat /\ Len(in.buf) \in Nat
  BY DEF Parser
<1>2. CASE q >= Len(in.buf)
  <2>1. Ends = {}
    BY <1>1, <1>2 DEF Ends
  <2> QED
    BY <1>1, <1>2, <2>1 DEF Checked, LineOk, LineOpen
<1>3. CASE q < Len(in.buf)
  <2>1. Ends \in SUBSET Nat /\ q \in Ends /\ \A i \in Ends : i >= q
    BY <1>1, <1>3 DEF Ends
  <2>2. End = q
    <3>1. End \in Ends /\ \A i \in Ends : End <= i
      BY <2>1, Least DEF End
    <3> QED
      BY <2>1, <3>1
  <2>3. At(End) = "CR" /\ Ends # {}
    BY <1>3, <2>1, <2>2
  <2>4. CASE q + 1 = Len(in.buf)
    BY <1>1, <2>2, <2>3, <2>4 DEF Checked, LineOk, LineOpen
  <2>5. CASE q + 1 < Len(in.buf)
    <3>1. LineOk
      BY <1>1, <2>2, <2>3, <2>5 DEF LineOk, LineOpen
    <3> QED
      BY <1>1, <2>2, <2>3, <2>5, <3>1 DEF Checked
  <2> QED
    BY <1>1, <1>3, <2>4, <2>5
<1> QED
  BY <1>1, <1>2, <1>3

\* A lone LF behind one text it takes for a bad line.
LEMMA ScanLoneFeed ==
    ASSUME in \in Parser, in.checked \in 0..1, in.checked <= Len(in.buf),
           Len(in.buf) > 0 => At(0) = "get", Len(in.buf) > 1 => At(1) = "LF"
    PROVE  ~LineOk /\ Checked \in 0..1
<1>1. Len(in.buf) \in Nat
  BY DEF Parser
<1>2. CASE Len(in.buf) <= 1
  <2>1. Ends = {}
    BY <1>1, <1>2 DEF Ends
  <2>2. LineOpen
    BY <2>1 DEF LineOpen
  <2>3. Checked = Len(in.buf)
    BY <2>1 DEF Checked
  <2>4. ~LineOk
    BY <2>2 DEF LineOk
  <2>5. Len(in.buf) \in 0..1
    <3> DEFINE n == Len(in.buf)
    <3>1. n \in Nat /\ n <= 1
      BY <1>1, <1>2
    <3> HIDE DEF n
    <3>2. n \in 0..1
      BY <3>1
    <3> QED
      BY <3>2 DEF n
  <2>6. Checked \in 0..1
    BY <2>3, <2>5, Zenon
  <2> QED
    BY <2>4, <2>6
<1>3. CASE Len(in.buf) > 1
  <2>1. Ends \in SUBSET Nat /\ 1 \in Ends /\ 0 \notin Ends
    BY <1>1, <1>3 DEF Ends
  <2>2. End = 1
    <3>1. End \in Ends /\ \A i \in Ends : End <= i
      BY <2>1, Least DEF End
    <3> QED
      BY <2>1, <3>1
  <2>3. At(End) = "LF" /\ ~(End > 1) /\ Ends # {}
    BY <1>3, <2>1, <2>2
  <2>4. ~LineOk
    BY <2>3 DEF LineOk
  <2> QED
    BY <2>2, <2>3, <2>4 DEF Checked
<1> QED
  BY <1>1, <1>2, <1>3

----------------------------------------------------------------------------
(* Where the parser is in a request. *)

Headers == Len(msg.headers)

\* It looks for the end of line p, the last one the blank one, and knows what
\* the lines before it say.
AtLine(p) ==
    /\ in.start = 3 * p /\ in.checked \in 3 * p..3 * p + 1
    /\ p = Headers + 1 => in.checked = 3 * p
    /\ in.state = IF p = 0 THEN "line" ELSE "header"
    /\ p > 0 => WellFormed(msg)
    /\ in.cgi = (p > 0 /\ msg.line = "post")
    /\ in.alive = \E i \in 1..p - 1 : msg.headers[i] = "alive"
    /\ in.length = IF \E i \in 1..p - 1 : i \in Declared(msg) THEN Len(msg.body) ELSE 0

\* What all the lines say.
Meant ==
    /\ WellFormed(msg)
    /\ in.cgi = (msg.line = "post")
    /\ in.alive = Has("alive")
    /\ in.length = Len(msg.body)

InBody ==
    /\ in.state = "content" /\ Meant /\ in.length # 0
    /\ Len(Lines[msg]) <= in.start

Stuck == in.state = "line" /\ in.start = 0 /\ in.checked \in 0..1 /\ ~in.alive

Position ==
    IF msg.line = "lf" THEN Stuck ELSE InBody \/ \E p \in 0..Headers + 1 : AtLine(p)

Received == in.buf = SubSeq(Bytes[msg], 1, taken)

ClientInv == msg \in Messages /\ sent \in 0..Len(Bytes[msg]) /\ taken \in 0..sent

\* The indices are in order, and the buffer holds what has been read.
BufferInv ==
    /\ in \in Parser /\ in.start <= in.checked /\ in.checked <= Len(in.buf)
    /\ Len(in.buf) <= BufferSize

Parsing == pc = "parse" \/ (pc = "in" /\ ~done)

ParserInv ==
    /\ ClientInv /\ BufferInv
    /\ pc = "in" /\ done => in = Fresh /\ taken = sent
    /\ Parsing => Received /\ Position
    /\ pc \in {"parse", "request", "reply", "out", "writing"} => ~done
    /\ pc = "request" =>
         /\ Meant /\ taken = Len(Bytes[msg]) /\ Len(in.buf) = taken
         /\ in.cgi => content = msg.body
    /\ pc \in {"reply", "out", "writing"} /\ in.alive => taken = Len(Bytes[msg])

LEMMA Lengths ==
    ASSUME ClientInv
    PROVE  /\ Bytes[msg] \in Seq(Symbols) /\ Len(Bytes[msg]) \in Nat /\ Len(Lines[msg]) \in Nat
           /\ Len(msg.body) \in Nat /\ Len(Bytes[msg]) = Len(Lines[msg]) + Len(msg.body)
           /\ taken \in Nat /\ sent \in Nat /\ taken <= sent /\ sent <= Len(Bytes[msg])
           /\ msg.line # "lf" => Headers \in Nat /\ Len(Lines[msg]) = 3 * Headers + 5
<1>1. msg \in Messages
  BY DEF ClientInv
<1>2. /\ Bytes[msg] \in Seq(Symbols) /\ Len(msg.body) \in Nat
      /\ Len(Lines[msg]) \in Nat /\ Len(Bytes[msg]) = Len(Lines[msg]) + Len(msg.body)
  BY <1>1, BytesOf
<1>3. msg.line # "lf" => Headers \in Nat /\ Len(Lines[msg]) = 3 * Headers + 5
  BY <1>1, LinesOf DEF Headers
<1>4. Len(Bytes[msg]) \in Nat
  BY <1>1, BytesOf, LenProperties
<1>5. taken \in Nat /\ sent \in Nat /\ taken <= sent /\ sent <= Len(Bytes[msg])
  BY <1>4 DEF ClientInv
<1> QED
  BY <1>2, <1>3, <1>4, <1>5, Zenon

LEMMA BufferBytes ==
    ASSUME ClientInv, Received
    PROVE  Len(in.buf) = taken /\ \A i \in 0..taken - 1 : At(i) = Bytes[msg][i + 1]
<1>1. /\ Bytes[msg] \in Seq(Symbols) /\ Len(Bytes[msg]) \in Nat
      /\ taken \in Nat /\ taken <= Len(Bytes[msg])
  BY Lengths
<1> DEFINE b == Bytes[msg]
           s == SubSeq(b, 1, taken)
<1>2. Len(s) = taken /\ \A i \in 1..taken : s[i] = b[i]
  BY <1>1
<1>3. in.buf = s
  BY DEF Received
<1> HIDE DEF s, b
<1>4. \A i \in 0..taken - 1 : i + 1 \in 1..taken
  BY <1>1
<1> QED
  BY <1>2, <1>3, <1>4 DEF At, b

\* parse_line finds the end of line p as soon as the client's LF has been read.
LEMMA LineEnds ==
    ASSUME ClientInv, BufferInv, Received, msg.line # "lf", NEW p \in 0..Headers, AtLine(p)
    PROVE  /\ LineOk => Checked = 3 * p + 3 /\ Text = TextOf(msg, p)
           /\ ~LineOk => Checked \in 3 * p..3 * p + 1 /\ taken < 3 * p + 3
<1>1. /\ msg \in Messages /\ Headers \in Nat /\ taken \in Nat /\ Len(in.buf) = taken
      /\ \A i \in 0..taken - 1 : At(i) = Bytes[msg][i + 1]
      /\ Len(Lines[msg]) = 3 * Headers + 5
  BY Lengths, BufferBytes DEF ClientInv
<1>2. /\ Lines[msg][3 * p + 1] = TextOf(msg, p)
      /\ Lines[msg][3 * p + 2] = "CR" /\ Lines[msg][3 * p + 3] = "LF"
  BY <1>1, LinesOf DEF Headers
<1>3. \A i \in 1..Len(Lines[msg]) : Bytes[msg][i] = Lines[msg][i]
  BY <1>1, BytesOf
<1>4. /\ Bytes[msg][3 * p + 1] = TextOf(msg, p)
      /\ Bytes[msg][3 * p + 2] = "CR" /\ Bytes[msg][3 * p + 3] = "LF"
  <2>1. /\ 3 * p + 1 \in 1..Len(Lines[msg]) /\ 3 * p + 2 \in 1..Len(Lines[msg])
        /\ 3 * p + 3 \in 1..Len(Lines[msg])
    BY <1>1
  <2> QED
    BY <1>2, <1>3, <2>1
<1>5. TextOf(msg, p) \notin {"CR", "LF"}
  <2>1. CASE p = 0
    BY <1>1, <2>1, MessagesAssumption DEF TextOf, LineTexts
  <2>2. CASE p # 0
    <3>1. msg.headers \in Seq(HeaderTexts) /\ p \in 1..Len(msg.headers)
      BY <1>1, <2>2, MessagesAssumption DEF Headers
    <3>2. msg.headers[p] \in HeaderTexts
      BY <3>1
    <3> QED
      BY <2>2, <3>2, LengthsAssumption DEF TextOf, HeaderTexts
  <2> QED
    BY <2>1, <2>2
<1>6. /\ taken > 3 * p => At(3 * p) = TextOf(msg, p)
      /\ taken > 3 * p + 1 => At(3 * p + 1) = "CR"
      /\ taken > 3 * p + 2 => At(3 * p + 2) = "LF"
  <2>1. ASSUME NEW k \in 0..2, taken > 3 * p + k
        PROVE  At(3 * p + k) = Bytes[msg][3 * p + k + 1]
    BY <1>1, <2>1
  <2> QED
    BY <1>1, <1>4, <2>1
<1> DEFINE q == 3 * p + 1
<1>7. /\ in \in Parser /\ in.start = 3 * p /\ in.checked \in 3 * p..q
      /\ in.checked <= Len(in.buf) /\ q \in Nat
  BY DEF BufferInv, AtLine
<1>8. \A i \in in.checked..q - 1 : i < Len(in.buf) => At(i) \notin {"CR", "LF"}
  BY <1>1, <1>5, <1>6, <1>7
<1>9. (q < Len(in.buf) => At(q) = "CR") /\ (q + 1 < Len(in.buf) => At(q + 1) = "LF")
  BY <1>1, <1>6
<1>10. in.checked <= q
  BY <1>7
<1> HIDE DEF q
<1>11. /\ q + 1 < Len(in.buf) => LineOk /\ End = q /\ Checked = q + 2
       /\ q + 1 >= Len(in.buf) => ~LineOk
       /\ q + 1 = Len(in.buf) => Checked = q
       /\ q >= Len(in.buf) => Checked = Len(in.buf)
  BY <1>7, <1>8, <1>9, <1>10, ScanLine
<1>12. ASSUME LineOk PROVE Checked = 3 * p + 3 /\ Text = TextOf(msg, p)
  <2>1. q + 1 < taken /\ End = q /\ Checked = q + 2
    BY <1>1, <1>7, <1>11, <1>12
  <2> QED
    BY <1>1, <1>6, <1>7, <2>1 DEF Text, q
<1>13. ASSUME ~LineOk PROVE Checked \in 3 * p..3 * p + 1 /\ taken < 3 * p + 3
  <2>1. q + 1 >= taken
    BY <1>1, <1>7, <1>11, <1>13
  <2> QED
    BY <1>1, <1>7, <1>11, <2>1 DEF q
<1> QED
  BY <1>12, <1>13

\* And the end of the blank line.
LEMMA BlankEnds ==
    ASSUME ClientInv, BufferInv, Received, msg.line # "lf", AtLine(Headers + 1)
    PROVE  /\ LineOk => Checked = Len(Lines[msg]) /\ Text = "blank" /\ taken >= Len(Lines[msg])
           /\ ~LineOk => Checked = 3 * (Headers + 1) /\ taken < Len(Lines[msg])
<1>1. /\ msg \in Messages /\ Headers \in Nat /\ taken \in Nat /\ Len(in.buf) = taken
      /\ \A i \in 0..taken - 1 : At(i) = Bytes[msg][i + 1]
      /\ Len(Lines[msg]) = 3 * Headers + 5
  BY Lengths, BufferBytes DEF ClientInv
<1> DEFINE q == 3 * Headers + 3
<1>2. Lines[msg][q + 1] = "CR" /\ Lines[msg][q + 2] = "LF"
  BY <1>1, LinesOf DEF Headers
<1>3. \A i \in 1..Len(Lines[msg]) : Bytes[msg][i] = Lines[msg][i]
  BY <1>1, BytesOf
<1>4. Bytes[msg][q + 1] = "CR" /\ Bytes[msg][q + 2] = "LF"
  <2>1. q + 1 \in 1..Len(Lines[msg]) /\ q + 2 \in 1..Len(Lines[msg])
    BY <1>1
  <2> QED
    BY <1>2, <1>3, <2>1
<1>5. (taken > q => At(q) = "CR") /\ (taken > q + 1 => At(q + 1) = "LF")
  <2>1. ASSUME NEW k \in 0..1, taken > q + k PROVE At(q + k) = Bytes[msg][q + k + 1]
    BY <1>1, <2>1
  <2> QED
    BY <1>1, <1>4, <2>1
<1>6. in \in Parser /\ in.start = q /\ in.checked = q /\ q \in Nat /\ in.checked <= Len(in.buf)
  BY <1>1 DEF BufferInv, AtLine
<1>7. \A i \in in.checked..q - 1 : i < Len(in.buf) => At(i) \notin {"CR", "LF"}
  BY <1>6
<1>8. (q < Len(in.buf) => At(q) = "CR") /\ (q + 1 < Len(in.buf) => At(q + 1) = "LF")
  BY <1>1, <1>5
<1>9. q + 2 = Len(Lines[msg]) /\ q = 3 * (Headers + 1)
  BY <1>1
<1> HIDE DEF q
<1>10. /\ q + 1 < Len(in.buf) => LineOk /\ End = q /\ Checked = q + 2
       /\ q + 1 >= Len(in.buf) => ~LineOk
       /\ q + 1 = Len(in.buf) => Checked = q
       /\ q >= Len(in.buf) => Checked = Len(in.buf)
  BY <1>6, <1>7, <1>8, ScanLine
<1>11. ASSUME LineOk
       PROVE  Checked = Len(Lines[msg]) /\ Text = "blank" /\ taken >= Len(Lines[msg])
  <2>1. q + 1 < taken /\ End = q /\ Checked = q + 2
    BY <1>1, <1>6, <1>10, <1>11
  <2> QED
    BY <1>1, <1>6, <1>9, <2>1 DEF Text
<1>12. ASSUME ~LineOk PROVE Checked = 3 * (Headers + 1) /\ taken < Len(Lines[msg])
  <2>1. q + 1 >= taken /\ q <= taken
    BY <1>1, <1>6, <1>10, <1>12
  <2>2. Checked = q
    <3>1. q = Len(in.buf) \/ q + 1 = Len(in.buf)
      BY <1>1, <1>6, <2>1
    <3> QED
      BY <1>6, <1>10, <3>1
  <2>3. taken < q + 2
    BY <1>1, <1>6, <2>1
  <2> QED
    BY <1>9, <2>2, <2>3
<1> QED
  BY <1>11, <1>12

LEMMA StuckEnds ==
    ASSUME ClientInv, BufferInv, Received, msg.line = "lf", Stuck
    PROVE  ~LineOk /\ Checked \in 0..1
<1>1. /\ msg \in Messages /\ taken \in Nat /\ taken <= Len(Bytes[msg]) /\ Len(in.buf) = taken
      /\ \A i \in 0..taken - 1 : At(i) = Bytes[msg][i + 1]
  BY Lengths, BufferBytes DEF ClientInv
<1>2. Bytes[msg][1] = "get" /\ Bytes[msg][2] = "LF"
  <2>1. Len(Lines[msg]) > 2 /\ Lines[msg][1] = "get" /\ Lines[msg][2] = "LF" /\ Len(Lines[msg]) \in Nat
    BY <1>1, LoneFeed, BytesOf
  <2>2. \A i \in 1..Len(Lines[msg]) : Bytes[msg][i] = Lines[msg][i]
    BY <1>1, BytesOf
  <2> QED
    BY <2>1, <2>2
<1>3. (Len(in.buf) > 0 => At(0) = "get") /\ (Len(in.buf) > 1 => At(1) = "LF")
  BY <1>1, <1>2
<1>4. in \in Parser /\ in.checked \in 0..1 /\ in.checked <= Len(in.buf)
  BY DEF BufferInv, Stuck
<1> QED
  BY <1>3, <1>4, ScanLoneFeed

LEMMA FreshParser == Fresh \in Parser /\ Fresh.buf = <<>> /\ Len(Fresh.buf) = 0
  BY DEF Fresh, Parser

LEMMA ParserInit == Init => ParserInv
<1> SUFFICES ASSUME Init PROVE ParserInv
  OBVIOUS
<1>1. ClientInv
  BY BytesOf DEF Init, ClientInv
<1>2. BufferInv
  BY FreshParser DEF Init, BufferInv, Fresh
<1> QED
  BY <1>1, <1>2 DEF Init, ParserInv, Parsing

\* The first line of a new request.
LEMMA Started ==
    ASSUME Ask, pc' = "in", in' = Fresh
    PROVE  ParserInv'
<1>1. msg' \in Messages /\ sent' = 0 /\ taken' = 0 /\ ~done'
  BY DEF Ask
<1>2. Bytes[msg'] \in Seq(Symbols) /\ Len(Bytes[msg']) \in Nat
  BY <1>1, BytesOf
<1>3. ClientInv'
  BY <1>1, <1>2 DEF ClientInv
<1>4. BufferInv'
  BY FreshParser DEF BufferInv, Fresh
<1>5. Received'
  <2>1. SubSeq(Bytes[msg'], 1, 0) = <<>>
    BY <1>2
  <2> QED
    BY <1>1, <2>1, FreshParser DEF Received
<1>6. Position'
  <2>1. CASE msg'.line = "lf"
    BY <2>1 DEF Position, Stuck, Fresh
  <2>2. CASE msg'.line # "lf"
    <3>1. 0 \in 0..Headers' + 1
      BY <1>1, <2>2, LinesOf DEF Headers
    <3>2. 1..0 - 1 = {}
      OBVIOUS
    <3>3. AtLine(0)'
      <4>1. ~\E i \in 1..0 - 1 : msg'.headers[i] = "alive"
        BY <3>2
      <4>2. ~\E i \in 1..0 - 1 : i \in Declared(msg')
        BY <3>2
      <4>3. /\ in'.start = 0 /\ in'.checked = 0 /\ in'.state = "line"
            /\ in'.cgi = FALSE /\ in'.alive = FALSE /\ in'.length = 0
        BY DEF Fresh
      <4>4. in'.start = 3 * 0 /\ in'.checked = 3 * 0 /\ in'.checked \in 3 * 0..3 * 0 + 1 /\ ~(0 > 0)
        BY <4>3
      <4>5. in'.cgi = (0 > 0 /\ msg'.line = "post")
        BY <4>3, <4>4
      <4>6. in'.alive = \E i \in 1..0 - 1 : msg'.headers[i] = "alive"
        BY <4>1, <4>3
      <4> QED
        BY <4>2, <4>3, <4>4, <4>5, <4>6 DEF AtLine
    <3> QED
      BY <2>2, <3>1, <3>3 DEF Position
  <2> QED
    BY <2>1, <2>2
<1> QED
  BY <1>1, <1>3, <1>4, <1>5, <1>6 DEF ParserInv

\* The bytes that come next are put behind those there are.
LEMMA ReadOn ==
    ASSUME ClientInv, BufferInv, Received, Read
    PROVE  ClientInv' /\ BufferInv' /\ Received'
<1> DEFINE b == Bytes[msg]
           n == Amount
           s == SubSeq(b, 1, taken)
           t == SubSeq(b, taken + 1, taken + n)
           u == s \o t
<1>1. /\ b \in Seq(Symbols) /\ Len(b) \in Nat
      /\ taken \in Nat /\ sent \in Nat /\ taken <= sent /\ sent <= Len(b) /\ Len(in.buf) = taken
  BY Lengths, BufferBytes
<1>2. /\ n \in 1..Len(b) /\ n <= sent - taken /\ n <= BufferSize - Len(in.buf)
  <2>1. Waiting \in Nat /\ Room \in Nat /\ Waiting > 0 /\ Room > 0
    BY <1>1 DEF Read, Readable, Waiting, Room
  <2>2. n \in {Waiting, Room} /\ n <= Waiting /\ n <= Room
    <3>1. {Waiting, Room} \in SUBSET Nat /\ {Waiting, Room} # {}
      BY <2>1
    <3> QED
      BY <3>1, Least DEF Amount
  <2> QED
    BY <1>1, <2>1, <2>2 DEF Waiting, Room
<1>3. /\ in' = [in EXCEPT !.buf = @ \o t] /\ taken' = taken + n
      /\ msg' = msg /\ sent' = sent /\ in.buf = s
  BY DEF Read, client, reply, Received
<1>4. s \in Seq(Symbols) /\ Len(s) = taken /\ \A i \in 1..taken : s[i] = b[i]
  BY <1>1
<1>5. t \in Seq(Symbols) /\ Len(t) = n /\ \A i \in 1..n : t[i] = b[taken + i]
  BY <1>1, <1>2
<1>6. u = s \o t
  OBVIOUS
<1> HIDE DEF b, n, s, t, u
<1>7. /\ u \in Seq(Symbols) /\ Len(u) = taken + n
      /\ \A i \in 1..taken : u[i] = b[i]
      /\ \A i \in 1..n : u[taken + i] = b[taken + i]
  <2>1. s \in Seq(Symbols) /\ t \in Seq(Symbols)
    BY <1>4, <1>5
  <2>2. /\ u \in Seq(Symbols) /\ Len(u) = Len(s) + Len(t)
        /\ \A i \in 1..Len(s) : u[i] = s[i]
        /\ \A i \in 1..Len(t) : u[Len(s) + i] = t[i]
    BY <1>6, <2>1, Joined
  <2> QED
    BY <1>4, <1>5, <2>2
<1>8. u = SubSeq(b, 1, taken + n)
  <2> DEFINE v == SubSeq(b, 1, taken + n)
  <2>1. v \in Seq(Symbols) /\ Len(v) = taken + n /\ \A i \in 1..taken + n : v[i] = b[i]
    BY <1>1, <1>2
  <2> HIDE DEF v
  <2>2. ASSUME NEW i \in 1..taken + n PROVE u[i] = v[i]
    <3>1. CASE i <= taken
      BY <1>1, <1>2, <1>7, <2>1, <3>1
    <3>2. CASE i > taken
      <4>1. i - taken \in 1..n /\ taken + (i - taken) = i
        BY <1>1, <1>2, <3>2
      <4>2. u[taken + (i - taken)] = b[taken + (i - taken)]
        BY <1>7, <4>1
      <4> QED
        BY <2>1, <4>1, <4>2
    <3> QED
      BY <1>1, <1>2, <3>1, <3>2
  <2>3. u = v
    BY <1>1, <1>2, <1>7, <2>1, <2>2, SeqEqual
  <2> QED
    BY <2>3 DEF v
<1>9. in' = [in EXCEPT !.buf = u]
  BY <1>3, <1>6
<1>10. in \in Parser /\ in.start <= in.checked /\ in.checked <= Len(in.buf)
  BY DEF BufferInv
<1>11. in'.buf = u /\ in'.start = in.start /\ in'.checked = in.checked /\ in' \in Parser
  BY <1>7, <1>9, <1>10 DEF Parser
<1>12. Received'
  BY <1>3, <1>8, <1>11 DEF Received, b
<1>13. BufferInv'
  <2>1. in.checked <= Len(u) /\ Len(u) <= BufferSize
    BY <1>1, <1>2, <1>7, <1>10 DEF Parser
  <2> QED
    BY <1>10, <1>11, <2>1 DEF BufferInv
<1>14. ClientInv'
  BY <1>1, <1>2, <1>3 DEF ClientInv, b
<1> QED
  BY <1>12, <1>13, <1>14

\* A step of the parser that neither reads nor forgets anything.
LEMMA SameBuffer ==
    ASSUME ParserInv, UNCHANGED client, in' \in Parser, in'.buf = in.buf,
           in'.start <= in'.checked, in'.checked <= Len(in.buf)
    PROVE  ClientInv' /\ BufferInv' /\ (Received => Received')
  BY DEF ParserInv, ClientInv, BufferInv, Received, client

\* What is known behind line p is what was known before it, and line p.
LEMMA KnownNext ==
    ASSUME NEW p \in Nat, p > 0, NEW S, NEW T
    PROVE  /\ (\E i \in 1..p + 1 - 1 : S[i] = T) <=> (\E i \in 1..p - 1 : S[i] = T) \/ S[p] = T
           /\ (\E i \in 1..p + 1 - 1 : i \in S) <=> (\E i \in 1..p - 1 : i \in S) \/ p \in S
<1>1. 1..p + 1 - 1 = (1..p - 1) \cup {p}
  OBVIOUS
<1> QED
  BY <1>1

LEMMA RequestLineParsed == ASSUME ParserInv, ParseRequestLine PROVE ParserInv'
<1>1. /\ ClientInv /\ BufferInv /\ Received /\ Position /\ ~done
      /\ pc = "parse" /\ in.state = "line" /\ LineOk /\ in \in Parser
      /\ UNCHANGED <<client, reply, content>>
  BY DEF ParserInv, Parsing, ParseRequestLine, BufferInv
<1>2. msg.line # "lf"
  BY <1>1, StuckEnds DEF Position
<1>3. Headers \in Nat /\ taken \in Nat
  BY <1>1, <1>2, Lengths
<1>4. AtLine(0)
  <2>1. PICK p \in 0..Headers + 1 : AtLine(p)
    BY <1>1, <1>2 DEF Position, InBody
  <2>2. p = 0
    BY <1>1, <2>1 DEF AtLine
  <2> QED
    BY <2>1, <2>2
<1>5. Checked = 3 /\ Text = msg.line
  <2>1. 0 \in 0..Headers
    BY <1>3
  <2>2. Checked = 3 * 0 + 3 /\ Text = TextOf(msg, 0)
    BY <1>1, <1>2, <1>4, <2>1, LineEnds
  <2> QED
    BY <2>2 DEF TextOf
<1>6. Checked <= Len(in.buf) /\ Len(in.buf) \in Nat
  <2>1. in.checked <= Len(in.buf) /\ Len(in.buf) \in Nat /\ in.checked \in Nat
    BY <1>1 DEF BufferInv, Parser
  <2>2. Checked \in in.checked..Len(in.buf)
    BY <1>1, <2>1, ScanRange
  <2> QED
    BY <2>1, <2>2
<1>7. in.alive = FALSE /\ in.length = 0 /\ in.cgi = FALSE
  <2>1. 1..0 - 1 = {} /\ ~(0 > 0)
    OBVIOUS
  <2>2. ~\E i \in 1..0 - 1 : msg.headers[i] = "alive"
    BY <2>1
  <2>3. ~\E i \in 1..0 - 1 : i \in Declared(msg)
    BY <2>1
  <2> QED
    BY <1>4, <2>1, <2>2, <2>3 DEF AtLine
<1>8. CASE Text \in {"get", "post"}
  <2>1. /\ in' = [in EXCEPT !.state = "header", !.cgi = (Text = "post"), !.checked = 3, !.start = 3]
        /\ pc' = "parse"
    BY <1>1, <1>5, <1>8 DEF ParseRequestLine, NextLine
  <2>2. /\ in' \in Parser /\ in'.buf = in.buf /\ in'.start = 3 /\ in'.checked = 3
        /\ in'.state = "header" /\ in'.cgi = (msg.line = "post")
        /\ in'.alive = FALSE /\ in'.length = 0
    BY <1>1, <1>5, <1>7, <2>1 DEF Parser
  <2>3. ClientInv' /\ BufferInv' /\ Received'
    BY <1>1, <1>5, <1>6, <2>2, SameBuffer
  <2>4. AtLine(1)'
    <3>1. 1..1 - 1 = {} /\ 1 > 0 /\ 3 \in 3 * 1..3 * 1 + 1
      OBVIOUS
    <3>2. ~\E i \in 1..1 - 1 : msg'.headers[i] = "alive"
      BY <3>1
    <3>3. ~\E i \in 1..1 - 1 : i \in Declared(msg')
      BY <3>1
    <3>4. WellFormed(msg') /\ msg' = msg
      BY <1>1, <1>5, <1>8 DEF WellFormed, client
    <3>5. in'.cgi = (1 > 0 /\ msg'.line = "post")
      BY <2>2, <3>1, <3>4
    <3>6. in'.alive = \E i \in 1..1 - 1 : msg'.headers[i] = "alive"
      BY <2>2, <3>2
    <3> QED
      BY <2>2, <3>1, <3>3, <3>4, <3>5, <3>6 DEF AtLine
  <2>5. Position'
    <3>1. 1 \in 0..Headers' + 1 /\ msg'.line # "lf"
      BY <1>1, <1>2, <1>3 DEF client, Headers
    <3> QED
      BY <2>4, <3>1 DEF Position
  <2> QED
    BY <1>1, <2>1, <2>3, <2>5 DEF ParserInv, reply
<1>9. CASE Text \notin {"get", "post"}
  <2>1. in' = [in EXCEPT !.checked = 3, !.start = 3] /\ pc' = "reply"
    BY <1>1, <1>5, <1>9 DEF ParseRequestLine, NextLine
  <2>2. /\ in' \in Parser /\ in'.buf = in.buf /\ in'.start = 3 /\ in'.checked = 3
        /\ in'.alive = FALSE
    BY <1>1, <1>7, <2>1 DEF Parser
  <2>3. ClientInv' /\ BufferInv'
    BY <1>1, <1>5, <1>6, <2>2, SameBuffer
  <2> QED
    BY <1>1, <2>1, <2>2, <2>3 DEF ParserInv, Parsing, reply
<1> QED
  BY <1>8, <1>9

LEMMA HeaderParsed == ASSUME ParserInv, ParseHeader PROVE ParserInv'
<1>1. /\ ClientInv /\ BufferInv /\ Received /\ Position /\ ~done
      /\ pc = "parse" /\ in.state = "header" /\ LineOk /\ in \in Parser
      /\ UNCHANGED <<client, reply, content>>
  BY DEF ParserInv, Parsing, ParseHeader, BufferInv
<1>2. msg.line # "lf"
  BY <1>1, StuckEnds DEF Position
<1>3. /\ Headers \in Nat /\ taken \in Nat /\ taken <= Len(Bytes[msg]) /\ msg \in Messages
      /\ Len(Bytes[msg]) = Len(Lines[msg]) + Len(msg.body) /\ Len(msg.body) \in Nat
      /\ Len(Lines[msg]) = 3 * Headers + 5 /\ msg' = msg /\ taken' = taken
  <2>1. msg \in Messages /\ msg' = msg /\ taken' = taken
    BY <1>1 DEF client, ClientInv
  <2>2. taken <= sent /\ sent <= Len(Bytes[msg]) /\ taken \in Nat /\ sent \in Nat /\ Len(Bytes[msg]) \in Nat
    BY <1>1, Lengths
  <2>3. taken <= Len(Bytes[msg])
    BY <2>2
  <2> QED
    BY <1>1, <1>2, <2>1, <2>2, <2>3, Lengths, Zenon
<1>4. PICK p \in 1..Headers + 1 : AtLine(p)
  <2>1. PICK p \in 0..Headers + 1 : AtLine(p)
    BY <1>1, <1>2 DEF Position, InBody
  <2>2. p # 0
    BY <1>1, <2>1 DEF AtLine
  <2>3. p \in 1..Headers + 1
    BY <1>3, <2>1, <2>2
  <2> QED
    BY <2>1, <2>3
<1>5. p \in Nat /\ p > 0 /\ WellFormed(msg)
  BY <1>3, <1>4 DEF AtLine
<1>6. Checked <= Len(in.buf) /\ Len(in.buf) \in Nat /\ Checked \in Nat
  <2>1. in.checked <= Len(in.buf) /\ Len(in.buf) \in Nat /\ in.checked \in Nat
    BY <1>1 DEF BufferInv, Parser
  <2>2. Checked \in in.checked..Len(in.buf)
    BY <1>1, <2>1, ScanRange
  <2> QED
    BY <2>1, <2>2
<1>7. /\ in.cgi = (msg.line = "post")
      /\ in.alive = \E i \in 1..p - 1 : msg.headers[i] = "alive"
      /\ in.length = IF \E i \in 1..p - 1 : i \in Declared(msg) THEN Len(msg.body) ELSE 0
  BY <1>4, <1>5 DEF AtLine
<1>8. CASE p <= Headers
  <2>1. Checked = 3 * p + 3 /\ Text = msg.headers[p]
    <3>1. p \in 0..Headers
      BY <1>3, <1>5, <1>8
    <3> QED
      BY <1>1, <1>2, <1>4, <1>5, <3>1, LineEnds DEF TextOf
  <2>2. msg.headers \in Seq(HeaderTexts) /\ p \in DOMAIN msg.headers /\ Text \in HeaderTexts
    <3>1. msg.headers \in Seq(HeaderTexts) /\ p \in 1..Len(msg.headers)
      BY <1>3, <1>5, <1>8, MessagesAssumption DEF Headers
    <3> QED
      BY <2>1, <3>1
  <2>3. Text # "blank" /\ (Text = "alive" => Text \notin DOMAIN ContentLength)
    BY <2>2, LengthsAssumption DEF HeaderTexts
  <2>4. Text \in DOMAIN ContentLength <=> p \in Declared(msg)
    BY <2>1, <2>2 DEF Declared
  <2>5. Text \in DOMAIN ContentLength => ContentLength[Text] = Len(msg.body)
    BY <1>3, <1>5, <2>1, <2>4, MessagesAssumption
  <2>6. pc' = "parse"
    BY <1>1, <2>3 DEF ParseHeader
  <2>7. /\ in' \in Parser /\ in'.buf = in.buf /\ in'.start = Checked /\ in'.checked = Checked
        /\ in'.state = "header" /\ in'.cgi = in.cgi
        /\ in'.alive = (in.alive \/ Text = "alive")
        /\ in'.length = IF Text \in DOMAIN ContentLength THEN Len(msg.body) ELSE in.length
    <3>1. CASE Text = "alive"
      <4>1. in' = [in EXCEPT !.alive = TRUE, !.checked = Checked, !.start = Checked]
        BY <2>3, <3>1 DEF ParseHeader, NextLine
      <4> QED
        BY <1>1, <1>6, <2>3, <3>1, <4>1 DEF Parser
    <3>2. CASE Text \in DOMAIN ContentLength
      <4>1. in' = [in EXCEPT !.length = Len(msg.body), !.checked = Checked, !.start = Checked]
        BY <2>3, <2>5, <3>2 DEF ParseHeader, NextLine
      <4> QED
        BY <1>1, <1>3, <1>6, <2>3, <3>2, <4>1 DEF Parser
    <3>3. CASE Text # "alive" /\ Text \notin DOMAIN ContentLength
      <4>1. in' = [in EXCEPT !.checked = Checked, !.start = Checked]
        BY <2>3, <3>3 DEF ParseHeader, NextLine
      <4> QED
        BY <1>1, <1>6, <3>3, <4>1 DEF Parser
    <3> QED
      BY <3>1, <3>2, <3>3
  <2>8. ClientInv' /\ BufferInv' /\ Received'
    BY <1>1, <1>6, <2>7, SameBuffer
  <2>9. AtLine(p + 1)'
    <3>1. /\ in'.start = 3 * (p + 1) /\ in'.checked = 3 * (p + 1)
          /\ in'.checked \in 3 * (p + 1)..3 * (p + 1) + 1
          /\ p + 1 # 0 /\ p + 1 > 0
      BY <1>5, <2>1, <2>7
    <3>2. in'.alive = \E i \in 1..p + 1 - 1 : msg'.headers[i] = "alive"
      <4>1. (\E i \in 1..p + 1 - 1 : msg.headers[i] = "alive")
              <=> (\E i \in 1..p - 1 : msg.headers[i] = "alive") \/ msg.headers[p] = "alive"
        BY <1>5, KnownNext
      <4> QED
        BY <1>3, <1>7, <2>1, <2>7, <4>1
    <3>3. in'.length = IF \E i \in 1..p + 1 - 1 : i \in Declared(msg') THEN Len(msg'.body) ELSE 0
      <4>1. (\E i \in 1..p + 1 - 1 : i \in Declared(msg))
              <=> (\E i \in 1..p - 1 : i \in Declared(msg)) \/ p \in Declared(msg)
        BY <1>5, KnownNext
      <4> QED
        BY <1>3, <1>7, <2>4, <2>7, <4>1
    <3>4. in'.cgi = (p + 1 > 0 /\ msg'.line = "post")
      BY <1>3, <1>7, <2>7, <3>1
    <3>5. in'.state = (IF p + 1 = 0 THEN "line" ELSE "header") /\ WellFormed(msg')
      BY <1>3, <1>5, <2>7, <3>1
    <3> DEFINE q == p + 1
    <3>6. /\ in'.start = 3 * q /\ in'.checked = 3 * q /\ in'.checked \in 3 * q..3 * q + 1
          /\ in'.state = (IF q = 0 THEN "line" ELSE "header") /\ WellFormed(msg')
      BY <3>1, <3>5
    <3>7. /\ in'.alive = \E i \in 1..q - 1 : msg'.headers[i] = "alive"
          /\ in'.length = IF \E i \in 1..q - 1 : i \in Declared(msg') THEN Len(msg'.body) ELSE 0
          /\ in'.cgi = (q > 0 /\ msg'.line = "post")
      BY <3>2, <3>3, <3>4
    <3> HIDE DEF q
    <3>8. AtLine(q)'
      BY <3>6, <3>7 DEF AtLine
    <3> QED
      BY <3>8 DEF q
  <2>10. Position'
    <3>1. p + 1 \in 0..Headers' + 1 /\ msg'.line # "lf"
      BY <1>2, <1>3, <1>5, <1>8 DEF Headers
    <3> QED
      BY <2>9, <3>1 DEF Position
  <2> QED
    BY <1>1, <2>6, <2>8, <2>10 DEF ParserInv, reply
<1>9. CASE p = Headers + 1
  <2>1. Checked = Len(Lines[msg]) /\ Text = "blank" /\ taken >= Len(Lines[msg])
    BY <1>1, <1>2, <1>4, <1>9, BlankEnds
  <2>2. in.alive = Has("alive")
    <3>1. p - 1 = Len(msg.headers)
      BY <1>3, <1>9 DEF Headers
    <3>2. DOMAIN msg.headers = 1..p - 1
      BY <1>3, <3>1, MessagesAssumption
    <3> QED
      BY <1>7, <3>2 DEF Has
  <2>3. in.length = Len(msg.body) /\ (Len(msg.body) = 0 => msg.line = "get")
    <3>1. DOMAIN msg.headers = 1..p - 1
      BY <1>3, <1>9, MessagesAssumption DEF Headers
    <3>2. msg.body \in Seq(Symbols)
      BY <1>3, BytesOf
    <3>3. CASE msg.body = <<>>
      <4>1. msg.line = "get" /\ Len(msg.body) = 0
        BY <1>3, <1>5, <3>3, MessagesAssumption
      <4> QED
        BY <1>7, <4>1
    <3>4. CASE msg.body # <<>>
      <4>1. Declared(msg) # {} /\ Len(msg.body) # 0
        BY <1>3, <1>5, <3>2, <3>4, MessagesAssumption, EmptySeq
      <4>2. \E i \in 1..p - 1 : i \in Declared(msg)
        BY <3>1, <4>1 DEF Declared
      <4> QED
        BY <1>7, <4>1, <4>2
    <3> QED
      BY <3>3, <3>4
  <2>4. /\ in' = [in EXCEPT !.state = IF in.length # 0 THEN "content" ELSE "header",
                            !.checked = Checked, !.start = Checked]
        /\ pc' = IF in.length = 0 THEN "request" ELSE "parse"
    <3>1. in' = NextLine([in EXCEPT !.state = IF in.length # 0 THEN "content" ELSE @])
      BY <1>1, <2>1, LengthsAssumption DEF ParseHeader
    <3>2. in' = NextLine([in EXCEPT !.state = IF in.length # 0 THEN "content" ELSE "header"])
      BY <1>1, <3>1
    <3>3. pc' = IF in.length = 0 THEN "request" ELSE "parse"
      BY <1>1, <2>1 DEF ParseHeader
    <3> QED
      BY <3>2, <3>3 DEF NextLine
  <2>5. /\ in' \in Parser /\ in'.buf = in.buf /\ in'.start = Checked /\ in'.checked = Checked
        /\ in'.state = IF in.length # 0 THEN "content" ELSE "header"
        /\ in'.cgi = in.cgi /\ in'.alive = in.alive /\ in'.length = in.length
    BY <1>1, <1>6, <2>4 DEF Parser
  <2>6. ClientInv' /\ BufferInv' /\ Received'
    BY <1>1, <1>6, <2>5, SameBuffer
  <2>7. Meant'
    BY <1>3, <1>5, <1>7, <2>2, <2>3, <2>5 DEF Meant, Has
  <2>8. CASE in.length = 0
    <3>1. pc' = "request" /\ ~in'.cgi /\ taken' = Len(Bytes[msg']) /\ Len(in'.buf) = taken'
      <4>1. msg.line = "get" /\ taken = Len(Bytes[msg])
        BY <1>3, <2>1, <2>3, <2>8
      <4>2. Len(in.buf) = taken
        BY <1>1, BufferBytes
      <4> QED
        BY <1>3, <1>7, <2>4, <2>5, <2>8, <4>1, <4>2
    <3> QED
      BY <1>1, <2>6, <2>7, <3>1 DEF ParserInv, Parsing, reply
  <2>9. CASE in.length # 0
    <3>1. InBody' /\ pc' = "parse" /\ msg'.line # "lf"
      <4>1. Len(Lines[msg'])  = Checked /\ Checked <= in'.start /\ pc' = "parse" /\ msg'.line # "lf"
        BY <1>2, <1>3, <1>6, <2>1, <2>4, <2>5, <2>9
      <4> QED
        BY <2>5, <2>7, <2>9, <4>1 DEF InBody
    <3> QED
      BY <1>1, <2>6, <3>1 DEF ParserInv, Position, reply
  <2> QED
    BY <2>8, <2>9
<1> QED
  BY <1>3, <1>5, <1>4, <1>8, <1>9

\* What is left of the buffer when all lines are taken off a whole request.
LEMMA BodyRead ==
    ASSUME ClientInv, Received, taken = Len(Bytes[msg])
    PROVE  SubSeq(in.buf, Len(Lines[msg]) + 1, Len(Lines[msg]) + Len(msg.body)) = msg.body
<1> DEFINE b == Bytes[msg]
           k == Len(Lines[msg])
           n == Len(msg.body)
           s == SubSeq(in.buf, k + 1, k + n)
           t == msg.body
<1>1. /\ b \in Seq(Symbols) /\ k \in Nat /\ n \in Nat /\ Len(b) = k + n
      /\ t \in Seq(Symbols) /\ Len(t) = n /\ \A i \in 1..n : b[k + i] = t[i]
  BY BytesOf DEF ClientInv
<1>2. in.buf = SubSeq(b, 1, k + n)
  BY <1>1 DEF Received
<1> HIDE DEF b, k, n, t
<1>3. in.buf \in Seq(Symbols) /\ Len(in.buf) = k + n /\ \A i \in 1..k + n : in.buf[i] = b[i]
  <2> DEFINE v == SubSeq(b, 1, k + n)
  <2>1. v \in Seq(Symbols) /\ Len(v) = k + n /\ \A i \in 1..k + n : v[i] = b[i]
    BY <1>1
  <2> HIDE DEF v
  <2>2. in.buf = v
    BY <1>2 DEF v
  <2> QED
    BY <2>1, <2>2
<1>4. s \in Seq(Symbols) /\ Len(s) = n /\ \A i \in 1..n : s[i] = in.buf[k + i]
  <2> DEFINE w == in.buf
             x == SubSeq(w, k + 1, k + n)
  <2>1. w \in Seq(Symbols) /\ Len(w) = k + n
    BY <1>3
  <2> HIDE DEF w
  <2>2. x \in Seq(Symbols) /\ Len(x) = n /\ \A i \in 1..n : x[i] = w[k + i]
    BY <1>1, <2>1
  <2> QED
    BY <2>2 DEF w
<1> HIDE DEF s
<1>5. ASSUME NEW i \in 1..n PROVE s[i] = t[i]
  <2>1. k + i \in 1..k + n
    BY <1>1
  <2> QED
    BY <1>1, <1>3, <1>4, <2>1
<1>6. s = t
  BY <1>1, <1>4, <1>5, SeqEqual
<1> QED
  BY <1>6 DEF s, t, k, n

\* A terminator just behind the bytes read leaves them as they are: behind a
\* full buffer it clears the low byte of m_read_idx, which is clear.
LEMMA TerminatedAtEnd ==
    ASSUME in.buf \in Seq(Symbols), Len(in.buf) <= BufferSize
    PROVE  Terminated(Len(in.buf)) = in.buf
<1> DEFINE w == in.buf
<1>1. w \in Seq(Symbols) /\ Len(w) \in Nat
  OBVIOUS
<1> HIDE DEF w
<1>2. SubSeq(w, 1, Len(w)) = w
  BY <1>1
<1>3. ~(Len(w) < Len(w))
  BY <1>1
<1>4. CASE Len(w) < BufferSize
  BY <1>3, <1>4 DEF Terminated, w
<1>5. CASE ~(Len(w) < BufferSize)
  <2>1. Len(w) = BufferSize
    BY <1>1, <1>5 DEF w
  <2>2. Len(w) - (Len(w) % ByteSize) = Len(w)
    BY <1>1, <2>1, ByteAssumption
  <2>3. Terminated(Len(w)) = SubSeq(w, 1, Len(w) - (Len(w) % ByteSize))
    BY <1>3, <1>5 DEF Terminated, w
  <2> QED
    BY <1>2, <2>2, <2>3 DEF w
<1> QED
  BY <1>4, <1>5 DEF w

LEMMA ContentParsed == ASSUME ParserInv, ParseContent PROVE ParserInv'
<1>1. /\ ClientInv /\ BufferInv /\ Received /\ Position /\ ~done
      /\ pc = "parse" /\ in.state = "content" /\ in \in Parser
      /\ UNCHANGED <<client, reply>>
  BY DEF ParserInv, Parsing, ParseContent, BufferInv
<1>2. msg.line # "lf" /\ InBody
  BY <1>1 DEF Position, Stuck, AtLine
<1>3. /\ taken \in Nat /\ taken <= Len(Bytes[msg]) /\ Len(in.buf) = taken
      /\ Len(Lines[msg]) \in Nat /\ Len(msg.body) \in Nat
      /\ Len(Bytes[msg]) = Len(Lines[msg]) + Len(msg.body) /\ msg' = msg /\ taken' = taken
  <2>1. taken <= sent /\ sent <= Len(Bytes[msg]) /\ taken \in Nat /\ sent \in Nat /\ Len(Bytes[msg]) \in Nat
    BY <1>1, Lengths
  <2>2. taken <= Len(Bytes[msg])
    BY <2>1
  <2>3. Len(in.buf) = taken
    BY <1>1, BufferBytes
  <2>4. msg' = msg /\ taken' = taken
    BY <1>1 DEF client
  <2> QED
    BY <1>1, <2>1, <2>2, <2>3, <2>4, Lengths, Zenon
<1> DEFINE from == IF TakeBody THEN in.checked ELSE Checked
<1>4. from \in in.checked..Len(in.buf) /\ in.start \in Nat /\ in.checked \in Nat /\ in.start <= in.checked
  <2>1. in.checked \in Nat /\ in.start \in Nat /\ in.start <= in.checked /\ in.checked <= Len(in.buf)
    BY <1>1 DEF BufferInv, Parser
  <2>2. Checked \in in.checked..Len(in.buf)
    BY <1>1, <2>1, ScanRange
  <2> QED
    BY <1>3, <2>1, <2>2
<1> HIDE DEF from
<1>5. from \in Nat /\ in.checked <= from /\ from <= Len(in.buf) /\ Len(Lines[msg]) <= from
  BY <1>2, <1>3, <1>4 DEF InBody
\* A body that is there ends where the bytes read end.
<1>6. BodyComplete(from) => in.start = Len(Lines[msg]) /\ in.length = Len(msg.body)
                            /\ taken = Len(Bytes[msg])
  <2> SUFFICES ASSUME BodyComplete(from)
               PROVE  in.start = Len(Lines[msg]) /\ in.length = Len(msg.body)
                      /\ taken = Len(Bytes[msg])
    OBVIOUS
  <2>1. in.length = Len(msg.body) /\ Len(in.buf) >= in.length + from
    BY <1>2 DEF InBody, Meant, BodyComplete
  <2> DEFINE k == Len(Lines[msg])
             n == Len(msg.body)
             a == in.start
             c == in.checked
             t == Len(Bytes[msg])
  <2>2. /\ k \in Nat /\ n \in Nat /\ a \in Nat /\ c \in Nat /\ from \in Nat /\ taken \in Nat
        /\ taken <= t /\ t = k + n /\ k <= a /\ a <= c /\ c <= from
    BY <1>2, <1>3, <1>4, <1>5 DEF InBody
  <2>3. taken >= n + from
    BY <1>3, <2>1
  <2> HIDE DEF k, n, a, c, t
  <2>4. a = k /\ taken = t
    BY <2>2, <2>3
  <2> QED
    BY <2>1, <2>4 DEF a, k, t
<1>7. BodyComplete(from) => Terminated(in.start + in.length) = in.buf
  <2> SUFFICES ASSUME BodyComplete(from) PROVE Terminated(in.start + in.length) = in.buf
    OBVIOUS
  <2>1. in.start + in.length = Len(in.buf)
    BY <1>3, <1>6
  <2>2. in.buf \in Seq(Symbols) /\ Len(in.buf) <= BufferSize
    BY <1>1 DEF BufferInv, Parser
  <2> QED
    BY <2>1, <2>2, TerminatedAtEnd
<1>8. in' = [in EXCEPT !.checked = from, !.start = from]
  <2>1. CASE BodyComplete(from)
    <3> DEFINE w == Terminated(in.start + in.length)
    <3>1. in' = [in EXCEPT !.checked = from, !.start = from, !.buf = w]
      BY <2>1 DEF ParseContent, from
    <3>2. w = in.buf
      BY <1>7, <2>1
    <3> HIDE DEF w
    <3> QED
      BY <1>1, <3>1, <3>2 DEF Parser
  <2>2. CASE ~BodyComplete(from)
    BY <2>2 DEF ParseContent, from
  <2> QED
    BY <2>1, <2>2
<1>9. IF BodyComplete(from)
      THEN content' = SubSeq(in.buf, in.start + 1, in.start + in.length) /\ pc' = "request"
      ELSE pc' = pc
  BY DEF ParseContent, from
<1>10. /\ in' \in Parser /\ in'.buf = in.buf /\ in'.start = from /\ in'.checked = from
       /\ in'.state = "content" /\ in'.cgi = in.cgi /\ in'.alive = in.alive /\ in'.length = in.length
  BY <1>1, <1>5, <1>8 DEF Parser
<1>11. ClientInv' /\ BufferInv' /\ Received'
  BY <1>1, <1>5, <1>10, SameBuffer
<1>12. Meant' /\ in'.length # 0
  BY <1>2, <1>3, <1>10 DEF InBody, Meant, Has
<1>13. CASE BodyComplete(from)
  <2>1. content' = msg.body /\ pc' = "request" /\ taken = Len(Bytes[msg])
    BY <1>1, <1>6, <1>9, <1>13, BodyRead
  <2>2. Len(in'.buf) = taken'
    BY <1>3, <1>10
  <2> QED
    BY <1>1, <1>3, <1>11, <1>12, <2>1, <2>2 DEF ParserInv, Parsing, reply
<1>14. CASE ~BodyComplete(from)
  <2>1. InBody' /\ pc' = "parse" /\ msg'.line # "lf"
    BY <1>1, <1>2, <1>3, <1>5, <1>9, <1>10, <1>12, <1>14 DEF InBody
  <2> QED
    BY <1>1, <1>11, <2>1 DEF ParserInv, Position, reply
<1> QED
  BY <1>13, <1>14

LEMMA MoreAwaited == ASSUME ParserInv, ParseMore PROVE ParserInv'
<1>1. /\ ClientInv /\ BufferInv /\ Received /\ Position /\ ~done /\ ~LineOk /\ in \in Parser
      /\ pc' = "in" /\ in' = [in EXCEPT !.checked = Checked]
      /\ UNCHANGED <<client, reply, content>>
  BY DEF ParserInv, Parsing, ParseMore, BufferInv
<1>2. /\ Checked \in Nat /\ in.checked <= Checked /\ Checked <= Len(in.buf)
      /\ in.start \in Nat /\ in.checked \in Nat /\ in.start <= in.checked
  <2>1. /\ in.checked \in Nat /\ in.start \in Nat /\ in.start <= in.checked
        /\ in.checked <= Len(in.buf) /\ Len(in.buf) \in Nat
    BY <1>1 DEF BufferInv, Parser
  <2>2. Checked \in in.checked..Len(in.buf)
    BY <1>1, <2>1, ScanRange
  <2> QED
    BY <2>1, <2>2
<1>3. /\ in' \in Parser /\ in'.buf = in.buf /\ in'.start = in.start /\ in'.checked = Checked
      /\ in'.state = in.state /\ in'.cgi = in.cgi /\ in'.alive = in.alive /\ in'.length = in.length
  BY <1>1, <1>2 DEF Parser
<1>4. ClientInv' /\ BufferInv' /\ Received'
  <2>1. in'.start <= in'.checked
    BY <1>2, <1>3
  <2> QED
    BY <1>1, <1>2, <1>3, <2>1, SameBuffer
<1>5. Position'
  <2>1. msg' = msg
    BY <1>1 DEF client
  <2>2. CASE msg.line = "lf"
    BY <1>1, <1>3, <2>1, <2>2, StuckEnds DEF Position, Stuck
  <2>3. CASE msg.line # "lf" /\ InBody
    <3>1. InBody'
      BY <1>3, <2>1, <2>3 DEF InBody, Meant, Has
    <3> QED
      BY <2>1, <2>3, <3>1 DEF Position
  <2>4. ASSUME msg.line # "lf", NEW p \in 0..Headers + 1, AtLine(p) PROVE Position'
    <3>1. Headers \in Nat /\ Len(Lines[msg]) = 3 * Headers + 5
      BY <1>1, <2>4, Lengths
    <3>2. /\ Checked \in 3 * p..3 * p + 1
          /\ p = Headers + 1 => Checked = 3 * p
      <4>1. CASE p = Headers + 1
        <5>1. Checked = 3 * p
          BY <1>1, <2>4, <4>1, BlankEnds
        <5> QED
          BY <3>1, <5>1
      <4>2. CASE p # Headers + 1
        <5>1. p \in 0..Headers
          BY <3>1, <4>2
        <5> QED
          BY <1>1, <2>4, <4>2, <5>1, LineEnds
      <4> QED
        BY <4>1, <4>2
    <3>3. AtLine(p)'
      BY <1>3, <2>1, <2>4, <3>2 DEF AtLine, Headers
    <3> QED
      BY <2>1, <2>4, <3>3 DEF Position, Headers
  <2> QED
    BY <1>1, <2>2, <2>3, <2>4 DEF Position
<1> QED
  BY <1>1, <1>4, <1>5 DEF ParserInv, reply

----------------------------------------------------------------------------
(* Every step. *)

\* More bytes in the buffer are no reason to be elsewhere.
LEMMA SamePosition ==
    ASSUME Position, msg' = msg, in'.start = in.start, in'.checked = in.checked,
           in'.state = in.state, in'.cgi = in.cgi, in'.alive = in.alive, in'.length = in.length
    PROVE  Position'
<1>1. CASE msg.line = "lf"
  BY <1>1 DEF Position, Stuck
<1>2. CASE msg.line # "lf" /\ InBody
  BY <1>2 DEF Position, InBody, Meant, Has
<1>3. ASSUME msg.line # "lf", NEW p \in 0..Headers + 1, AtLine(p) PROVE Position'
  <2>1. AtLine(p)'
    BY <1>3 DEF AtLine, Headers
  <2> QED
    BY <1>3, <2>1 DEF Position, Headers
<1> QED
  BY <1>1, <1>2, <1>3 DEF Position

LEMMA ParserNext == ParserInv /\ [Next]_vars => ParserInv'
<1> SUFFICES ASSUME ParserInv, [Next]_vars PROVE ParserInv'
  OBVIOUS
<1>1. CASE Connect
  BY <1>1, Started DEF Connect, InitSlot, ForgetRequest
<1>2. CASE AskAgain
  <2>1. in' = Fresh /\ pc' = "in"
    BY <1>2 DEF AskAgain, parser, ParserInv
  <2> QED
    BY <1>2, <2>1, Started DEF AskAgain
<1>3. ASSUME NEW n \in 1..Len(Bytes[msg]), Arrive(n) PROVE ParserInv'
  <2>1. /\ pc = "in" /\ ~done /\ pc' = pc /\ in' = in /\ msg' = msg /\ taken' = taken
        /\ done' = done /\ sent' = sent + n /\ sent + n <= Len(Bytes[msg])
    BY <1>3 DEF Arrive, parser, reply
  <2>2. ClientInv'
    <3>1. /\ taken \in Nat /\ sent \in Nat /\ taken <= sent /\ Len(Bytes[msg]) \in Nat
          /\ msg \in Messages
      BY Lengths DEF ParserInv, ClientInv
    <3>2. sent + n \in 0..Len(Bytes[msg]) /\ taken \in 0..sent + n
      BY <2>1, <3>1
    <3> QED
      BY <2>1, <3>1, <3>2 DEF ClientInv
  <2>3. BufferInv' /\ Received' /\ Position'
    BY <2>1 DEF ParserInv, Parsing, BufferInv, Received, Position, Stuck, InBody, Meant, Has,
                AtLine, Headers
  <2> QED
    BY <2>1, <2>2, <2>3 DEF ParserInv
<1>4. CASE Drop \/ ReadFails \/ CloseConn \/ WriteFails \/ WriteFaults
  <2>1. pc' = "closed" /\ UNCHANGED <<parser, client, reply>>
    BY <1>4 DEF Drop, ReadFails, CloseConn, WriteFails, WriteFaults, reply
  <2> QED
    BY <2>1 DEF ParserInv, Parsing, ClientInv, BufferInv, parser, client
<1>5. CASE Read
  <2>1. ~done
    BY <1>5, Lengths DEF Read, Waiting, ParserInv
  <2>2. ClientInv' /\ BufferInv' /\ Received'
    BY <1>5, <2>1, ReadOn DEF Read, ParserInv, Parsing
  <2>3. /\ in'.start = in.start /\ in'.checked = in.checked /\ in'.state = in.state
        /\ in'.cgi = in.cgi /\ in'.alive = in.alive /\ in'.length = in.length
        /\ msg' = msg /\ done' = done /\ pc' = "parse"
    <3> DEFINE x == in.buf \o SubSeq(Bytes[msg], taken + 1, taken + Amount)
    <3>1. in' = [in EXCEPT !.buf = x] /\ in \in Parser /\ msg' = msg /\ done' = done /\ pc' = "parse"
      BY <1>5 DEF Read, ParserInv, BufferInv, reply
    <3> HIDE DEF x
    <3> QED
      BY <3>1 DEF Parser
  <2>4. Position'
    <3>1. Position
      BY <1>5, <2>1 DEF Read, ParserInv, Parsing
    <3> QED
      BY <2>3, <3>1, SamePosition
  <2> QED
    BY <2>1, <2>2, <2>3, <2>4 DEF ParserInv
<1>6. CASE Parse
  BY <1>6, RequestLineParsed, HeaderParsed, ContentParsed, MoreAwaited DEF Parse
<1>7. CASE DoRequestNoFile \/ \E n \in FileSizes : DoRequestFile(n)
  <2>1. pc = "request" /\ pc' = "reply" /\ UNCHANGED <<parser, client, reply>>
    BY <1>7 DEF DoRequestNoFile, DoRequestFile
  <2> QED
    BY <2>1 DEF ParserInv, Parsing, ClientInv, BufferInv, parser, client, reply
<1>8. CASE ProcessWrite \/ WriteBlocks
  <2>1. /\ pc \in {"reply", "writing"} /\ pc' = "out" /\ UNCHANGED <<parser, client, done>>
    BY <1>8 DEF ProcessWrite, WriteBlocks, reply
  <2> QED
    BY <2>1 DEF ParserInv, Parsing, ClientInv, BufferInv, parser, client
<1>9. ASSUME NEW n, Writev(n) PROVE ParserInv'
  <2>1. /\ pc \in {"out", "writing"} /\ ~done /\ ClientInv /\ BufferInv
        /\ UNCHANGED <<client, content>>
    BY <1>9 DEF Writev, ParserInv
  <2>2. ClientInv'
    BY <2>1 DEF ClientInv, client
  <2>3. CASE pc' \in {"writing", "closed"} /\ in' = in /\ (pc' = "writing" => done' = done)
    BY <2>1, <2>2, <2>3 DEF ParserInv, Parsing, BufferInv, client
  <2>4. CASE pc' = "in" /\ in' = Fresh /\ done' /\ in.alive
    <3>1. taken = Len(Bytes[msg])
      BY <2>1, <2>4 DEF ParserInv
    <3>2. taken = sent
      BY <2>1, <3>1, Lengths
    <3>3. BufferInv'
      BY <2>4, FreshParser DEF BufferInv, Fresh
    <3> QED
      BY <2>1, <2>2, <2>4, <3>2, <3>3 DEF ParserInv, Parsing, client
  <2> QED
    BY <1>9, <2>3, <2>4 DEF Writev, InitSlot, ForgetRequest
<1>10. CASE UNCHANGED vars
  BY <1>10 DEF vars, parser, client, reply, ParserInv, Parsing, ClientInv, BufferInv, Received, Position,
               Stuck, InBody, Meant, Has, AtLine, Headers
<1> QED
  BY <1>1, <1>2, <1>3, <1>4, <1>5, <1>6, <1>7, <1>8, <1>9, <1>10 DEF Next, Serve

\* However a request was cut, do_request gets it whole, when its last byte has
\* been read, and as the client meant it.
THEOREM RequestIsMeant == Spec => []RequestMeant
<1>1. ParserInv => RequestMeant
  BY DEF ParserInv, RequestMeant, Meant
<1> QED
  BY <1>1, ParserInit, ParserNext, PTL DEF Spec

----------------------------------------------------------------------------
(* Bodies that arrive whole. *)

\* All of a body has been read, none of it, or what the buffer had room for;
\* and the scan has gone beyond the lines only in that case.
WholeInv ==
    /\ status \in {"ok", "open"}
    /\ sent <= Len(Lines[msg]) \/ sent = Len(Bytes[msg])
    /\ Parsing => taken <= Len(Lines[msg]) \/ taken = Len(Bytes[msg]) \/ taken >= BufferSize
    /\ Parsing /\ in.state = "content" =>
         in.checked = Len(Lines[msg]) \/ (taken < Len(Bytes[msg]) /\ taken >= BufferSize)
    /\ pc = "parse" /\ status = "open" => taken < Len(Bytes[msg])
    /\ pc = "in" /\ ~done /\ WellFormed(msg) => taken < Len(Bytes[msg])

LEMMA WholeInit == Init => WholeInv
<1> SUFFICES ASSUME Init PROVE WholeInv
  OBVIOUS
<1>1. Len(Lines[msg]) \in Nat
  BY BytesOf DEF Init
<1> QED
  BY <1>1 DEF Init, WholeInv, Parsing

LEMMA WholeStarted ==
    ASSUME Ask, pc' = "in", in' = Fresh, status' \in {"ok", "open"} PROVE WholeInv'
<1>1. /\ msg' \in Messages /\ sent' = 0 /\ taken' = 0 /\ ~done' /\ in'.state = "line"
  BY DEF Ask, Fresh
<1>2. /\ Len(Lines[msg']) \in Nat /\ Len(msg'.body) \in Nat
      /\ Len(Bytes[msg']) = Len(Lines[msg']) + Len(msg'.body)
  BY <1>1, BytesOf
<1>3. WellFormed(msg') => Len(Lines[msg']) > 0
  <2>1. WellFormed(msg') => msg'.line # "lf"
    BY DEF WellFormed
  <2>2. msg'.line # "lf" => Len(msg'.headers) \in Nat /\ Len(Lines[msg']) = 3 * Len(msg'.headers) + 5
    BY <1>1, LinesOf
  <2> QED
    BY <1>2, <2>1, <2>2
<1>4. WellFormed(msg') => 0 < Len(Bytes[msg'])
  <2> DEFINE k == Len(Lines[msg'])
             n == Len(msg'.body)
             t == Len(Bytes[msg'])
  <2>1. k \in Nat /\ n \in Nat /\ t = k + n /\ (WellFormed(msg') => k > 0)
    BY <1>2, <1>3
  <2> HIDE DEF k, n, t
  <2>2. WellFormed(msg') => 0 < t
    BY <2>1
  <2> QED
    BY <2>2 DEF t
<1>5. sent' <= Len(Lines[msg']) /\ taken' <= Len(Lines[msg'])
  <2> DEFINE k == Len(Lines[msg'])
  <2>1. k \in Nat
    BY <1>2
  <2> HIDE DEF k
  <2>2. 0 <= k
    BY <2>1
  <2> QED
    BY <1>1, <2>2 DEF k
<1> QED
  BY <1>1, <1>4, <1>5 DEF WholeInv

\* Steps that end the reading, or come behind it.
LEMMA WholeKept ==
    ASSUME WholeInv, UNCHANGED <<status, msg, sent>>, ~Parsing'
    PROVE  WholeInv'
  BY DEF WholeInv, Parsing

LEMMA WholeRead == ASSUME ParserInv, WholeInv, Read PROVE WholeInv'
<1>1. /\ taken \in Nat /\ sent \in Nat /\ taken <= sent /\ Len(Lines[msg]) \in Nat
      /\ Len(Bytes[msg]) \in Nat
  BY Lengths DEF ParserInv
<1>2. ~done
  BY <1>1 DEF Read, Waiting, ParserInv
<1>3. Received /\ BufferInv /\ ClientInv
  BY <1>2 DEF Read, ParserInv, Parsing
<1>4. Len(in.buf) = taken
  BY <1>3, BufferBytes
<1>5. /\ msg' = msg /\ sent' = sent /\ taken' = taken + Amount /\ pc' = "parse" /\ status' = "ok"
      /\ Waiting = sent - taken /\ Waiting > 0 /\ Room = BufferSize - taken /\ Room > 0
  BY <1>4 DEF Read, Waiting, Room, Readable
<1>6. Amount = Waiting \/ Amount = Room
  <2>1. {Waiting, Room} \in SUBSET Nat /\ {Waiting, Room} # {}
    BY <1>1, <1>5
  <2> QED
    BY <2>1, Least DEF Amount
<1>7. taken' = sent \/ taken' = BufferSize
  BY <1>1, <1>5, <1>6
<1>8. in'.state = in.state /\ in'.checked = in.checked
  <2> DEFINE x == in.buf \o SubSeq(Bytes[msg], taken + 1, taken + Amount)
  <2>1. in' = [in EXCEPT !.buf = x] /\ in \in Parser
    BY <1>3 DEF Read, BufferInv
  <2> HIDE DEF x
  <2> QED
    BY <2>1 DEF Parser
<1>9. in.state = "content" => in.checked = Len(Lines[msg])
  <2>1. ~(taken >= BufferSize)
    BY <1>1, <1>5
  <2> QED
    BY <1>2, <2>1 DEF Read, WholeInv, Parsing
<1>10. taken' <= Len(Lines[msg]) \/ taken' = Len(Bytes[msg]) \/ taken' >= BufferSize
  BY <1>7 DEF WholeInv
<1> QED
  BY <1>5, <1>8, <1>9, <1>10 DEF WholeInv

LEMMA WholeParsed == ASSUME ParserInv, WholeInv, Parse PROVE WholeInv'
<1>1. /\ pc = "parse" /\ Parsing /\ ~done /\ done' = done
      /\ msg' = msg /\ sent' = sent /\ taken' = taken
      /\ ClientInv /\ BufferInv /\ Received /\ Position /\ in \in Parser
  BY DEF Parse, ParseRequestLine, ParseHeader, ParseContent, ParseMore, client, reply,
         ParserInv, Parsing, BufferInv
<1>2. /\ taken \in Nat /\ Len(Lines[msg]) \in Nat /\ Len(Bytes[msg]) \in Nat /\ Len(msg.body) \in Nat
      /\ Len(Bytes[msg]) = Len(Lines[msg]) + Len(msg.body) /\ Len(in.buf) = taken
      /\ msg.line # "lf" => Headers \in Nat /\ Len(Lines[msg]) = 3 * Headers + 5
  BY <1>1, Lengths, BufferBytes
<1>3. /\ status \in {"ok", "open"}
      /\ sent <= Len(Lines[msg]) \/ sent = Len(Bytes[msg])
      /\ taken <= Len(Lines[msg]) \/ taken = Len(Bytes[msg]) \/ taken >= BufferSize
      /\ in.state = "content" =>
            in.checked = Len(Lines[msg]) \/ (taken < Len(Bytes[msg]) /\ taken >= BufferSize)
      /\ status = "open" => taken < Len(Bytes[msg])
  BY <1>1 DEF WholeInv
<1>4. in.state = "content" => msg.line # "lf" /\ InBody
  BY <1>1 DEF Position, Stuck, AtLine
<1>5. Checked \in in.checked..taken /\ in.checked \in Nat
  <2>1. in.checked \in Nat /\ in.checked <= Len(in.buf)
    BY <1>1 DEF BufferInv, Parser
  <2> QED
    BY <1>1, <1>2, <2>1, ScanRange
<1>11. ASSUME NEW x \in Nat, x <= Len(Lines[msg]), taken < x PROVE taken < Len(Bytes[msg])
  <2> DEFINE k == Len(Lines[msg])
             n == Len(msg.body)
             t == Len(Bytes[msg])
  <2>1. k \in Nat /\ n \in Nat /\ t = k + n /\ x <= k /\ taken \in Nat
    BY <1>2, <1>11
  <2> HIDE DEF k, n, t
  <2>2. taken < t
    BY <1>11, <2>1
  <2> QED
    BY <2>2 DEF t
\* Where the scan of an unfinished body gets.
<1>6. ASSUME in.state = "content", status = "open"
      PROVE  Checked = Len(Lines[msg]) \/ (taken < Len(Bytes[msg]) /\ taken >= BufferSize)
  <2>1. Len(Lines[msg]) <= in.checked
    <3>1. Len(Lines[msg]) <= in.start /\ in.start <= in.checked /\ in.start \in Nat
      BY <1>1, <1>4, <1>6 DEF InBody, BufferInv, Parser
    <3> QED
      BY <1>2, <1>5, <3>1
  <2>2. CASE Checked = Len(Lines[msg])
    BY <2>2
  <2>3. CASE Checked # Len(Lines[msg])
    <3>1. taken > Len(Lines[msg])
      BY <1>2, <1>5, <2>1, <2>3
    <3>2. taken < Len(Bytes[msg])
      BY <1>3, <1>6
    <3>3. ~(taken <= Len(Lines[msg])) /\ taken # Len(Bytes[msg])
      <4> DEFINE k == Len(Lines[msg])
                 t == Len(Bytes[msg])
      <4>1. k \in Nat /\ t \in Nat /\ taken \in Nat /\ taken > k /\ taken < t
        BY <1>2, <3>1, <3>2
      <4> HIDE DEF k, t
      <4>2. ~(taken <= k) /\ taken # t
        BY <4>1
      <4> QED
        BY <4>2 DEF k, t
    <3> QED
      BY <1>3, <3>2, <3>3
  <2> QED
    BY <2>2, <2>3
<1>7. CASE ParseRequestLine
  <2>1. status' = status /\ (pc' = "parse" => in'.state # "content") /\ pc' \in {"parse", "reply"}
    <3>1. CASE Text \in {"get", "post"}
      <4> DEFINE yes == Text = "post"
                 c == Checked
      <4>1. /\ in' = [in EXCEPT !.state = "header", !.cgi = yes, !.checked = c, !.start = c]
            /\ status' = status /\ pc' = pc
        BY <1>7, <3>1 DEF ParseRequestLine, NextLine
      <4> HIDE DEF yes, c
      <4>2. in'.state = "header"
        BY <1>1, <4>1 DEF Parser
      <4> QED
        BY <1>1, <4>1, <4>2
    <3>2. CASE Text \notin {"get", "post"}
      BY <1>7, <3>2 DEF ParseRequestLine
    <3> QED
      BY <3>1, <3>2
  <2> QED
    BY <1>1, <1>3, <2>1 DEF WholeInv, Parsing
<1>8. CASE ParseHeader
  <2>1. status' = status /\ pc' \in {"parse", "request"}
    BY <1>1, <1>8 DEF ParseHeader
  <2>2. in'.state = "content" => in'.checked = Len(Lines[msg])
    <3>1. Text # "blank" => in'.state = "header"
      <4>1. ASSUME Text = "alive" PROVE in'.state = "header"
        <5>1. in' = [in EXCEPT !.alive = TRUE, !.checked = Checked, !.start = Checked]
          BY <1>8, <4>1, LengthsAssumption DEF ParseHeader, NextLine
        <5> QED
          BY <1>1, <1>8, <5>1 DEF Parser, ParseHeader
      <4>2. ASSUME Text \in DOMAIN ContentLength PROVE in'.state = "header"
        <5> DEFINE n == ContentLength[Text]
        <5>1. in' = [in EXCEPT !.length = n, !.checked = Checked, !.start = Checked]
          BY <1>8, <4>2, LengthsAssumption DEF ParseHeader, NextLine
        <5> HIDE DEF n
        <5> QED
          BY <1>1, <1>8, <5>1 DEF Parser, ParseHeader
      <4>3. ASSUME Text \notin {"alive", "blank"}, Text \notin DOMAIN ContentLength
            PROVE  in'.state = "header"
        <5>1. in' = [in EXCEPT !.checked = Checked, !.start = Checked]
          BY <1>8, <4>3 DEF ParseHeader, NextLine
        <5> QED
          BY <1>1, <1>8, <5>1 DEF Parser, ParseHeader
      <4> QED
        BY <4>1, <4>2, <4>3
    <3>2. ASSUME Text = "blank" PROVE in'.checked = Len(Lines[msg])
      <4>1. in'.checked = Checked
        <5> DEFINE x == IF in.length # 0 THEN "content" ELSE in.state
        <5>1. in' = NextLine([in EXCEPT !.state = x])
          BY <1>8, <3>2, LengthsAssumption DEF ParseHeader
        <5> HIDE DEF x
        <5>2. in' = [[in EXCEPT !.state = x] EXCEPT !.checked = Checked, !.start = Checked]
          BY <5>1 DEF NextLine
        <5> QED
          BY <1>1, <5>2 DEF Parser
      <4>2. msg.line # "lf" /\ LineOk
        BY <1>1, <1>8, StuckEnds DEF Position, ParseHeader
      <4>3. PICK p \in 0..Headers + 1 : AtLine(p)
        BY <1>1, <1>8, <4>2 DEF Position, InBody, ParseHeader
      <4>4. p # 0
        BY <1>8, <4>3 DEF AtLine, ParseHeader
      <4>5. CASE p = Headers + 1
        BY <1>1, <4>1, <4>2, <4>3, <4>5, BlankEnds
      <4>6. CASE p # Headers + 1
        <5>1. p \in 0..Headers /\ p \in 1..Headers
          BY <1>2, <4>2, <4>3, <4>4, <4>6
        <5>2. msg.headers[p] = "blank"
          BY <1>1, <3>2, <4>2, <4>3, <4>4, <5>1, LineEnds DEF TextOf
        <5>3. msg.headers \in Seq(HeaderTexts) /\ p \in 1..Len(msg.headers)
          BY <1>1, <5>1, MessagesAssumption DEF Headers, ClientInv
        <5>4. "blank" \in HeaderTexts
          BY <5>2, <5>3
        <5> QED
          BY <5>4, LengthsAssumption DEF HeaderTexts
      <4> QED
        BY <4>5, <4>6
    <3> QED
      BY <3>1, <3>2
  <2> QED
    BY <1>1, <1>3, <2>1, <2>2 DEF WholeInv, Parsing
<1>9. CASE ParseContent
  <2> DEFINE from == IF TakeBody THEN in.checked ELSE Checked
  <2> DEFINE w == IF BodyComplete(from) THEN Terminated(in.start + in.length) ELSE in.buf
  <2>1. /\ \/ in' = [in EXCEPT !.checked = from, !.start = from]
           \/ in' = [in EXCEPT !.checked = from, !.start = from, !.buf = w]
        /\ in.state = "content"
        /\ IF BodyComplete(from) THEN pc' = "request" /\ status' = status
           ELSE pc' = "parse" /\ status' = "open"
    BY <1>9 DEF ParseContent
  <2>2. from = Len(Lines[msg]) \/ (taken < Len(Bytes[msg]) /\ taken >= BufferSize)
    BY <1>3, <1>6, <2>1 DEF TakeBody
  <2> HIDE DEF from, w
  <2>3. in'.checked = from
    BY <1>1, <2>1 DEF Parser
  <2>4. ~BodyComplete(from) => taken < Len(Bytes[msg])
    <3>1. in.length = Len(msg.body)
      BY <1>4, <2>1 DEF InBody, Meant
    <3>2. CASE from = Len(Lines[msg])
      <4> DEFINE k == Len(Lines[msg])
                 n == Len(msg.body)
                 t == Len(Bytes[msg])
      <4>1. k \in Nat /\ n \in Nat /\ t = k + n /\ taken \in Nat
        BY <1>2
      <4>2. BodyComplete(from) <=> taken >= n + k
        BY <1>2, <3>1, <3>2 DEF BodyComplete
      <4> HIDE DEF k, n, t
      <4>3. ~BodyComplete(from) => taken < t
        BY <4>1, <4>2
      <4> QED
        BY <4>3 DEF t
    <3> QED
      BY <2>2, <3>2
  <2> QED
    BY <1>1, <1>3, <2>1, <2>2, <2>3, <2>4 DEF WholeInv, Parsing
<1>10. CASE ParseMore
  <2>1. /\ in' = [in EXCEPT !.checked = Checked] /\ pc' = "in" /\ status' = status
        /\ ~TakeBody /\ ~LineOk
    BY <1>10 DEF ParseMore
  <2>2. in'.checked = Checked /\ in'.state = in.state
    BY <1>1, <2>1 DEF Parser
  <2>3. in.state = "content" => status = "open"
    BY <1>3, <2>1 DEF TakeBody
  <2>4. WellFormed(msg) => taken < Len(Bytes[msg])
    <3> SUFFICES ASSUME WellFormed(msg) PROVE taken < Len(Bytes[msg])
      OBVIOUS
    <3>1. msg.line # "lf"
      BY DEF WellFormed
    <3>2. CASE InBody
      BY <1>3, <2>3, <3>2 DEF InBody
    <3>3. ASSUME NEW p \in 0..Headers + 1, AtLine(p) PROVE taken < Len(Bytes[msg])
      <4>1. CASE p = Headers + 1
        <5>1. taken < Len(Lines[msg])
          BY <1>1, <2>1, <3>1, <3>3, <4>1, BlankEnds
        <5> DEFINE x == Len(Lines[msg])
        <5>2. x \in Nat /\ x <= Len(Lines[msg]) /\ taken < x
          BY <1>2, <5>1
        <5> HIDE DEF x
        <5> QED
          BY <1>11, <5>2
      <4>2. CASE p # Headers + 1
        <5>1. p \in 0..Headers
          BY <1>2, <3>1, <3>3, <4>2
        <5>2. taken < 3 * p + 3
          BY <1>1, <2>1, <3>1, <3>3, <5>1, LineEnds
        <5>3. 3 * p + 3 \in Nat /\ 3 * p + 3 <= Len(Lines[msg])
          BY <1>2, <3>1, <5>1
        <5> DEFINE x == 3 * p + 3
        <5>4. x \in Nat /\ x <= Len(Lines[msg]) /\ taken < x
          BY <5>2, <5>3
        <5> HIDE DEF x
        <5> QED
          BY <1>11, <5>4
      <4> QED
        BY <4>1, <4>2
    <3> QED
      BY <1>1, <3>1, <3>2, <3>3 DEF Position
  <2> QED
    BY <1>1, <1>3, <1>6, <2>1, <2>2, <2>3, <2>4 DEF WholeInv, Parsing
<1> QED
  BY <1>7, <1>8, <1>9, <1>10 DEF Parse

LEMMA WholeNext == BodyWhole /\ ParserInv /\ WholeInv /\ [Next]_vars => WholeInv'
<1> SUFFICES ASSUME BodyWhole, ParserInv, WholeInv, [Next]_vars PROVE WholeInv'
  OBVIOUS
<1>1. CASE Connect
  BY <1>1, WholeStarted DEF Connect, InitSlot, ForgetRequest, WholeInv
<1>2. CASE AskAgain
  <2>1. in' = Fresh /\ pc' = "in" /\ status' = status
    BY <1>2 DEF AskAgain, parser, ParserInv
  <2> QED
    BY <1>2, <2>1, WholeStarted DEF AskAgain, WholeInv
<1>3. ASSUME NEW n \in 1..Len(Bytes[msg]), Arrive(n) PROVE WholeInv'
  BY <1>3 DEF Arrive, parser, reply, WholeInv, Parsing
<1>4. CASE Drop \/ ReadFails \/ CloseConn \/ WriteFails \/ WriteFaults
  BY <1>4, WholeKept DEF Drop, ReadFails, CloseConn, WriteFails, WriteFaults, parser, client, Parsing
<1>5. CASE Read
  BY <1>5, WholeRead
<1>6. CASE Parse
  BY <1>6, WholeParsed
<1>7. CASE DoRequestNoFile \/ \E n \in FileSizes : DoRequestFile(n)
  BY <1>7, WholeKept DEF DoRequestNoFile, DoRequestFile, parser, client, Parsing
<1>8. CASE ProcessWrite \/ WriteBlocks
  BY <1>8, WholeKept DEF ProcessWrite, WriteBlocks, parser, client, Parsing
<1>9. ASSUME NEW n, Writev(n) PROVE WholeInv'
  BY <1>9, WholeKept DEF Writev, client, Parsing
<1>10. CASE UNCHANGED vars
  BY <1>10 DEF vars, parser, client, reply, WholeInv, Parsing
<1> QED
  BY <1>1, <1>2, <1>3, <1>4, <1>5, <1>6, <1>7, <1>8, <1>9, <1>10 DEF Next, Serve

\* A server that asks for more of a request has not got all of it, unless its
\* body came in pieces.
THEOREM WholeIsEnough == ASSUME BodyWhole PROVE Spec => []CompleteIsTaken
<1>1. ParserInv /\ WholeInv => CompleteIsTaken
  <2> SUFFICES ASSUME ParserInv, WholeInv, pc = "in"
               PROVE  /\ WellFormed(msg) => done \/ taken < Len(Bytes[msg])
                      /\ done => Waiting = 0
    BY DEF CompleteIsTaken
  <2>1. done => Waiting = 0
    BY Lengths DEF ParserInv, Waiting
  <2> QED
    BY <2>1 DEF WholeInv
<1> QED
  BY <1>1, ParserInit, ParserNext, WholeInit, WholeNext, PTL DEF Spec

----------------------------------------------------------------------------
(* The mapped file. *)

FileInv == fileSize \in Nat /\ address \in Nat \cup {-1} /\ MapOwned

LEMMA FileInit == Init => FileInv
  BY DEF Init, FileInv, MapOwned

\* Steps that leave the file alone, and do not leave the states it is kept in.
LEMMA FileKept ==
    ASSUME FileInv, UNCHANGED <<address, fileSize, leaked, cut>>,
           pc \notin {"reply", "out", "writing"}
    PROVE  FileInv'
  BY DEF FileInv, MapOwned

LEMMA UnmapKeeps ==
    ASSUME FileInv, Unmap, UNCHANGED <<fileSize, cut>>, pc \in {"out", "writing"}
    PROVE  FileInv'
<1>1. address' = 0 /\ address' \in Nat \cup {-1} /\ ~(address' > 0) /\ fileSize' \in Nat
  BY DEF FileInv, Unmap
<1>2. ~cut => ~(address > 0 /\ address # fileSize)
  BY DEF FileInv, MapOwned
<1>3. leaked' = (leaked \/ (address > 0 /\ address # fileSize)) /\ cut' = cut
  BY DEF Unmap
<1>4. ~cut => ~leaked
  BY DEF FileInv, MapOwned
<1>5. ~cut' => ~leaked'
  <2> SUFFICES ASSUME ~cut' PROVE ~leaked'
    OBVIOUS
  <2>1. ~cut
    BY <1>3
  <2>2. ~(leaked \/ (address > 0 /\ address # fileSize))
    BY <1>2, <1>4, <2>1
  <2> QED
    BY <1>3, <2>2
<1> QED
  BY <1>1, <1>5 DEF FileInv, MapOwned

LEMMA FileNext == FileInv /\ [Next]_vars => FileInv'
<1> SUFFICES ASSUME FileInv, [Next]_vars PROVE FileInv'
  OBVIOUS
<1>1. CASE Connect
  BY <1>1, FileKept DEF Connect, file
<1>2. CASE AskAgain
  BY <1>2, FileKept DEF AskAgain, file
<1>3. ASSUME NEW n, Arrive(n) PROVE FileInv'
  BY <1>3, FileKept DEF Arrive, file
<1>4. CASE Drop
  BY <1>4 DEF Drop, file, FileInv, MapOwned
<1>5. CASE Read \/ ReadFails
  BY <1>5, FileKept DEF Read, ReadFails, file
<1>6. CASE Parse
  BY <1>6, FileKept DEF Parse, ParseRequestLine, ParseHeader, ParseContent, ParseMore, file
<1>7. CASE DoRequestNoFile
  BY <1>7 DEF DoRequestNoFile, FileInv, MapOwned
<1>8. ASSUME NEW n \in FileSizes, DoRequestFile(n) PROVE FileInv'
  <2>1. n \in Nat
    OBVIOUS
  <2>2. ~cut => ~(address > 0)
    BY <1>8 DEF DoRequestFile, FileInv, MapOwned
  <2>3. leaked' = (leaked \/ address > 0) /\ cut' = cut
    BY <1>8 DEF DoRequestFile
  <2>4. ~cut' => ~leaked'
    BY <2>2, <2>3, Zenon DEF FileInv, MapOwned
  <2>5. ret' = "file" /\ pc' = "reply" /\ fileSize' = n /\ address' \in {-1, n}
    BY <1>8 DEF DoRequestFile
  <2>6. address' \in Nat \cup {-1} /\ fileSize' \in Nat /\ (address' > 0 => address' = fileSize')
    BY <2>1, <2>5
  <2> QED
    BY <2>4, <2>5, <2>6 DEF FileInv, MapOwned
<1>9. CASE ProcessWrite
  BY <1>9 DEF ProcessWrite, SizeOfReply, file, FileInv, MapOwned
<1>10. CASE CloseConn
  BY <1>10 DEF CloseConn, NoAnswer, file, FileInv, MapOwned
<1>11. ASSUME NEW n, Writev(n) PROVE FileInv'
  <2>1. CASE left - n > 0
    BY <1>11, <2>1 DEF Writev, FileInv, MapOwned
  <2>2. CASE ~(left - n > 0)
    BY <1>11, <2>2, UnmapKeeps DEF Writev
  <2> QED
    BY <2>1, <2>2
<1>12. CASE WriteBlocks
  BY <1>12 DEF WriteBlocks, file, reply, FileInv, MapOwned
<1>13. CASE WriteFails \/ WriteFaults
  BY <1>13, UnmapKeeps DEF WriteFails, WriteFaults
<1>14. CASE UNCHANGED vars
  BY <1>14 DEF vars, file, reply, FileInv, MapOwned
<1> QED
  BY <1>1, <1>2, <1>3, <1>4, <1>5, <1>6, <1>7, <1>8, <1>9, <1>10, <1>11, <1>12, <1>13, <1>14
  DEF Next, Serve

\* The file of a response is mapped until write() is through with it, and
\* unmapped then in its full size, unless the connection is dropped between.
THEOREM MappingIsOwned == Spec => []MapOwned
<1>1. FileInv => MapOwned
  BY DEF FileInv
<1> QED
  BY <1>1, FileInit, FileNext, PTL DEF Spec

----------------------------------------------------------------------------
(* The bytes of the response. *)

\* What the vectors stand for when have bytes of due are sent: the rest of the
\* head and the file behind it, or the rest of the file.
Vectored ==
    IF have < HeadSize
    THEN iov = <<[base |-> have, len |-> HeadSize - have], [base |-> 0, len |-> due - HeadSize]>>
    ELSE \E b \in Nat : iov = <<[base |-> b, len |-> 0], [base |-> have - HeadSize, len |-> left]>>

Sending ==
    /\ due \in Nat /\ due >= HeadSize /\ head = HeadSize
    /\ have \in 0..due /\ left = due - have
    /\ due > HeadSize => address = due - HeadSize \/ address = -1
    /\ Vectored
    /\ got = Response(have) /\ ~done

ReplyInv ==
    /\ Len(got) \in Nat /\ got = Response(Len(got))
    /\ done => Len(got) = due
    /\ pc \in {"parse", "request", "reply"} \/ (pc = "in" /\ ~done) => got = <<>> /\ ~done
    /\ pc \in {"in", "parse", "request", "reply"} => have = 0
    /\ pc \in {"out", "writing"} => Sending
    /\ pc = "reply" /\ ret = "file" => fileSize \in Nat /\ (fileSize > 0 => address \in {-1, fileSize})

LEMMA Responses == ASSUME NEW n \in Nat
                   PROVE  Response(n) \in Seq(Nat) /\ Len(Response(n)) = n
  BY DEF Response

LEMMA NoBytes == Response(0) = <<>>
  BY DEF Response

\* Two sequences that count on from k, one where the other ends.
LEMMA CountOn ==
    ASSUME NEW k \in Nat, NEW s \in Seq(Nat), NEW t \in Seq(Nat),
           \A i \in 1..Len(s) : s[i] = k + i, \A i \in 1..Len(t) : t[i] = k + Len(s) + i
    PROVE  /\ s \o t \in Seq(Nat) /\ Len(s \o t) = Len(s) + Len(t)
           /\ \A i \in 1..Len(s) + Len(t) : (s \o t)[i] = k + i
<1>1. /\ s \o t \in Seq(Nat) /\ Len(s \o t) = Len(s) + Len(t)
      /\ \A i \in 1..Len(s) + Len(t) : (s \o t)[i] = IF i <= Len(s) THEN s[i] ELSE t[i - Len(s)]
  BY ConcatProperties
<1>2. ASSUME NEW i \in 1..Len(s) + Len(t) PROVE (s \o t)[i] = k + i
  <2>1. CASE i <= Len(s)
    BY <1>1, <2>1
  <2>2. CASE i > Len(s)
    <3>1. i - Len(s) \in 1..Len(t)
      BY <2>2
    <3> QED
      BY <1>1, <2>2, <3>1
  <2> QED
    BY <2>1, <2>2
<1> QED
  BY <1>1, <1>2

\* What can be sent of the vectors is the rest of the response, in order: all
\* of it if the file is mapped, else what is left of the head.
LEMMA VectorsRest ==
    ASSUME Sending
    PROVE  /\ Vectors \in Seq(Nat) /\ Len(Vectors) = left
           /\ Sendable \in 0..left /\ \A i \in 1..Sendable : Vectors[i] = have + i
<1> USE DEF Sending
<1> DEFINE V1 == Vector(iov[1], 0, head)
           V2 == Vector(iov[2], head, address)
<1>1. CASE have < HeadSize
  <2>1. iov[1] = [base |-> have, len |-> HeadSize - have] /\ iov[2] = [base |-> 0, len |-> due - HeadSize]
    BY <1>1 DEF Vectored
  <2>2. V1 = [i \in 1..HeadSize - have |-> have + i]
    BY <1>1, <2>1 DEF Vector
  <2>3. V2 = [i \in 1..due - HeadSize |-> IF Unmapped THEN 0 ELSE HeadSize + i]
    BY <1>1, <2>1 DEF Vector, Unmapped
  <2> HIDE DEF V1, V2
  <2>4. V1 \in Seq(Nat) /\ V2 \in Seq(Nat) /\ Len(V1) = HeadSize - have /\ Len(V2) = due - HeadSize
    BY <1>1, <2>2, <2>3
  <2>5. Vectors = V1 \o V2
    BY DEF Vectors, V1, V2
  <2>6. have \in Nat /\ Len(V1) + Len(V2) = left /\ \A i \in 1..Len(V1) : V1[i] = have + i
    BY <1>1, <2>2, <2>4
  <2>7. CASE Unmapped
    <3>1. Sendable = Len(V1)
      BY <2>1, <2>4, <2>7 DEF Sendable
    <3> HIDE DEF Sending
    <3>2. /\ Vectors \in Seq(Nat) /\ Len(Vectors) = Len(V1) + Len(V2)
          /\ \A i \in 1..Len(V1) : Vectors[i] = V1[i]
      <4> DEFINE u == Vectors
      <4>1. u = V1 \o V2
        BY <2>5
      <4> HIDE DEF u
      <4>2. V1 \in Seq(Nat) /\ V2 \in Seq(Nat)
        BY <2>4
      <4>3. /\ u \in Seq(Nat) /\ Len(u) = Len(V1) + Len(V2)
            /\ \A i \in 1..Len(V1) : u[i] = V1[i]
        BY <4>1, <4>2, Joined
      <4> QED
        BY <4>3 DEF u
    <3> QED
      BY <2>6, <3>1, <3>2
  <2>8. CASE ~Unmapped
    <3>1. \A i \in 1..Len(V2) : V2[i] = have + Len(V1) + i
      BY <1>1, <2>3, <2>4, <2>8
    <3> HIDE DEF Sending
    <3>2. /\ V1 \o V2 \in Seq(Nat) /\ Len(V1 \o V2) = Len(V1) + Len(V2)
          /\ \A i \in 1..Len(V1) + Len(V2) : (V1 \o V2)[i] = have + i
      BY <2>4, <2>6, <3>1, CountOn
    <3>3. Sendable = Len(Vectors) /\ left \in Nat
      BY <2>4, <2>6, <2>8 DEF Sendable
    <3> QED
      BY <2>5, <2>6, <3>2, <3>3
  <2> QED
    BY <2>7, <2>8
<1>2. CASE have >= HeadSize
  <2>1. iov[1].len = 0 /\ iov[2] = [base |-> have - HeadSize, len |-> left]
    BY <1>2 DEF Vectored
  <2>2. V1 = <<>>
    <3>1. V1 = [i \in 1..0 |-> IF iov[1].base + i \in 1..head THEN 0 + iov[1].base + i ELSE 0]
      BY <2>1 DEF Vector
    <3> HIDE DEF V1
    <3>2. 1..0 = {}
      OBVIOUS
    <3> QED
      BY <3>1, <3>2
  <2>3. V2 = [i \in 1..left |-> IF Unmapped THEN 0 ELSE have + i]
    BY <1>2, <2>1 DEF Vector, Unmapped
  <2> HIDE DEF V1, V2
  <2>4. V2 \in Seq(Nat) /\ Len(V2) = left
    BY <1>2, <2>3
  <2>5. Vectors = V1 \o V2
    BY DEF Vectors, V1, V2
  <2>6. Vectors = V2 /\ left \in Nat
    BY <1>2, <2>2, <2>4, <2>5
  <2>7. Sendable = IF Unmapped THEN 0 ELSE left
    BY <2>1, <2>4, <2>6 DEF Sendable
  <2> QED
    BY <2>3, <2>4, <2>6, <2>7
<1> QED
  BY <1>1, <1>2

\* One writev sends the next n bytes.
LEMMA SentOn ==
    ASSUME Sending, NEW n \in 1..Sendable
    PROVE  n \in 1..left /\ got \o SubSeq(Vectors, 1, n) = Response(have + n)
<1>1. /\ Vectors \in Seq(Nat) /\ Len(Vectors) = left
      /\ Sendable \in 0..left /\ \A i \in 1..Sendable : Vectors[i] = have + i
  BY VectorsRest
<1>2. n \in 1..left /\ have \in Nat /\ left \in Nat
  BY <1>1 DEF Sending
<1> DEFINE S == SubSeq(Vectors, 1, n)
<1>3. S \in Seq(Nat) /\ Len(S) = n /\ \A i \in 1..n : S[i] = have + i
  BY <1>1, <1>2
<1>4. got \in Seq(Nat) /\ Len(got) = have /\ \A i \in 1..have : got[i] = i
  BY <1>2, Responses DEF Sending, Response
<1> HIDE DEF S
<1>5. (\A i \in 1..Len(got) : got[i] = 0 + i) /\ (\A i \in 1..Len(S) : S[i] = 0 + Len(got) + i)
  BY <1>2, <1>3, <1>4
<1>6. /\ got \o S \in Seq(Nat) /\ Len(got \o S) = Len(got) + Len(S)
      /\ \A i \in 1..Len(got) + Len(S) : (got \o S)[i] = 0 + i
  BY <1>3, <1>4, <1>5, CountOn
<1>7. Response(have + n) \in Seq(Nat) /\ Len(Response(have + n)) = have + n
  BY <1>2, Responses
<1>8. \A i \in 1..have + n : (got \o S)[i] = Response(have + n)[i]
  BY <1>2, <1>3, <1>4, <1>6 DEF Response
<1>9. got \o S = Response(have + n)
  BY <1>2, <1>3, <1>4, <1>6, <1>7, <1>8, SeqEqual
<1> QED
  BY <1>2, <1>9 DEF S

\* Where the vectors are put for the rest.
LEMMA Advanced ==
    ASSUME Sending, NEW n \in 1..left, have > 0 => have + n >= head, left - n > 0
    PROVE  IF have + n < HeadSize
           THEN Advance(have + n, left - n) =
                  <<[base |-> have + n, len |-> HeadSize - (have + n)], [base |-> 0, len |-> due - HeadSize]>>
           ELSE \E b \in Nat : Advance(have + n, left - n) =
                  <<[base |-> b, len |-> 0], [base |-> have + n - HeadSize, len |-> left - n]>>
<1>1. /\ have \in Nat /\ head = HeadSize /\ due \in Nat /\ due >= HeadSize
      /\ left = due - have /\ n \in Nat /\ n > 0 /\ have <= due
  BY DEF Sending
<1>2. CASE have < HeadSize
  <2>1. /\ iov = <<[base |-> have, len |-> HeadSize - have], [base |-> 0, len |-> due - HeadSize]>>
        /\ iov[1].len = HeadSize - have
    BY <1>2 DEF Sending, Vectored
  <2>2. CASE have + n < HeadSize
    <3>1. have = 0
      BY <1>1, <2>2
    <3>2. ~(have + n >= iov[1].len)
      BY <1>1, <2>1, <2>2, <3>1
    <3> QED
      BY <1>1, <2>1, <2>2, <3>1, <3>2 DEF Advance
  <2>3. CASE have + n >= HeadSize
    <3>1. have + n >= iov[1].len
      BY <1>1, <2>1, <2>3
    <3>2. [iov[1] EXCEPT !.len = 0] = [base |-> have, len |-> 0]
      BY <2>1
    <3> QED
      BY <1>1, <2>3, <3>1, <3>2 DEF Advance, FileOffset
  <2> QED
    BY <1>1, <2>2, <2>3
<1>3. CASE have >= HeadSize
  <2>1. PICK b \in Nat : iov = <<[base |-> b, len |-> 0], [base |-> have - HeadSize, len |-> left]>>
    BY <1>1, <1>3 DEF Sending, Vectored
  <2>2. have + n >= iov[1].len /\ ~(have + n < HeadSize)
    BY <1>1, <1>3, <2>1
  <2>3. [iov[1] EXCEPT !.len = 0] = [base |-> b, len |-> 0]
    BY <2>1
  <2> QED
    BY <1>1, <2>2, <2>3 DEF Advance, FileOffset
<1> QED
  BY <1>1, <1>2, <1>3

LEMMA ReplyInit == Init => ReplyInv
<1> SUFFICES ASSUME Init PROVE ReplyInv
  OBVIOUS
<1>1. got = <<>> /\ Len(got) = 0 /\ pc = "closed" /\ ~done
  BY DEF Init
<1> QED
  BY <1>1, NoBytes DEF ReplyInv

\* Steps before the response is sent, and the end of a connection.
LEMMA NothingSent ==
    ASSUME ReplyInv, UNCHANGED <<have, got, due, done>>,
           pc \in {"parse", "request"} \/ (pc = "in" /\ ~done),
           pc' \in {"closed", "in", "parse", "request"}
    PROVE  ReplyInv'
  BY DEF ReplyInv

LEMMA Ended == ASSUME ReplyInv, UNCHANGED reply, pc' = "closed" PROVE ReplyInv'
  BY DEF ReplyInv, reply

LEMMA Asked == ASSUME Ask, pc' = "in", have' = 0 PROVE ReplyInv'
<1>1. got' = <<>> /\ Len(got') = 0 /\ ~done'
  BY DEF Ask
<1>2. got' = Response(0)
  BY <1>1, NoBytes
<1> QED
  BY <1>1, <1>2 DEF ReplyInv

LEMMA ReplyNext == HeadInTwo /\ ParserInv /\ ReplyInv /\ [Next]_vars => ReplyInv'
<1> SUFFICES ASSUME HeadInTwo, ParserInv, ReplyInv, [Next]_vars PROVE ReplyInv'
  OBVIOUS
<1>1. CASE Connect
  BY <1>1, Asked DEF Connect, InitSlot
<1>2. CASE AskAgain
  BY <1>2, Asked DEF AskAgain, out, ReplyInv
<1>3. ASSUME NEW n, Arrive(n) PROVE ReplyInv'
  BY <1>3, NothingSent DEF Arrive, out, reply
<1>4. CASE Drop \/ ReadFails \/ CloseConn \/ WriteFails \/ WriteFaults
  BY <1>4, Ended DEF Drop, ReadFails, CloseConn, WriteFails, WriteFaults
<1>5. CASE Read
  <2>1. ~done
    BY <1>5, Lengths DEF Read, Waiting, ParserInv
  <2> QED
    BY <1>5, <2>1, NothingSent DEF Read, out, reply
<1>6. CASE Parse
  <2>1. CASE ParseRequestLine
    BY <2>1 DEF ParseRequestLine, out, reply, file, ReplyInv
  <2>2. CASE ParseHeader \/ ParseContent \/ ParseMore
    BY <2>2, NothingSent DEF ParseHeader, ParseContent, ParseMore, out, reply, ReplyInv
  <2> QED
    BY <1>6, <2>1, <2>2 DEF Parse
<1>7. CASE DoRequestNoFile
  BY <1>7 DEF DoRequestNoFile, out, reply, ReplyInv
<1>8. ASSUME NEW n \in FileSizes, DoRequestFile(n) PROVE ReplyInv'
  <2>1. n \in Nat
    OBVIOUS
  <2> QED
    BY <1>8, <2>1 DEF DoRequestFile, out, reply, ReplyInv
<1>9. CASE ProcessWrite
  <2> DEFINE size == IF ret = "file" THEN fileSize ELSE 0
  <2>1. size \in Nat /\ (size > 0 => address = size \/ address = -1) /\ have = 0 /\ got = <<>> /\ ~done
    BY <1>9 DEF ProcessWrite, ReplyInv
  <2>2. /\ head' = HeadSize /\ left' = HeadSize + size /\ due' = HeadSize + size
        /\ iov' = <<[base |-> 0, len |-> HeadSize], [base |-> 0, len |-> size]>>
        /\ have' = 0 /\ got' = <<>> /\ ~done' /\ address' = address /\ pc' = "out"
    BY <1>9, <2>1 DEF ProcessWrite, SizeOfReply, file
  <2> HIDE DEF size
  <2>3. Vectored'
    BY <2>1, <2>2 DEF Vectored
  <2>4. Sending'
    BY <2>1, <2>2, <2>3, NoBytes DEF Sending
  <2> QED
    BY <2>2, <2>4, NoBytes DEF ReplyInv
<1>10. ASSUME NEW n \in 1..Sendable, Writev(n) PROVE ReplyInv'
  <2>1. Sending
    BY <1>10 DEF Writev, ReplyInv
  <2>2. /\ n \in 1..left /\ got' = Response(have + n) /\ have + n \in 0..due
        /\ have + n + (left - n) = due /\ left \in Nat /\ due \in Nat
    BY <1>10, <2>1, SentOn DEF Writev, Sending
  <2>3. Len(got') = have + n
    BY <2>2, Responses
  <2>4. CASE left - n > 0
    <3>1. /\ have' = have + n /\ left' = left - n /\ pc' = "writing"
          /\ UNCHANGED <<head, address, done, due>> /\ iov' = Advance(have + n, left - n)
      BY <1>10, <2>4 DEF Writev
    <3>2. have > 0 => have + n >= head
      BY <1>10 DEF Writev
    <3>3. Vectored'
      <4>1. IF have + n < HeadSize
            THEN Advance(have + n, left - n) =
                   <<[base |-> have + n, len |-> HeadSize - (have + n)], [base |-> 0, len |-> due - HeadSize]>>
            ELSE \E b \in Nat : Advance(have + n, left - n) =
                   <<[base |-> b, len |-> 0], [base |-> have + n - HeadSize, len |-> left - n]>>
        BY <2>1, <2>2, <2>4, <3>2, Advanced
      <4> HIDE DEF Sending
      <4>2. have' = have + n /\ left' = left - n /\ due' = due /\ iov' = Advance(have + n, left - n)
        BY <3>1
      <4> have \in Nat /\ n \in Nat /\ HeadSize \in Nat /\ left \in Nat
        BY <2>1, <2>2 DEF Sending
      <4>3. CASE have + n < HeadSize
        BY <4>1, <4>2, <4>3 DEF Vectored
      <4>4. CASE ~(have + n < HeadSize)
        <5>1. PICK b \in Nat : Advance(have + n, left - n) =
                   <<[base |-> b, len |-> 0], [base |-> have + n - HeadSize, len |-> left - n]>>
          BY <4>1, <4>4
        <5>2. iov' = <<[base |-> b, len |-> 0], [base |-> have' - HeadSize, len |-> left']>>
          BY <4>2, <5>1
        <5> QED
          BY <4>2, <4>4, <5>2 DEF Vectored
      <4> QED
        BY <4>3, <4>4
    <3>4. Sending'
      BY <2>1, <2>2, <2>4, <3>1, <3>3 DEF Sending
    <3> QED
      BY <2>1, <2>2, <2>3, <3>1, <3>4 DEF ReplyInv, Sending
  <2>5. CASE ~(left - n > 0)
    <3>1. /\ done' /\ due' = due
          /\ (pc' = "in" /\ have' = 0) \/ pc' = "closed"
      BY <1>10, <2>5 DEF Writev, InitSlot
    <3>2. Len(got') = due'
      BY <2>2, <2>3, <2>5, <3>1
    <3>3. got' = Response(Len(got')) /\ Len(got') \in Nat
      BY <2>2, <2>3
    <3> QED
      BY <3>1, <3>2, <3>3 DEF ReplyInv
  <2> QED
    BY <2>4, <2>5
<1>11. CASE WriteBlocks
  BY <1>11 DEF WriteBlocks, out, reply, file, ReplyInv, Sending, Vectored
<1>12. CASE UNCHANGED vars
  BY <1>12 DEF vars, out, reply, file, ReplyInv, Sending, Vectored
<1> QED
  BY <1>1, <1>2, <1>3, <1>4, <1>5, <1>6, <1>7, <1>8, <1>9, <1>10, <1>11, <1>12
  DEF Next, Serve

\* However the writevs cut the response, the client receives its bytes in
\* order and write() ends with the last of them, if the head takes no more
\* than two writevs.
THEOREM ResponseArrives == ASSUME HeadInTwo PROVE Spec => []ResponseExact
<1>1. ReplyInv => ResponseExact
  BY DEF ReplyInv, ResponseExact
<1> QED
  BY <1>1, ParserInit, ParserNext, ReplyInit, ReplyNext, PTL DEF Spec

----------------------------------------------------------------------------
(* Types. *)

Steps == {"closed", "in", "parse", "request", "reply", "out", "writing"}

Flags ==
    /\ mode \in {"LT", "ET"} /\ pc \in Steps /\ status \in {"ok", "open"} /\ ret \in Codes
    /\ leaked \in BOOLEAN /\ done \in BOOLEAN /\ cut \in BOOLEAN

TwoVectors(v) ==
    \E a, b, c, d \in Nat : v = <<[base |-> a, len |-> b], [base |-> c, len |-> d]>>

OutInv == head \in Nat /\ have \in Nat /\ left \in Nat /\ TwoVectors(iov)

LEMMA FlagsNext == Flags /\ [Next]_vars => Flags'
<1> SUFFICES ASSUME Flags, [Next]_vars PROVE Flags'
  OBVIOUS
<1> USE DEF Flags, Steps
<1>1. CASE Connect \/ AskAgain
  BY <1>1 DEF Connect, AskAgain, Ask, parser, file
<1>2. ASSUME NEW n, Arrive(n) PROVE Flags'
  BY <1>2 DEF Arrive, parser, file, reply
<1>3. CASE Drop
  BY <1>3 DEF Drop, parser, file, reply
<1>4. CASE Read \/ ReadFails
  BY <1>4 DEF Read, ReadFails, parser, file, reply
<1>5. CASE ParseRequestLine
  BY <1>5 DEF ParseRequestLine, file, reply, Codes
<1>6. CASE ParseHeader
  BY <1>6 DEF ParseHeader, file, reply
<1>7. CASE ParseContent
  BY <1>7 DEF ParseContent, file, reply
<1>8. CASE ParseMore
  BY <1>8 DEF ParseMore, file, reply
<1>9. CASE DoRequestNoFile \/ \E n \in FileSizes : DoRequestFile(n)
  BY <1>9 DEF DoRequestNoFile, DoRequestFile, parser, reply, Codes
<1>10. CASE ProcessWrite \/ CloseConn
  BY <1>10 DEF ProcessWrite, CloseConn, parser, file, reply, Codes
<1>11. ASSUME NEW n, Writev(n) PROVE Flags'
  BY <1>11 DEF Writev, Unmap
<1>12. CASE WriteBlocks \/ WriteFails \/ WriteFaults
  BY <1>12 DEF WriteBlocks, WriteFails, WriteFaults, Unmap, parser, file, reply
<1>13. CASE UNCHANGED vars
  BY <1>13 DEF vars, parser, file, reply
<1> QED
  BY <1>1, <1>2, <1>3, <1>4, <1>5, <1>6, <1>7, <1>8, <1>9, <1>10, <1>11, <1>12, <1>13
  DEF Next, Serve, Parse

LEMMA OffsetInFile == \A h \in Nat : FileOffset(h) = h - head
  BY DEF FileOffset

LEMMA OutNext == HeadInTwo /\ ReplyInv /\ FileInv /\ OutInv /\ [Next]_vars => OutInv'
<1> SUFFICES ASSUME HeadInTwo, ReplyInv, FileInv, OutInv, [Next]_vars PROVE OutInv'
  OBVIOUS
<1>1. CASE Connect
  BY <1>1 DEF Connect, InitSlot, OutInv, TwoVectors
<1>2. ASSUME UNCHANGED out PROVE OutInv'
  BY <1>2 DEF out, OutInv, TwoVectors
<1>3. CASE ProcessWrite
  <2> DEFINE n == IF ret = "file" THEN fileSize ELSE 0
  <2>1. n \in Nat /\ SizeOfReply \in Nat
    BY DEF SizeOfReply, FileInv
  <2>2. /\ head' = HeadSize /\ have' = have /\ left' = SizeOfReply
        /\ iov' = <<[base |-> 0, len |-> HeadSize], [base |-> 0, len |-> n]>>
    BY <1>3 DEF ProcessWrite
  <2> HIDE DEF n
  <2> QED
    BY <2>1, <2>2 DEF OutInv, TwoVectors
<1>4. ASSUME NEW n \in 1..Sendable, Writev(n) PROVE OutInv'
  <2>1. Sending
    BY <1>4 DEF Writev, ReplyInv
  <2>2. n \in 1..left
    BY <1>4, <2>1, SentOn
  <2>3. /\ have \in Nat /\ left \in Nat /\ n \in Nat /\ head = HeadSize
        /\ have + n <= due /\ due = have + left /\ due >= HeadSize /\ due \in Nat
    BY <2>1, <2>2 DEF Sending
  <2>4. /\ iov' = Advance(have + n, left - n)
        /\ (head' = head \/ head' = 0)
        /\ (have' = have + n \/ have' = 0) /\ (left' = left - n \/ left' = 0)
    BY <1>4 DEF Writev, InitSlot
  <2>5. CASE have + n >= iov[1].len /\ have + n >= head
    <3>1. PICK a, b, c, d \in Nat : iov = <<[base |-> a, len |-> b], [base |-> c, len |-> d]>>
      BY DEF OutInv, TwoVectors
    <3> DEFINE R == [iov[1] EXCEPT !.len = 0]
    <3>2. R = [base |-> a, len |-> 0]
      BY <3>1
    <3>3. iov' = <<[base |-> a, len |-> 0], [base |-> have + n - head, len |-> left - n]>>
      <4>1. Advance(have + n, left - n) = <<R, [base |-> FileOffset(have + n), len |-> left - n]>>
        BY <2>5, Zenon DEF Advance
      <4> HIDE DEF R
      <4>2. FileOffset(have + n) = have + n - head
        BY <2>3, OffsetInFile
      <4> QED
        BY <2>4, <3>2, <4>1, <4>2
    <3>4. have + n - head \in Nat /\ left - n \in Nat
      BY <2>2, <2>3, <2>5
    <3> DEFINE x == have + n - head
               y == left - n
    <3>5. TwoVectors(iov')
      <4>1. x \in Nat /\ y \in Nat /\ iov' = <<[base |-> a, len |-> 0], [base |-> x, len |-> y]>>
        BY <3>3, <3>4
      <4> HIDE DEF x, y
      <4> QED
        BY <4>1 DEF TwoVectors
    <3> QED
      BY <2>3, <2>4, <3>4, <3>5 DEF OutInv
  <2>6. CASE ~(have + n >= iov[1].len)
    <3>1. PICK a, b, c, d \in Nat : iov = <<[base |-> a, len |-> b], [base |-> c, len |-> d]>>
      BY DEF OutInv, TwoVectors
    <3>2. iov' = <<[base |-> have + n, len |-> b - (have + n)], [base |-> c, len |-> d]>>
      BY <2>4, <2>6, <3>1 DEF Advance
    <3>3. have + n \in Nat /\ b - (have + n) \in Nat /\ left - n \in Nat
      BY <2>2, <2>3, <2>6, <3>1
    <3> DEFINE x == have + n
               y == b - (have + n)
    <3>4. TwoVectors(iov')
      <4>1. x \in Nat /\ y \in Nat /\ iov' = <<[base |-> x, len |-> y], [base |-> c, len |-> d]>>
        BY <3>2, <3>3
      <4> HIDE DEF x, y
      <4> QED
        BY <4>1 DEF TwoVectors
    <3> QED
      BY <2>3, <2>4, <3>3, <3>4 DEF OutInv
  <2>7. have + n >= iov[1].len => have + n >= head
    <3>1. CASE have < HeadSize
      <4>1. iov[1].len = HeadSize - have
        BY <2>1, <3>1 DEF Sending, Vectored
      <4> QED
        BY <1>4, <2>3, <3>1, <4>1 DEF Writev
    <3>2. CASE have >= HeadSize
      BY <2>3, <3>2
    <3> QED
      BY <2>3, <3>1, <3>2
  <2> QED
    BY <2>5, <2>6, <2>7
<1> QED
  BY <1>1, <1>2, <1>3, <1>4 DEF Next, Serve, Parse, AskAgain, Arrive, Drop, Read, ReadFails,
     ParseRequestLine, ParseHeader, ParseContent, ParseMore, DoRequestNoFile, DoRequestFile,
     CloseConn, WriteBlocks, WriteFails, WriteFaults, vars

\* recv puts no more into the read buffer than it has room for, no index runs
\* ahead of the bytes read, and no vector turns negative, for requests and
\* files of any size, if two writevs are enough for the head.
THEOREM TypesKept == ASSUME HeadInTwo PROVE Spec => []TypeOK
<1>1. Init => Flags /\ OutInv
  <2> SUFFICES ASSUME Init PROVE Flags /\ OutInv
    OBVIOUS
  <2>1. Flags
    BY DEF Init, Flags, Steps, Codes
  <2>2. TwoVectors(iov)
    BY DEF Init, TwoVectors, NoVectors
  <2> QED
    BY <2>1, <2>2 DEF Init, OutInv
<1>2. ParserInv /\ FileInv /\ Flags /\ OutInv => TypeOK
  <2> SUFFICES ASSUME ParserInv, FileInv, Flags, OutInv PROVE TypeOK
    OBVIOUS
  <2>1. /\ Len(in.buf) <= BufferSize /\ in.checked \in 0..Len(in.buf) /\ in.start \in 0..in.checked
        /\ in.state \in {"line", "header", "content"}
        /\ in.cgi \in BOOLEAN /\ in.alive \in BOOLEAN /\ in.length \in Nat
    BY DEF ParserInv, BufferInv, Parser
  <2>2. \A v \in {1, 2} : iov[v].base \in Nat /\ iov[v].len \in Nat
    BY DEF OutInv, TwoVectors
  <2>3. address \in Nat \cup {-1} /\ fileSize \in Nat
    BY DEF FileInv
  <2>4. msg \in Messages /\ sent \in 0..Len(Bytes[msg]) /\ taken \in 0..sent
    BY DEF ParserInv, ClientInv
  <2> QED
    BY <2>1, <2>2, <2>3, <2>4 DEF TypeOK, Flags, Steps, OutInv
<1> QED
  BY <1>1, <1>2, ParserInit, ParserNext, FileInit, FileNext, ReplyInit, ReplyNext,
     FlagsNext, OutNext, PTL DEF Spec

============================================================================
