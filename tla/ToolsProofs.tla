----------------------------- MODULE ToolsProofs -----------------------------
(***************************************************************************)
(* The tools' invariants, proved for every set of pastes, batches and      *)
(* requests.                                                               *)
(***************************************************************************)
EXTENDS Tools, NamesProofs

(* What check_domain is called with *)

\* "://" is a text.
LEMMA ASchemeMark == SchemeMark \in Text
BY DEF SchemeMark, Text, Marks

\* A scheme is blank, or its mark is where the text before it ends.
AllBlank(s, c) == \A i \in 1 .. c : s[i] = Space
MarkedUpTo(s, c) == c >= 3 /\ MarkAt(s, c - 2) /\ \A i \in 1 .. c - 3 : s[i] # ":"

\* The scheme of a paste is blank, or ends in its only ":".
LEMMA SchemeEnds ==
    ASSUME NEW s \in Text, Blank(s) \/ IsScheme(s)
    PROVE  AllBlank(s, Len(s)) \/ MarkedUpTo(s, Len(s))
<1>1. CASE Blank(s)
  <2>1. \A i \in DOMAIN s : s[i] = Space
    BY <1>1 DEF Blank, ToSet
  <2>. QED  BY <2>1 DEF AllBlank, Text
<1>2. CASE IsScheme(s)
  <2>1. Ends(s, SchemeMark)
    BY <1>2, SuffixEnds, ASchemeMark DEF Text, IsScheme
  <2>2. Len(SchemeMark) = 3 /\ SchemeMark[1] = ":" /\ SchemeMark[2] = "/" /\ SchemeMark[3] = "/"
    BY DEF SchemeMark
  <2>. DEFINE n == Len(s)
  <2>3. n \in Nat /\ n >= 3
    BY <2>1, <2>2 DEF Ends, Text
  <2>4. s[n - 3 + 1] = ":" /\ s[n - 3 + 2] = "/" /\ s[n - 3 + 3] = "/"
    BY <2>1, <2>2 DEF Ends, Has
  <2>5. n - 3 + 1 = n - 2 /\ n - 3 + 2 = n - 2 + 1 /\ n - 3 + 3 = n - 2 + 2
    BY <2>3
  <2>6. MarkAt(s, n - 2)
    <3>. HIDE DEF n
    <3>. QED  BY <2>4, <2>5 DEF MarkAt
  <2>7. \A i \in 1 .. n - 3 : s[i] # ":"
    <3>. DEFINE k == n - 2 - 1
                u == SubSeq(s, 1, k)
    <3>1. k = n - 3 /\ Span(s, 1, k)
      BY <2>3 DEF Span
    <3>2. Len(u) = k - 1 + 1 /\ Copies(u, s, 1) /\ u \in Text
      <4>. HIDE DEF k
      <4>. QED  BY <3>1, PartOfText DEF Text
    <3>3. \A i \in DOMAIN u : u[i] # ":"
      BY <1>2 DEF IsScheme, Without, Before, ToSet
    <3>. HIDE DEF u
    <3>4. Len(u) = k
      BY <2>3, <3>2
    <3>. SUFFICES ASSUME NEW i \in 1 .. k PROVE s[i] # ":"
      BY <3>1
    <3>5. 1 + i - 1 = i /\ i \in DOMAIN u
      BY <3>2, <3>4 DEF Text
    <3>6. u[i] = s[i]
      BY <3>2, <3>4, <3>5 DEF Copies
    <3>. QED  BY <3>3, <3>5, <3>6
  <2>. QED  BY <2>3, <2>6, <2>7 DEF MarkedUpTo
<1>. QED  BY <1>1, <1>2

\* The places of the parts of a paste in its text.
LEMMA Spelled ==
    ASSUME NEW p \in Pastes
    PROVE  LET s == Spell(p)
               c1 == Len(p.scheme)
               c2 == c1 + Len(p.user)
               c3 == c2 + Len(p.host)
               c4 == c3 + Len(p.port)
           IN  /\ s \in Text /\ Len(s) = c4 + Len(p.tail)
               /\ Has(s, p.scheme, 0) /\ Has(s, p.user, c1) /\ Has(s, p.host, c2)
               /\ Has(s, p.port, c3) /\ Has(s, p.tail, c4)
<1>. DEFINE S1 == p.scheme
            S2 == S1 \o p.user
            S3 == S2 \o p.host
            S4 == S3 \o p.port
            S5 == S4 \o p.tail
            c1 == Len(p.scheme)
            c2 == c1 + Len(p.user)
            c3 == c2 + Len(p.host)
            c4 == c3 + Len(p.port)
<1>1. p.scheme \in Text /\ p.user \in Text /\ p.host \in Text /\ p.port \in Text /\ p.tail \in Text
  BY PastesAssumption
<1>. DEFINE u == p.scheme
            v == p.user
            w == p.host
            x == p.port
            y == p.tail
<1>. HIDE DEF u, v, w, x, y
<1>2. /\ u \in Text /\ v \in Text /\ w \in Text /\ x \in Text /\ y \in Text
  BY <1>1 DEF u, v, w, x, y
<1>3. /\ S1 = u /\ S2 = S1 \o v /\ S3 = S2 \o w /\ S4 = S3 \o x /\ S5 = S4 \o y
  BY DEF u, v, w, x, y
<1>4. Spell(p) = S5
  BY DEF Spell
<1>. HIDE DEF S1, S2, S3, S4, S5
<1>5. /\ S1 \in Text /\ Len(S1) = Len(u)
      /\ S2 \in Text /\ Len(S2) = Len(S1) + Len(v)
      /\ S3 \in Text /\ Len(S3) = Len(S2) + Len(w)
      /\ S4 \in Text /\ Len(S4) = Len(S3) + Len(x)
      /\ S5 \in Text /\ Len(S5) = Len(S4) + Len(y)
  BY <1>2, <1>3, ConcatProperties DEF Text
<1>6. /\ Len(u) \in Nat /\ Len(v) \in Nat /\ Len(w) \in Nat /\ Len(x) \in Nat /\ Len(y) \in Nat
      /\ Len(S1) \in Nat /\ Len(S2) \in Nat /\ Len(S3) \in Nat /\ Len(S4) \in Nat
      /\ 0 \in Nat
  BY <1>2, <1>5 DEF Text
<1>7. Has(S1, u, 0)
  BY <1>2, <1>3, <1>6 DEF Has
<1>8. Has(S2, u, 0) /\ Has(S2, v, Len(S1))
  BY <1>2, <1>3, <1>5, <1>6, <1>7, Joined DEF Text
<1>9. Has(S3, u, 0) /\ Has(S3, v, Len(S1)) /\ Has(S3, w, Len(S2))
  BY <1>2, <1>3, <1>5, <1>6, <1>8, Joined DEF Text
<1>10. Has(S4, u, 0) /\ Has(S4, v, Len(S1)) /\ Has(S4, w, Len(S2)) /\ Has(S4, x, Len(S3))
  BY <1>2, <1>3, <1>5, <1>6, <1>9, Joined DEF Text
<1>11. /\ Has(S5, u, 0) /\ Has(S5, v, Len(S1)) /\ Has(S5, w, Len(S2)) /\ Has(S5, x, Len(S3))
       /\ Has(S5, y, Len(S4))
  BY <1>2, <1>3, <1>5, <1>6, <1>10, Joined DEF Text
<1>12. Len(S1) = c1 /\ Len(S2) = c2 /\ Len(S3) = c3 /\ Len(S4) = c4
  BY <1>5 DEF u, v, w, x, y
<1>. QED  BY <1>4, <1>5, <1>11, <1>12 DEF u, v, w, x, y

\* Where a text has the mark of a scheme.
LEMMA MarkHeld ==
    ASSUME NEW s \in Text
    PROVE  SchemeMark \in SubSeqs(s) <=> \E i \in 1 .. Len(s) - 2 : MarkAt(s, i)
<1>1. SchemeMark \in Text /\ Len(s) \in Nat /\ Len(SchemeMark) = 3
      /\ SchemeMark[1] = ":" /\ SchemeMark[2] = "/" /\ SchemeMark[3] = "/"
  BY ASchemeMark DEF Text, SchemeMark
<1>2. ASSUME NEW i \in 0 .. Len(s), NEW j \in 0 .. Len(s), SchemeMark = SubSeq(s, i + 1, j)
      PROVE  \E k \in 1 .. Len(s) - 2 : MarkAt(s, k)
  <2>. DEFINE a == i + 1
              u == SubSeq(s, a, j)
  <2>1. j >= a
    <3>. SUFFICES ASSUME ~(j >= a) PROVE FALSE
      OBVIOUS
    <3>1. u = <<>>
      BY SubSeqEmpty
    <3>. QED  BY <1>1, <1>2, <3>1
  <2>2. Span(s, a, j)
    BY <1>1, <2>1 DEF Span
  <2>3. Len(u) = j - a + 1 /\ Copies(u, s, a)
    <3>. HIDE DEF a
    <3>. QED  BY <2>2, PartOfText DEF Text
  <2>4. Len(u) = 3 /\ u[1] = ":" /\ u[2] = "/" /\ u[3] = "/"
    BY <1>1, <1>2
  <2>. HIDE DEF u, a
  <2>5. a \in 1 .. Len(s) - 2
    <3>1. j - a + 1 = 3
      BY <2>3, <2>4
    <3>2. a \in Int /\ a >= 1 /\ j \in Int /\ j <= Len(s)
      BY <1>1, <2>2 DEF Span
    <3>. QED  BY <1>1, <3>1, <3>2
  <2>6. a + 1 - 1 = a /\ a + 2 - 1 = a + 1 /\ a + 3 - 1 = a + 2
    BY <2>5, <1>1
  <2>7. u[1] = s[a + 1 - 1] /\ u[2] = s[a + 2 - 1] /\ u[3] = s[a + 3 - 1]
    <3>1. \A k \in 1 .. 3 : u[k] = s[a + k - 1]
      BY <2>3, <2>4 DEF Copies
    <3>. QED  BY <3>1
  <2>8. MarkAt(s, a)
    BY <1>1, <2>4, <2>6, <2>7 DEF MarkAt
  <2>. QED  BY <2>5, <2>8
<1>3. ASSUME NEW k \in 1 .. Len(s) - 2, MarkAt(s, k)
      PROVE  SchemeMark \in SubSeqs(s)
  <2>. DEFINE j == k + 2
              u == SubSeq(s, k, j)
  <2>1. Span(s, k, j)
    BY <1>1 DEF Span
  <2>2. u \in Text /\ Len(u) = j - k + 1 /\ Copies(u, s, k)
    <3>. HIDE DEF j
    <3>. QED  BY <2>1, PartOfText DEF Text
  <2>. HIDE DEF u
  <2>3. Len(u) = 3 /\ k + 1 - 1 = k /\ k + 2 - 1 = k + 1 /\ k + 3 - 1 = k + 2
    BY <1>1, <2>2
  <2>4. u[1] = s[k + 1 - 1] /\ u[2] = s[k + 2 - 1] /\ u[3] = s[k + 3 - 1]
    BY <2>2, <2>3 DEF Copies
  <2>5. u[1] = ":" /\ u[2] = "/" /\ u[3] = "/"
    BY <1>3, <2>3, <2>4 DEF MarkAt
  <2>6. u = SchemeMark
    BY <2>2, <2>3, <2>5, Triple DEF SchemeMark, Text
  <2>7. /\ k - 1 \in 0 .. Len(s) /\ j \in 0 .. Len(s) /\ k - 1 + 1 = k
    BY <1>1
  <2>. DEFINE h == k - 1
  <2>8. SchemeMark = SubSeq(s, h + 1, j)
    BY <2>6, <2>7 DEF u
  <2>. HIDE DEF j, h
  <2>9. h \in 0 .. Len(s) /\ j \in 0 .. Len(s)
    BY <2>7 DEF h
  <2>. QED  BY <2>8, <2>9 DEF SubSeqs
<1>. QED  BY <1>2, <1>3 DEF SubSeqs

\* The parts of a paste are around its host as HostLeft needs them.
LEMMA PasteAround ==
    ASSUME NEW p \in Pastes
    PROVE  LET c1 == Len(p.scheme)
               c2 == c1 + Len(p.user)
               c3 == c2 + Len(p.host)
               c4 == c3 + Len(p.port)
           IN  /\ Around(Spell(p), c1, c2, c3, c4)
               /\ SchemeMark \in SubSeqs(p.scheme) \/ SchemeMark \notin SubSeqs(p.tail) =>
                    OneScheme(Spell(p), c1, c4)
<1>. DEFINE s == Spell(p)
            u == p.scheme
            v == p.user
            w == p.host
            x == p.port
            y == p.tail
            c1 == Len(u)
            c2 == c1 + Len(v)
            c3 == c2 + Len(w)
            c4 == c3 + Len(x)
<1>1. /\ s \in Text /\ Len(s) = c4 + Len(y)
      /\ Has(s, u, 0) /\ Has(s, v, c1) /\ Has(s, w, c2) /\ Has(s, x, c3) /\ Has(s, y, c4)
  <2>. HIDE DEF s
  <2>. QED  BY Spelled DEF s
<1>2. /\ u \in Text /\ v \in Text /\ w \in Text /\ x \in Text /\ y \in Text
      /\ Blank(u) \/ IsScheme(u)
      /\ v = <<>> \/ Last(v) = "@"
      /\ Without(v, {"/"}) /\ Without(w, {"/", ":", "@", "]"})
      /\ \/ Blank(x)
         \/ Len(x) > 1 /\ x[1] = ":" /\ Without(Tail(x), {":", "/", "@", "]"})
      /\ y = <<>> \/ Head(y) = "/"
  BY PastesAssumption
<1>. HIDE DEF s, u, v, w, x, y
<1>3. /\ Len(u) \in Nat /\ Len(v) \in Nat /\ Len(w) \in Nat /\ Len(x) \in Nat /\ Len(y) \in Nat
      /\ Len(s) \in Nat
  BY <1>1, <1>2 DEF Text
<1>17. ASSUME NEW t \in Text, NEW c \in Nat, Has(s, t, c), NEW i \in c + 1 .. c + Len(t)
       PROVE  i - c \in 1 .. Len(t) /\ s[i] = t[i - c]
  <2>1. i - c \in 1 .. Len(t) /\ c + (i - c) = i
    BY <1>17 DEF Text
  <2>2. s[c + (i - c)] = t[i - c]
    BY <1>17, <2>1 DEF Has
  <2>. QED  BY <2>1, <2>2
<1>18. c1 \in Nat /\ c2 \in Nat /\ c3 \in Nat /\ c4 \in Nat
  BY <1>3
<1>19. \A i \in 1 .. c1 : i \in 1 .. Len(u) /\ s[i] = u[i]
  <2>1. \A i \in 1 .. c1 : i \in 0 + 1 .. 0 + Len(u) /\ i - 0 = i
    BY <1>3
  <2>2. \A i \in 1 .. c1 : i - 0 \in 1 .. Len(u) /\ s[i] = u[i - 0]
    BY <1>1, <1>2, <1>17, <2>1
  <2>. QED  BY <2>1, <2>2
<1>20. \A i \in c1 + 1 .. c2 : i - c1 \in 1 .. Len(v) /\ s[i] = v[i - c1]
  <2>. HIDE DEF c1
  <2>. QED  BY <1>1, <1>2, <1>17, <1>18
<1>21. \A i \in c2 + 1 .. c3 : i - c2 \in 1 .. Len(w) /\ s[i] = w[i - c2]
  <2>. HIDE DEF c2
  <2>. QED  BY <1>1, <1>2, <1>17, <1>18
<1>22. \A i \in c3 + 1 .. c4 : i - c3 \in 1 .. Len(x) /\ s[i] = x[i - c3]
  <2>. HIDE DEF c3
  <2>. QED  BY <1>1, <1>2, <1>17, <1>18
<1>23. \A i \in c4 + 1 .. Len(s) : i - c4 \in 1 .. Len(y) /\ s[i] = y[i - c4]
  <2>. HIDE DEF c4
  <2>. QED  BY <1>1, <1>2, <1>17, <1>18
<1>5. /\ c1 \in 0 .. Len(s) /\ c2 \in c1 .. Len(s) /\ c3 \in c2 .. Len(s) /\ c4 \in c3 .. Len(s)
      /\ c1 \in Nat /\ c2 \in Nat /\ c3 \in Nat /\ c4 \in Nat
  BY <1>1, <1>3
<1>16. DOMAIN v = 1 .. Len(v) /\ DOMAIN w = 1 .. Len(w) /\ DOMAIN x = 1 .. Len(x)
  BY <1>2 DEF Text
<1>6. /\ \A i \in 1 .. Len(v) : v[i] # "/"
      /\ \A i \in 1 .. Len(w) : w[i] \notin {"/", ":", "@", "]"}
  <2>1. \A i \in DOMAIN v : v[i] # "/"
    BY <1>2 DEF Without, ToSet
  <2>2. \A i \in DOMAIN w : w[i] \notin {"/", ":", "@", "]"}
    BY <1>2 DEF Without, ToSet
  <2>. QED  BY <2>1, <2>2, <1>16
<1>7. \/ \A i \in 1 .. Len(x) : x[i] = Space
      \/ /\ Len(x) > 1 /\ x[1] = ":"
         /\ \A i \in 2 .. Len(x) : x[i] \notin {":", "/", "@", "]"}
  <2>1. CASE Blank(x)
    <3>1. \A i \in DOMAIN x : x[i] = Space
      BY <2>1 DEF Blank, ToSet
    <3>. QED  BY <3>1, <1>16
  <2>2. CASE Len(x) > 1 /\ x[1] = ":" /\ Without(Tail(x), {":", "/", "@", "]"})
    <3>1. Tail(x) \in Text /\ Len(Tail(x)) = Len(x) - 1
          /\ \A i \in 1 .. Len(x) - 1 : Tail(x)[i] = x[i + 1]
      BY <1>2, <2>2, HeadTailProperties DEF Text
    <3>2. \A i \in 1 .. Len(x) - 1 : Tail(x)[i] \notin {":", "/", "@", "]"}
      <4>1. \A i \in 1 .. Len(x) - 1 : i \in DOMAIN Tail(x)
        BY <3>1 DEF Text
      <4>. QED  BY <2>2, <4>1 DEF Without, ToSet
    <3>3. \A i \in 2 .. Len(x) : i - 1 \in 1 .. Len(x) - 1 /\ i - 1 + 1 = i
      BY <1>3
    <3>4. \A i \in 2 .. Len(x) : x[i] \notin {":", "/", "@", "]"}
      <4>. TAKE i \in 2 .. Len(x)
      <4>1. Tail(x)[i - 1] = x[i - 1 + 1]
        BY <3>1, <3>3
      <4>. QED  BY <3>2, <3>3, <4>1
    <3>. QED  BY <2>2, <3>4
  <2>. QED  BY <1>2, <2>1, <2>2
<1>8. \/ \A i \in c3 + 1 .. c4 : s[i] = Space
      \/ /\ c4 > c3 + 1 /\ s[c3 + 1] = ":"
         /\ \A i \in c3 + 2 .. c4 : s[i] \notin {":", "/", "@", "]"}
  <2>1. \A i \in c3 + 2 .. c4 : i \in c3 + 1 .. c4 /\ i - c3 \in 2 .. Len(x)
    BY <1>3, <1>5
  <2>2. Len(x) > 1 => c4 > c3 + 1 /\ c3 + 1 \in c3 + 1 .. c4 /\ c3 + 1 - c3 = 1
    BY <1>3, <1>5
  <2>. HIDE DEF c3, c4
  <2>3. CASE \A i \in 1 .. Len(x) : x[i] = Space
    BY <1>22, <2>3
  <2>4. CASE /\ Len(x) > 1 /\ x[1] = ":"
             /\ \A i \in 2 .. Len(x) : x[i] \notin {":", "/", "@", "]"}
    <3>1. s[c3 + 1] = x[c3 + 1 - c3]
      BY <1>3, <1>18, <1>22, <2>2, <2>4
    <3>. QED  BY <1>3, <1>18, <1>22, <2>1, <2>2, <2>4, <3>1
  <2>. QED  BY <1>7, <2>3, <2>4
<1>9. \A i \in c3 + 1 .. c4 : s[i] \notin {"/", "@", "]"}
  <2>1. \A i \in c3 + 1 .. c4 : i = c3 + 1 \/ i \in c3 + 2 .. c4
    BY <1>5
  <2>. HIDE DEF c3, c4
  <2>. QED  BY <1>8, <2>1, SpaceApart
<1>10. /\ \A i \in c1 + 1 .. c2 : s[i] # "/"
       /\ \A i \in c2 + 1 .. c3 : s[i] \notin {"/", ":", "@", "]"}
  <2>. HIDE DEF c1, c2, c3
  <2>. QED  BY <1>20, <1>21, <1>6
<1>11. c2 = c1 \/ s[c2] = "@"
  <2>. SUFFICES ASSUME c2 # c1 PROVE s[c2] = "@"
    OBVIOUS
  <2>1. v # <<>> /\ c2 \in c1 + 1 .. c2 /\ c2 - c1 = Len(v)
    BY <1>2, <1>3 DEF Text
  <2>2. s[c2] = v[c2 - c1]
    <3>. HIDE DEF c1, c2
    <3>. QED  BY <1>20, <2>1
  <2>. QED  BY <1>2, <2>1, <2>2 DEF Last
<1>12. c4 = Len(s) \/ s[c4 + 1] = "/"
  <2>. SUFFICES ASSUME c4 # Len(s) PROVE s[c4 + 1] = "/"
    OBVIOUS
  <2>1. c4 + 1 \in c4 + 1 .. Len(s) /\ c4 + 1 - c4 = 1 /\ Len(y) # 0
    BY <1>1, <1>3
  <2>2. s[c4 + 1] = y[c4 + 1 - c4]
    <3>. HIDE DEF c4
    <3>. QED  BY <1>3, <1>18, <1>23, <2>1
  <2>3. y # <<>>
    BY <2>1
  <2>. QED  BY <1>2, <2>1, <2>2, <2>3 DEF Text
<1>13. (AllBlank(s, c1) /\ AllBlank(u, c1)) \/ MarkedUpTo(s, c1)
  <2>1. CASE AllBlank(u, c1)
    BY <1>19, <2>1 DEF AllBlank
  <2>2. CASE MarkedUpTo(u, c1)
    <3>1. c1 - 2 \in 1 .. c1 /\ c1 - 2 + 1 \in 1 .. c1 /\ c1 - 2 + 2 \in 1 .. c1
      BY <1>3, <2>2 DEF MarkedUpTo
    <3>2. \A i \in 1 .. c1 - 3 : i \in 1 .. c1
      BY <1>3
    <3>. HIDE DEF c1
    <3>. QED  BY <1>19, <2>2, <3>1, <3>2 DEF MarkAt, MarkedUpTo
  <2>. QED  BY <1>2, <2>1, <2>2, SchemeEnds
<1>14. Around(s, c1, c2, c3, c4)
  <2>1. \A i \in c1 + 1 .. c4 : i \in c1 + 1 .. c2 \/ i \in c2 + 1 .. c3 \/ i \in c3 + 1 .. c4
    BY <1>5
  <2>2. \A i \in c2 + 1 .. c4 : i \in c2 + 1 .. c3 \/ i \in c3 + 1 .. c4
    BY <1>5
  <2>. HIDE DEF c1, c2, c3, c4
  <2>3. \A i \in c1 + 1 .. c4 : s[i] # "/"
    BY <2>1, <1>9, <1>10
  <2>4. \A i \in c2 + 1 .. c4 : s[i] # "@" /\ s[i] # "]"
    BY <2>2, <1>9, <1>10
  <2>. QED  BY <1>5, <1>8, <1>10, <1>11, <1>12, <1>13, <2>3, <2>4 DEF Around, AllBlank, MarkedUpTo
<1>15. ASSUME SchemeMark \in SubSeqs(u) \/ SchemeMark \notin SubSeqs(y)
       PROVE  OneScheme(s, c1, c4)
  <2>1. CASE MarkedUpTo(s, c1)
    BY <2>1 DEF OneScheme, MarkedUpTo
  <2>2. CASE AllBlank(u, c1)
    <3>1. SchemeMark \notin SubSeqs(u)
      <4>. SUFFICES ASSUME NEW i \in 1 .. Len(u) - 2, MarkAt(u, i) PROVE FALSE
        BY <1>2, MarkHeld
      <4>1. i \in 1 .. c1
        BY <1>3
      <4>. QED  BY <2>2, <4>1, SpaceApart DEF MarkAt, AllBlank
    <3>2. \A i \in 1 .. Len(y) - 2 : ~MarkAt(y, i)
      BY <1>2, <1>15, <3>1, MarkHeld
    <3>3. ASSUME NEW i \in c4 + 1 .. Len(s) - 2, MarkAt(s, i) PROVE FALSE
      <4>1. /\ i \in c4 + 1 .. Len(s) /\ i + 1 \in c4 + 1 .. Len(s) /\ i + 2 \in c4 + 1 .. Len(s)
            /\ i - c4 \in 1 .. Len(y) - 2 /\ i + 1 - c4 = i - c4 + 1 /\ i + 2 - c4 = i - c4 + 2
        BY <1>1, <1>3, <1>5
      <4>. HIDE DEF c4
      <4>. DEFINE j == i + 1
                  l == i + 2
                  k == i - c4
      <4>2. /\ j \in c4 + 1 .. Len(s) /\ l \in c4 + 1 .. Len(s)
            /\ k \in 1 .. Len(y) - 2 /\ i - c4 = k /\ j - c4 = k + 1 /\ l - c4 = k + 2
        BY <1>3, <1>18, <4>1
      <4>. HIDE DEF j, l, k
      <4>3. s[i] = y[i - c4] /\ s[j] = y[j - c4] /\ s[l] = y[l - c4]
        BY <1>23, <4>1, <4>2
      <4>4. k \in 1 .. Len(y) - 2 /\ s[i] = y[k] /\ s[j] = y[k + 1] /\ s[l] = y[k + 2]
        BY <4>2, <4>3
      <4>5. MarkAt(y, k)
        BY <3>3, <4>4 DEF MarkAt, j, l
      <4>. QED  BY <3>2, <4>4, <4>5
    <3>. HIDE DEF c1, c4
    <3>. QED  BY <3>3 DEF OneScheme
  <2>. QED  BY <1>13, <2>1, <2>2
<1>. QED  BY <1>14, <1>15 DEF s, u, v, w, x, y

\* Cleaning leaves of a paste what it leaves of its host.
LEMMA PasteCleaned ==
    ASSUME NEW p \in Pastes,
           SchemeMark \in SubSeqs(p.scheme) \/ SchemeMark \notin SubSeqs(p.tail)
    PROVE  Clean(Spell(p)) = Clean(p.host)
<1>. DEFINE c1 == Len(p.scheme)
            c2 == c1 + Len(p.user)
            c3 == c2 + Len(p.host)
            c4 == c3 + Len(p.port)
            s == Spell(p)
            w == p.host
<1>1. /\ s \in Text /\ w \in Text /\ p.scheme \in Text /\ p.user \in Text
      /\ Has(s, w, c2) /\ Without(w, {"/", ":", "@", "]"})
  <2>1. w \in Text /\ p.scheme \in Text /\ p.user \in Text /\ Without(w, {"/", ":", "@", "]"})
    BY PastesAssumption
  <2>. HIDE DEF s
  <2>. QED  BY <2>1, Spelled DEF s
<1>2. Around(s, c1, c2, c3, c4) /\ OneScheme(s, c1, c4)
  BY PasteAround
<1>3. Clean(s) = Trim(SubSeq(s, c2 + 1, c3), Space)
  <2>. HIDE DEF s, c1, c2, c3, c4
  <2>. QED  BY <1>1, <1>2, HostCleaned DEF Text
<1>4. SubSeq(s, c2 + 1, c3) = w
  <2>1. c2 \in Nat
    <3>1. \A t \in Text : Len(t) \in Nat
      BY DEF Text
    <3>. DEFINE l == Len(p.user)
    <3>2. c1 \in Nat /\ l \in Nat
      BY <1>1, <3>1
    <3>. HIDE DEF c1, l
    <3>3. c1 + l \in Nat
      BY <3>2
    <3>. QED  BY <3>3 DEF l
  <2>. HIDE DEF c2, s
  <2>. QED  BY <1>1, <2>1, PartThatItHas DEF Text
<1>. HIDE DEF s, w
<1>5. Clean(w) = Trim(SubSeq(w, 1, Len(w)), Space)
  <2>. DEFINE n == Len(w)
              none == 0
  <2>1. n \in Nat /\ n \in none .. n /\ none \in 0 .. n /\ none \in none .. n /\ n \in n .. n
    BY <1>1 DEF Text
  <2>2. \A i \in 1 .. n : w[i] \notin {"/", ":", "@", "]"}
    <3>1. DOMAIN w = 1 .. n
      BY <1>1 DEF Text
    <3>. QED  BY <1>1, <3>1 DEF Without, ToSet
  <2>3. Around(w, none, none, n, n)
    <3>1. \A i : i \notin 1 .. 0
      OBVIOUS
    <3>2. \A i : i \notin n + 1 .. n
      BY <2>1
    <3>3. none + 1 = 1
      OBVIOUS
    <3>. QED  BY <2>1, <2>2, <3>1, <3>2, <3>3 DEF Around
  <2>4. OneScheme(w, none, n)
    <3>1. \A i : i \notin n + 1 .. n - 2
      BY <2>1
    <3>. QED  BY <3>1 DEF OneScheme
  <2>5. none + 1 = 1
    OBVIOUS
  <2>6. Clean(w) = Trim(SubSeq(w, none + 1, n), Space)
    <3>. HIDE DEF none, n
    <3>. QED  BY <1>1, <2>3, <2>4, HostCleaned DEF Text
  <2>. QED  BY <2>5, <2>6
<1>6. SubSeq(w, 1, Len(w)) = w
  BY <1>1, WholeText DEF Text
<1>. QED  BY <1>3, <1>4, <1>5, <1>6 DEF s, w

\* Inputs that cleaning makes the same have one name.
LEMMA SameCleanedSameName ==
    ASSUME NEW s, NEW t, Clean(s) = Clean(t)
    PROVE  Parse(s) = Parse(t)
BY DEF Parse, Clean

-----------------------------------------------------------------------------
(* Suggestions *)

\* The inputs of suggest_domains.
LEMMA RequestsTyped ==
    ASSUME NEW req \in Requests
    PROVE  /\ IsRequest(req) /\ req.maxCandidates \in Int /\ req.limit \in Int
           /\ req.includeTaken \in BOOLEAN
BY InputsAssumption DEF IsRequest

\* A hack is a split of its base before a tail that is a TLD asked for.
LEMMA HacksDenoted ==
    ASSUME NEW base \in Seq(Undottable), NEW tlds \in Seq(Canonical),
           \A i \in DOMAIN tlds : tlds[i] # <<>>,
           NEW d, Registered(d)
    PROVE  d \in HackTexts(base, tlds) <=>
              \E n \in 1 .. Len(base) - 1 : /\ d = Split(base, n)
                                            /\ SubSeq(base, n + 1, Len(base)) \in ToSet(tlds)
<1>1. \A t \in ToSet(tlds) : t \in Canonical /\ t # <<>>
  BY DEF ToSet
<1>2. ASSUME d \in HackTexts(base, tlds)
      PROVE  \E n \in 1 .. Len(base) - 1 : /\ d = Split(base, n)
                                           /\ SubSeq(base, n + 1, Len(base)) \in ToSet(tlds)
  <2>1. PICK t \in ToSet(tlds) : Fits(t, base) /\ d = Split(base, Len(base) - Len(t))
    BY <1>2 DEF HackTexts
  <2>2. /\ Len(base) - Len(t) \in 1 .. Len(base) - 1
        /\ SubSeq(base, Len(base) - Len(t) + 1, Len(base)) = t
    BY <1>1, <2>1, HackSplits DEF Fits
  <2>. QED  BY <2>1, <2>2
<1>3. ASSUME NEW n \in 1 .. Len(base) - 1, d = Split(base, n),
             SubSeq(base, n + 1, Len(base)) \in ToSet(tlds)
      PROVE  d \in HackTexts(base, tlds)
  <2>. DEFINE t == SubSeq(base, n + 1, Len(base))
  <2>1. n = Len(base) - Len(t) /\ IsStrictSuffix(t, base)
    BY SplitIsHack
  <2>2. base[n] # "-"
    BY <1>3, SplitHyphen DEF Registered
  <2>. HIDE DEF t
  <2>3. Fits(t, base)
    BY <2>1, <2>2 DEF Fits
  <2>4. t \in ToSet(tlds)
    BY <1>3 DEF t
  <2>. QED  BY <1>3, <2>1, <2>3, <2>4 DEF HackTexts
<1>. QED  BY <1>2, <1>3

Mid(l, j, m) == l \o j \o m

\* The labels a request stands for are those of its bases.
LEMMA LabelsDenoted ==
    ASSUME NEW req, IsRequest(req)
    PROVE  Labels(req) = UNION {LabelsOf(b, req) : b \in ToSet(Bases(req.names))}
<1>. DEFINE bases == ToSet(Bases(req.names))
            prefixes == ToSet(Bases(req.prefixes))
            suffixes == ToSet(Bases(req.suffixes))
            h == req.hyphenate
            joints == {<<>>} \cup IF h THEN {<<"-">>} ELSE {}
            before == {Mid(p, j, b) : p \in prefixes, j \in joints, b \in bases}
            behind == {Mid(b, j, s) : b \in bases, j \in joints, s \in suffixes}
<1>10. Labels(req) = bases \cup before \cup behind
  BY DEF Labels, Mid
<1>1. \A l \in bases \cup prefixes \cup suffixes : l \in Seq(Undottable)
  <2>1. /\ Bases(req.names) \in Seq(Seq(Undottable))
        /\ Bases(req.prefixes) \in Seq(Seq(Undottable))
        /\ Bases(req.suffixes) \in Seq(Seq(Undottable))
    BY BasesTyped DEF IsRequest
  <2>. QED  BY <2>1 DEF ToSet
<1>2. \A b : LabelsOf(b, req) = {b} \cup (UNION {Joints(p, b, h) : p \in prefixes})
                                    \cup (UNION {Joints(b, s, h) : s \in suffixes})
  BY DEF LabelsOf, Prefixed, Suffixed
<1>. HIDE DEF bases, prefixes, suffixes, h
<1>3. \A l, m \in Seq(Undottable) : \A x : x \in Joints(l, m, h) <=> \E j \in joints : x = Mid(l, j, m)
  <2>. TAKE l, m \in Seq(Undottable)
  <2>. TAKE x
  <2>1. l \o <<>> \o m = l \o m
    BY ConcatEmptySeq
  <2>2. CASE h
    BY <2>1, <2>2 DEF Joints, Mid
  <2>3. CASE ~h
    BY <2>1, <2>3 DEF Joints, Mid
  <2>. QED  BY <2>2, <2>3
<1>. HIDE DEF joints
<1>4. \A x : x \in before <=> \E p \in prefixes, j \in joints, b \in bases : x = Mid(p, j, b)
  OBVIOUS
<1>5. \A x : x \in behind <=> \E b \in bases, j \in joints, s \in suffixes : x = Mid(b, j, s)
  OBVIOUS
<1>. HIDE DEF before, behind
<1>8. \A x : x \in before <=> \E b \in bases : \E p \in prefixes : x \in Joints(p, b, h)
  <2>. TAKE x
  <2>1. ASSUME NEW b \in bases, NEW p \in prefixes
        PROVE  x \in Joints(p, b, h) <=> \E j \in joints : x = Mid(p, j, b)
    <3>1. b \in Seq(Undottable) /\ p \in Seq(Undottable)
      BY <1>1
    <3>. QED  BY <1>3, <3>1
  <2>. QED  BY <1>4, <2>1
<1>9. \A x : x \in behind <=> \E b \in bases : \E s \in suffixes : x \in Joints(b, s, h)
  <2>. TAKE x
  <2>1. ASSUME NEW b \in bases, NEW s \in suffixes
        PROVE  x \in Joints(b, s, h) <=> \E j \in joints : x = Mid(b, j, s)
    <3>1. b \in Seq(Undottable) /\ s \in Seq(Undottable)
      BY <1>1
    <3>. QED  BY <1>3, <3>1
  <2>. QED  BY <1>5, <2>1
<1>6. \A x : x \in bases \cup before \cup behind <=> x \in UNION {LabelsOf(b, req) : b \in bases}
  <2>. TAKE x
  <2>1. x \in UNION {LabelsOf(b, req) : b \in bases} <=>
            \E b \in bases : \/ x = b
                             \/ \E p \in prefixes : x \in Joints(p, b, h)
                             \/ \E s \in suffixes : x \in Joints(b, s, h)
    BY <1>2
  <2>. QED  BY <1>8, <1>9, <2>1
<1>7. bases \cup before \cup behind = UNION {LabelsOf(b, req) : b \in bases}
  BY <1>6
<1>. QED  BY <1>7, <1>10 DEF bases

\* A sequence without duplicates is as long as its set is large.
LEMMA DistinctCounted ==
    ASSUME NEW X, NEW s \in Seq(X), \A i, j \in DOMAIN s : s[i] = s[j] => i = j
    PROVE  IsFiniteSet(ToSet(s)) /\ Cardinality(ToSet(s)) = Len(s)
<1>. DEFINE S == 1 .. Len(s)
            T == ToSet(s)
<1>1. Len(s) \in Nat /\ DOMAIN s = S
  OBVIOUS
<1>2. IsFiniteSet(S) /\ Cardinality(S) = Len(s)
  BY <1>1, FS_Interval
<1>3. s \in [S -> T] /\ \A y \in T : \E x \in S : s[x] = y
  BY <1>1 DEF ToSet
<1>. HIDE DEF S, T
<1>4. s \in Surjection(S, T)
  BY <1>3 DEF Surjection
<1>5. s \in Injection(S, T)
  BY <1>1, <1>3 DEF Injection, IsInjective
<1>. QED  BY <1>2, <1>4, <1>5, FS_Surjection DEF T

\* A text is a base split before a tail that is one of some TLDs.
Hacked(d, base, tlds) ==
    \E n \in 1 .. Len(base) - 1 : /\ d = Split(base, n)
                                  /\ SubSeq(base, n + 1, Len(base)) \in tlds

\* The expansion comes to what a request stands for, but for the
\* hacks with a tail in another script.
LEMMA ExpandDenotes ==
    ASSUME NEW req, IsRequest(req)
    PROVE  Domains(Expand(req)) = Denoted(req, AsciiHacksOf(req))
<1>. DEFINE bases == ToSet(Bases(req.names))
            tlds == ToSet(Tlds(req.tlds))
            plain == {Mid(l, Dot, t) : l \in Labels(req), t \in tlds}
            ascii == AsciiHacksOf(req)
            hacks == {Mid(s.label, Dot, s.tail) : s \in ascii}
            texts == Texts(Tries(req))
            D == plain \cup hacks
<1>1. Denoted(req, ascii) = {Parse(d).ascii : d \in {e \in D : Registered(e)}}
  <2>. DEFINE names == {Parse(d) : d \in D}
  <2>1. Denoted(req, ascii) = {n.ascii : n \in {m \in names : m # Invalid /\ Registrable(m)}}
    BY DEF Denoted, Mid
  <2>. HIDE DEF D, ascii
  <2>. QED  BY <2>1 DEF Registered
<1>2. Domains(Expand(req)) = {Parse(d).ascii : d \in {e \in texts : Registered(e)}}
  BY Expanded
<1>3. /\ \A b \in bases : b \in Seq(Undottable)
      /\ Tlds(req.tlds) \in Seq(Canonical)
      /\ \A i \in DOMAIN Tlds(req.tlds) : Tlds(req.tlds)[i] # <<>>
  <2>1. Bases(req.names) \in Seq(Seq(Undottable))
    BY BasesTyped DEF IsRequest
  <2>. QED  BY <2>1, TldsTyped DEF IsRequest, ToSet
<1>4. texts = UNION {TextsFor(b, Tlds(req.tlds), req) : b \in bases}
  BY TriesTexts
<1>5. Labels(req) = UNION {LabelsOf(b, req) : b \in bases}
  BY LabelsDenoted
<1>. HIDE DEF tlds, bases, texts
<1>6. \A d : d \in plain <=> \E l \in Labels(req), t \in tlds : d = Mid(l, Dot, t)
  OBVIOUS
<1>7. \A s : s \in ascii <=>
            req.hacks /\ \E b \in bases : \E n \in 1 .. Len(b) - 1 :
                            /\ s = [label |-> SubSeq(b, 1, n), tail |-> SubSeq(b, n + 1, Len(b))]
                            /\ Convert(s.tail) \in tlds /\ Convert(s.tail) = s.tail
  <2>1. \A s : s \in ascii <=> s \in HacksOf(req) /\ Convert(s.tail) = s.tail
    BY DEF AsciiHacksOf
  <2>2. \A s : s \in HacksOf(req) <=>
            req.hacks /\ (\E b \in bases : s \in Splits(b)) /\ Convert(s.tail) \in tlds
    BY DEF HacksOf, bases, tlds
  <2>3. \A s, b : s \in Splits(b) <=>
            \E n \in 1 .. Len(b) - 1 :
                s = [label |-> SubSeq(b, 1, n), tail |-> SubSeq(b, n + 1, Len(b))]
    BY DEF Splits
  <2>. HIDE DEF ascii
  <2>. QED  BY <2>1, <2>2, <2>3, Zenon
<1>8. \A t : t \in tlds => Convert(t) = t
  BY <1>3, CanonicalConverted DEF tlds, ToSet
<1>. HIDE DEF ascii
<1>9. \A d : d \in hacks <=> req.hacks /\ \E b \in bases : Hacked(d, b, tlds)
  <2>1. \A b : \A n \in 1 .. Len(b) - 1 :
            LET s == [label |-> SubSeq(b, 1, n), tail |-> SubSeq(b, n + 1, Len(b))]
            IN  Mid(s.label, Dot, s.tail) = Split(b, n)
    BY DEF Mid, Split
  <2>2. \A d : d \in hacks <=> \E s \in ascii : d = Mid(s.label, Dot, s.tail)
    OBVIOUS
  <2>. HIDE DEF hacks
  <2>3. ASSUME NEW d, d \in hacks PROVE req.hacks /\ \E b \in bases : Hacked(d, b, tlds)
    <3>1. PICK s \in ascii : d = Mid(s.label, Dot, s.tail)
      BY <2>2, <2>3
    <3>2. PICK b \in bases : \E n \in 1 .. Len(b) - 1 :
                /\ s = [label |-> SubSeq(b, 1, n), tail |-> SubSeq(b, n + 1, Len(b))]
                /\ Convert(s.tail) \in tlds /\ Convert(s.tail) = s.tail
      BY <1>7
    <3>3. PICK n \in 1 .. Len(b) - 1 :
                /\ s = [label |-> SubSeq(b, 1, n), tail |-> SubSeq(b, n + 1, Len(b))]
                /\ Convert(s.tail) \in tlds /\ Convert(s.tail) = s.tail
      BY <3>2
    <3>4. d = Split(b, n) /\ SubSeq(b, n + 1, Len(b)) \in tlds
      BY <2>1, <3>1, <3>3
    <3>. QED  BY <1>7, <3>4 DEF Hacked
  <2>4. ASSUME NEW d, req.hacks, NEW b \in bases, Hacked(d, b, tlds) PROVE d \in hacks
    <3>1. PICK n \in 1 .. Len(b) - 1 : d = Split(b, n) /\ SubSeq(b, n + 1, Len(b)) \in tlds
      BY <2>4 DEF Hacked
    <3>. DEFINE s == [label |-> SubSeq(b, 1, n), tail |-> SubSeq(b, n + 1, Len(b))]
    <3>2. d = Mid(s.label, Dot, s.tail)
      BY <2>1, <3>1
    <3>3. Convert(s.tail) \in tlds /\ Convert(s.tail) = s.tail
      BY <1>8, <3>1
    <3>4. s \in ascii
      BY <1>7, <2>4, <3>3
    <3>. QED  BY <2>2, <3>2, <3>4
  <2>. QED  BY <2>3, <2>4
<1>. HIDE DEF plain, hacks
<1>10. ASSUME NEW d, NEW b \in bases, Registered(d)
      PROVE  d \in TextsFor(b, Tlds(req.tlds), req) <=>
                \/ \E l \in LabelsOf(b, req), t \in tlds : d = Mid(l, Dot, t)
                \/ req.hacks /\ Hacked(d, b, tlds)
  <2>1. d \in TextsFor(b, Tlds(req.tlds), req) <=>
            \/ \E t \in tlds : d \in Under(LabelsOf(b, req), t)
            \/ req.hacks /\ d \in HackTexts(b, Tlds(req.tlds))
    BY DEF TextsFor, tlds
  <2>2. \A t : d \in Under(LabelsOf(b, req), t) <=> \E l \in LabelsOf(b, req) : d = Mid(l, Dot, t)
    BY DEF Under, Mid
  <2>3. d \in HackTexts(b, Tlds(req.tlds)) <=> Hacked(d, b, tlds)
    BY <1>3, <1>10, HacksDenoted DEF tlds, Hacked
  <2>. QED  BY <2>1, <2>2, <2>3
<1>11. ASSUME NEW d, Registered(d) PROVE d \in D <=> d \in texts
  <2>1. d \in texts <=> \E b \in bases : d \in TextsFor(b, Tlds(req.tlds), req)
    BY <1>4
  <2>2. d \in plain <=> \E b \in bases : \E l \in LabelsOf(b, req), t \in tlds : d = Mid(l, Dot, t)
    <3>1. \A l : l \in Labels(req) <=> \E b \in bases : l \in LabelsOf(b, req)
      BY <1>5
    <3>. QED  BY <1>6, <3>1
  <2>3. d \in hacks <=> \E b \in bases : req.hacks /\ Hacked(d, b, tlds)
    BY <1>9
  <2>. QED  BY <1>10, <1>11, <2>1, <2>2, <2>3
<1>. HIDE DEF D
<1>12. {e \in D : Registered(e)} = {e \in texts : Registered(e)}
  BY <1>11
<1>. QED  BY <1>1, <1>2, <1>12 DEF ascii

\* The candidates that are checked.
Cut(in) ==
    IF in.names = <<>> \/ in.tlds = <<>> THEN <<>>
    ELSE SubSeq(Expand(in), 1, Smaller(Len(Expand(in)), Cap(in)))

\* No cap is above MaxSuggestCandidates.
LEMMA CapTyped ==
    ASSUME NEW in, in.maxCandidates \in Int
    PROVE  Cap(in) \in Nat \ {0} /\ Cap(in) <= MaxSuggestCandidates
BY ToolsAssumption DEF Cap, Smaller

\* The cut leaves the first candidates, and truncation is told from the cap.
LEMMA CutTyped ==
    ASSUME NEW in \in Requests
    PROVE  /\ Expand(in) \in Seq(CandidateType) /\ Len(Expand(in)) \in Nat
           /\ Cut(in) \in Seq(CandidateType) /\ Len(Cut(in)) \in Nat
           /\ Len(Cut(in)) <= MaxSuggestCandidates
           /\ Apart(Cut(in))
           /\ Domains(Cut(in)) \subseteq Domains(Expand(in))
           /\ ~(in.names = <<>> \/ in.tlds = <<>>) =>
                (Len(Expand(in)) > Cap(in) <=> Len(Cut(in)) < Len(Expand(in)))
<1>. DEFINE all == Expand(in)
            n == Smaller(Len(all), Cap(in))
            cut == SubSeq(all, 1, n)
            cap == Cap(in)
<1>1. all \in Seq(CandidateType) /\ Apart(all)
  BY RequestsTyped, Expanded
<1>2. cap \in Nat \ {0} /\ cap <= MaxSuggestCandidates /\ MaxSuggestCandidates \in Nat
  BY RequestsTyped, CapTyped, ToolsAssumption
<1>3. Cut(in) = IF in.names = <<>> \/ in.tlds = <<>> THEN <<>> ELSE cut
  BY DEF Cut
<1>4. n = IF Len(all) < cap THEN Len(all) ELSE cap
  BY DEF Smaller
<1>. HIDE DEF all, n, cap
<1>5. /\ Len(all) \in Nat /\ n \in 0 .. Len(all) /\ n <= MaxSuggestCandidates
      /\ Len(all) > cap <=> n < Len(all)
  BY <1>1, <1>2, <1>4
<1>6. cut \in Seq(CandidateType) /\ Len(cut) = n /\ \A i \in 1 .. n : cut[i] = all[i]
  BY <1>1, <1>5, BeforeTyped
<1>. HIDE DEF cut
<1>7. DOMAIN cut = 1 .. n /\ DOMAIN all = 1 .. Len(all) /\ \A i \in 1 .. n : i \in 1 .. Len(all)
  BY <1>1, <1>5, <1>6
<1>8. Apart(cut) /\ Domains(cut) \subseteq Domains(all)
  BY <1>1, <1>6, <1>7 DEF Apart, Domains
<1>9. <<>> \in Seq(CandidateType) /\ Len(<<>>) = 0 /\ Apart(<<>>) /\ Domains(<<>>) = {}
  BY DEF Apart, Domains
<1>10. CASE in.names = <<>> \/ in.tlds = <<>>
  BY <1>1, <1>2, <1>3, <1>5, <1>9, <1>10 DEF all
<1>11. CASE ~(in.names = <<>> \/ in.tlds = <<>>)
  BY <1>1, <1>2, <1>3, <1>5, <1>6, <1>8, <1>11 DEF all, cap
<1>. QED  BY <1>10, <1>11

-----------------------------------------------------------------------------
(* The invariant *)

Refused(in) == in.names = <<>> \/ in.tlds = <<>>

\* What each tool has asked of the engine, and when it has refused its input.
Calls ==
    /\ tool \in {"none", "check_domain", "check_domains", "suggest_domains"}
    /\ tool = "none" => request = None /\ domains = <<>> /\ output = None
    /\ tool = "check_domain" =>
          /\ request \in Pastes
          /\ domains = IF Spell(request) = <<>> THEN <<>> ELSE <<Spell(request)>>
    /\ tool = "check_domains" =>
          /\ request \in Batches
          /\ domains = IF Len(request.domains) > MaxBatchSize THEN <<>> ELSE request.domains
          /\ domains = <<>> => output = Error
    /\ tool = "suggest_domains" =>
          /\ request \in Requests
          /\ candidates = Cut(request)
          /\ domains = [i \in DOMAIN candidates |-> candidates[i].domain]
          /\ Refused(request) => output = Error
          /\ ~Refused(request) => generated = Len(Expand(request))

Suggesting ==
    /\ tool # "suggest_domains" => candidates = <<>> /\ generated = 0
    /\ generated \in Nat

\* What has been answered is about the domain of its slot.
Answers ==
    /\ answers = [i \in DOMAIN domains |-> answers[i]]
    /\ \A i \in DOMAIN domains : answers[i] # None =>
          answers[i].domain = domains[i] /\ answers[i].availability \in Availability

Outcome ==
    CASE tool = "check_domain" -> answers[1]
      [] tool = "check_domains" -> Batch(request)
      [] tool = "suggest_domains" -> Suggestion(request)

\* A tool returns what it makes of all of the answers.
Returned ==
    output \notin {None, Error} =>
        output = Outcome /\ \A i \in DOMAIN domains : answers[i] # None

ToolsInv == Calls /\ Suggesting /\ Answers /\ Returned

\* An open call has not failed.
LEMMA NoneIsNoError == None # Error
<1>1. DOMAIN None = {"none"} /\ DOMAIN Error = {"error"}
  BY DEF None, Error
<1>. QED  BY <1>1

\* The invariant holds at first.
LEMMA InitInv == Init => ToolsInv
BY DEF Init, ToolsInv, Calls, Suggesting, Answers, Returned

\* check_domain establishes it for what it asks.
LEMMA CheckDomainInv ==
    ASSUME ToolsInv, NEW p \in Pastes, CheckDomain(p) PROVE ToolsInv'
<1>1. tool = "none" /\ candidates = <<>> /\ generated = 0
  BY DEF CheckDomain, Engage, ToolsInv, Suggesting
<1>2. /\ tool' = "check_domain" /\ request' = p /\ candidates' = <<>> /\ generated' = 0
      /\ domains' = IF Spell(p) = <<>> THEN <<>> ELSE <<Spell(p)>>
      /\ answers' = [i \in DOMAIN domains' |-> None]
      /\ output' \in {None, Error}
  BY <1>1 DEF CheckDomain, Engage
<1>3. Calls'
  BY <1>2 DEF Calls
<1>4. Suggesting'
  BY <1>2 DEF Suggesting
<1>5. Answers'
  BY <1>2 DEF Answers
<1>6. Returned'
  BY <1>2 DEF Returned
<1>. QED  BY <1>3, <1>4, <1>5, <1>6 DEF ToolsInv

\* check_domains establishes it, and refuses what it asks nothing for.
LEMMA CheckDomainsInv ==
    ASSUME ToolsInv, NEW in \in Batches, CheckDomains(in) PROVE ToolsInv'
<1>1. tool = "none" /\ candidates = <<>> /\ generated = 0
  BY DEF CheckDomains, Engage, ToolsInv, Suggesting
<1>2. /\ tool' = "check_domains" /\ request' = in /\ candidates' = <<>> /\ generated' = 0
      /\ domains' = IF Len(in.domains) > MaxBatchSize THEN <<>> ELSE in.domains
      /\ answers' = [i \in DOMAIN domains' |-> None]
      /\ output' \in {None, Error}
      /\ domains' = <<>> => output' = Error
  BY <1>1 DEF CheckDomains, Engage
<1>3. Calls'
  BY <1>2 DEF Calls
<1>4. Suggesting'
  BY <1>2 DEF Suggesting
<1>5. Answers'
  BY <1>2 DEF Answers
<1>6. Returned'
  BY <1>2 DEF Returned
<1>. QED  BY <1>3, <1>4, <1>5, <1>6 DEF ToolsInv

\* suggest_domains establishes it with the candidates it has cut.
LEMMA SuggestDomainsInv ==
    ASSUME ToolsInv, NEW in \in Requests, SuggestDomains(in) PROVE ToolsInv'
<1>. DEFINE all == IF Refused(in) THEN <<>> ELSE Expand(in)
<1>1. /\ tool' = "suggest_domains" /\ request' = in /\ generated' = Len(all)
      /\ candidates' = SubSeq(all, 1, Smaller(Len(all), Cap(in)))
      /\ domains' = [i \in DOMAIN candidates' |-> candidates'[i].domain]
      /\ answers' = [i \in DOMAIN candidates' |-> None]
      /\ output' = IF Refused(in) THEN Error ELSE None
  BY DEF SuggestDomains, Refused
<1>2. /\ tool' = "suggest_domains" /\ request' = in /\ candidates' = Cut(in)
      /\ generated' = IF Refused(in) THEN 0 ELSE Len(Expand(in))
      /\ domains' = [i \in DOMAIN Cut(in) |-> Cut(in)[i].domain]
      /\ answers' = [i \in DOMAIN Cut(in) |-> None]
      /\ output' = IF Refused(in) THEN Error ELSE None
  <2>1. CASE Refused(in)
    <3>1. Len(<<>>) = 0 /\ Smaller(0, Cap(in)) = 0 /\ SubSeq(<<>>, 1, 0) = <<>>
      BY RequestsTyped, CapTyped DEF Smaller
    <3>2. all = <<>> /\ Cut(in) = <<>>
      BY <2>1 DEF Cut, Refused
    <3>. QED  BY <1>1, <2>1, <3>1, <3>2
  <2>2. CASE ~Refused(in)
    <3>1. all = Expand(in) /\ Cut(in) = SubSeq(all, 1, Smaller(Len(all), Cap(in)))
      BY <2>2 DEF Cut, Refused
    <3>. HIDE DEF all
    <3>. QED  BY <1>1, <2>2, <3>1
  <2>. QED  BY <2>1, <2>2
<1>3. Calls'
  BY <1>2 DEF Calls
<1>4. Suggesting'
  BY <1>2, CutTyped DEF Suggesting
<1>5. Answers'
  BY <1>2 DEF Answers
<1>6. Returned'
  BY <1>2 DEF Returned
<1>. QED  BY <1>3, <1>4, <1>5, <1>6 DEF ToolsInv

\* An answer goes to the slot of its domain.
LEMMA AnswerInv ==
    ASSUME ToolsInv, NEW i \in DOMAIN domains, NEW availability \in Availability,
           Answer(i, availability)
    PROVE  ToolsInv'
<1>1. /\ output = None /\ tool' = tool /\ request' = request /\ candidates' = candidates
      /\ generated' = generated /\ domains' = domains /\ output' = output
      /\ answers' = [answers EXCEPT ![i] = [domain |-> domains[i], availability |-> availability]]
  BY DEF Answer
<1>2. Calls'
  BY <1>1 DEF Calls, ToolsInv
<1>3. Suggesting'
  BY <1>1 DEF Suggesting, ToolsInv
<1>4. Answers'
  <2>1. DOMAIN answers = DOMAIN domains
    BY DEF ToolsInv, Answers
  <2>2. answers'[i] = [domain |-> domains[i], availability |-> availability]
    BY <1>1, <2>1
  <2>3. \A j \in DOMAIN domains : j # i => answers'[j] = answers[j]
    BY <1>1, <2>1
  <2>4. answers' = [j \in DOMAIN domains |-> answers'[j]]
    BY <1>1, <2>1
  <2>. QED  BY <1>1, <2>2, <2>3, <2>4 DEF ToolsInv, Answers
<1>5. Returned'
  BY <1>1 DEF Returned
<1>. QED  BY <1>2, <1>3, <1>4, <1>5 DEF ToolsInv

\* A tool returns what comes of all of its answers.
LEMMA ReturnInv ==
    ASSUME ToolsInv, Return PROVE ToolsInv'
<1>1. /\ output = None /\ tool # "none" /\ tool' = tool /\ request' = request /\ candidates' = candidates
      /\ generated' = generated /\ domains' = domains /\ answers' = answers
      /\ output' = Outcome
      /\ \A i \in DOMAIN answers : answers[i] # None
  BY DEF Return, Outcome
<1>2. Calls'
  BY <1>1, NoneIsNoError DEF Calls, ToolsInv
<1>3. Suggesting'
  BY <1>1 DEF Suggesting, ToolsInv
<1>4. Answers'
  BY <1>1 DEF Answers, ToolsInv
<1>5. Returned'
  <2>1. DOMAIN answers = DOMAIN domains
    BY DEF ToolsInv, Answers
  <2>2. Outcome' = Outcome
    BY <1>1 DEF Outcome, Batch, Suggestion, Tally
  <2>. QED  BY <1>1, <2>1, <2>2 DEF Returned
<1>. QED  BY <1>2, <1>3, <1>4, <1>5 DEF ToolsInv

\* The next call starts from nothing.
LEMMA ResetInv ==
    ASSUME ToolsInv, Reset PROVE ToolsInv'
BY DEF Reset, ToolsInv, Calls, Suggesting, Answers, Returned

\* What the tools have asked, been answered and returned belongs together, in
\* whatever order the answers came.
THEOREM ToolsInvariant == Spec => []ToolsInv
<1>1. Init => ToolsInv
  BY InitInv
<1>2. ToolsInv /\ [Next]_vars => ToolsInv'
  <2>. SUFFICES ASSUME ToolsInv, [Next]_vars PROVE ToolsInv'
    OBVIOUS
  <2>1. ASSUME NEW p \in Pastes, CheckDomain(p) PROVE ToolsInv'
    BY <2>1, CheckDomainInv
  <2>2. ASSUME NEW in \in Batches, CheckDomains(in) PROVE ToolsInv'
    BY <2>2, CheckDomainsInv
  <2>3. ASSUME NEW in \in Requests, SuggestDomains(in) PROVE ToolsInv'
    BY <2>3, SuggestDomainsInv
  <2>4. ASSUME NEW i \in DOMAIN domains, NEW availability \in Availability, Answer(i, availability)
        PROVE  ToolsInv'
    BY <2>4, AnswerInv
  <2>5. CASE Return
    BY <2>5, ReturnInv
  <2>6. CASE Reset
    BY <2>6, ResetInv
  <2>7. CASE UNCHANGED vars
    BY <2>7 DEF vars, ToolsInv, Calls, Suggesting, Answers, Returned, Outcome, Batch, Suggestion, Tally
  <2>. QED  BY <2>1, <2>2, <2>3, <2>4, <2>5, <2>6, <2>7 DEF Next
<1>. QED  BY <1>1, <1>2, PTL DEF Spec


\* The type invariant; the engine is never asked for more than a tool allows.
THEOREM TypesOK == Spec => []TypeOK
<1>1. ASSUME ToolsInv PROVE TypeOK
  <2>1. DOMAIN answers = DOMAIN domains /\ generated \in Nat
        /\ tool \in {"none", "check_domain", "check_domains", "suggest_domains"}
        /\ \A i \in DOMAIN answers : answers[i] # None =>
              answers[i].domain = domains[i] /\ answers[i].availability \in Availability
    BY <1>1 DEF ToolsInv, Calls, Suggesting, Answers
  <2>2. request \in {None} \cup Pastes \cup Batches \cup Requests
    BY <1>1 DEF ToolsInv, Calls
  <2>3. Len(domains) <= IF tool = "suggest_domains" THEN MaxSuggestCandidates ELSE MaxBatchSize
    <3>1. MaxBatchSize \in Nat \ {0} /\ MaxSuggestCandidates \in Nat \ {0}
      BY ToolsAssumption
    <3>2. CASE tool = "none"
      <4>1. domains = <<>>
        BY <1>1, <3>2 DEF ToolsInv, Calls
      <4>. QED  BY <3>1, <3>2, <4>1
    <3>3. CASE tool = "check_domain"
      <4>1. domains = <<>> \/ domains = <<Spell(request)>>
        BY <1>1, <3>3 DEF ToolsInv, Calls
      <4>2. Len(domains) \in {0, 1}
        BY <4>1
      <4>. QED  BY <3>1, <3>3, <4>2
    <3>4. CASE tool = "check_domains"
      <4>1. \/ domains = <<>>
            \/ domains = request.domains /\ ~(Len(request.domains) > MaxBatchSize)
        BY <1>1, <3>4 DEF ToolsInv, Calls
      <4>2. Len(request.domains) \in Nat
        BY <1>1, <3>4, InputsAssumption DEF ToolsInv, Calls
      <4>. QED  BY <3>1, <3>4, <4>1, <4>2
    <3>5. CASE tool = "suggest_domains"
      <4>1. request \in Requests /\ domains = [i \in DOMAIN Cut(request) |-> Cut(request)[i].domain]
        BY <1>1, <3>5 DEF ToolsInv, Calls
      <4>2. Len(domains) = Len(Cut(request)) /\ Len(Cut(request)) <= MaxSuggestCandidates
        BY <4>1, CutTyped
      <4>. QED  BY <3>5, <4>2
    <3>. QED  BY <2>1, <3>2, <3>3, <3>4, <3>5
  <2>. QED  BY <2>1, <2>2, <2>3 DEF TypeOK
<1>. QED  BY <1>1, ToolsInvariant, PTL

\* A pasted URL, mail address or host with a port stands for its host, whatever
\* the parts of the paste, if it begins with its scheme or has no other URL in
\* its path or query.
THEOREM PastesMeanTheirHost == Spec => []URLsStandForTheirHost
<1>1. ASSUME ToolsInv PROVE URLsStandForTheirHost
  <2>1. SUFFICES ASSUME tool = "check_domain",
                        SchemeMark \in SubSeqs(request.scheme) \/ SchemeMark \notin SubSeqs(request.tail)
                 PROVE  Parse(Spell(request)) = Parse(request.host)
    BY DEF URLsStandForTheirHost
  <2>2. request \in Pastes
    BY <1>1, <2>1 DEF ToolsInv, Calls
  <2>3. Clean(Spell(request)) = Clean(request.host)
    BY <2>1, <2>2, PasteCleaned
  <2>. QED  BY <2>3, SameCleanedSameName
<1>. QED  BY <1>1, ToolsInvariant, PTL

\* Every name that is parsed, of whatever text, is canonical.
THEOREM EveryNameIsCanonical == Spec => []NamesAreCanonical
<1>1. ASSUME ToolsInv, NEW i \in DOMAIN domains PROVE domains[i] \in Text
  <2>1. CASE tool = "none"
    <3>1. domains = <<>>
      BY <1>1, <2>1 DEF ToolsInv, Calls
    <3>. QED  BY <1>1, <3>1
  <2>2. CASE tool = "check_domain"
    <3>1. request \in Pastes /\ (domains = <<>> \/ domains = <<Spell(request)>>)
      BY <1>1, <2>2 DEF ToolsInv, Calls
    <3>2. Spell(request) \in Text
      BY <3>1, Spelled
    <3>. QED  BY <1>1, <3>1, <3>2
  <2>3. CASE tool = "check_domains"
    <3>1. request \in Batches /\ (domains = <<>> \/ domains = request.domains)
      BY <1>1, <2>3 DEF ToolsInv, Calls
    <3>2. request.domains \in Seq(Text)
      BY <3>1, InputsAssumption
    <3>. QED  BY <1>1, <3>1, <3>2
  <2>4. CASE tool = "suggest_domains"
    <3>1. request \in Requests /\ domains = [j \in DOMAIN Cut(request) |-> Cut(request)[j].domain]
      BY <1>1, <2>4 DEF ToolsInv, Calls
    <3>2. Cut(request)[i] \in CandidateType
      BY <1>1, <3>1, CutTyped
    <3>3. domains[i] \in Canonical
      BY <1>1, <3>1, <3>2 DEF CandidateType
    <3>. QED  BY <3>3, CanonicalTyped
  <2>. QED  BY <1>1, <2>1, <2>2, <2>3, <2>4 DEF ToolsInv, Calls
<1>2. ASSUME ToolsInv PROVE NamesAreCanonical
  <2>. SUFFICES ASSUME NEW i \in DOMAIN domains, Parse(domains[i]) # Invalid
                PROVE  LET name == Parse(domains[i])
                       IN  /\ Parse(name.ascii) = name
                           /\ IsSuffix(name.sld \o Dot \o name.suffix, name.ascii)
                           /\ IsSuffix(name.tld, name.suffix)
    BY DEF NamesAreCanonical
  <2>1. domains[i] \in Text
    BY <1>1, <1>2
  <2>. QED  BY <2>1, NameIsCanonical
<1>. QED  BY <1>2, ToolsInvariant, PTL

\* suggest_domains checks every domain a request stands for once, whatever its
\* names, affixes, hacks and TLDs, and says so if it had to leave some out; only
\* the hacks with a tail in another script may be missing.
THEOREM CandidatesAreTheDenoted == Spec => []EveryCandidateOnce
<1>1. ASSUME ToolsInv, tool = "suggest_domains", output # Error
      PROVE  /\ Cardinality(ToSet(domains)) = Len(domains)
             /\ \E hacks \in SUBSET HacksOf(request) :
                   /\ AsciiHacksOf(request) \subseteq hacks
                   /\ ToSet(domains) \subseteq Denoted(request, hacks)
                   /\ generated = Cardinality(Denoted(request, hacks))
             /\ Answered => /\ output.truncated <=> output.checked < output.generated
                            /\ output.checked = Len(domains)
  <2>. DEFINE all == Expand(request)
              cut == Cut(request)
              named(s) == [i \in DOMAIN s |-> s[i].domain]
  <2>1. /\ request \in Requests /\ candidates = cut /\ domains = named(cut)
        /\ ~Refused(request) /\ generated = Len(all)
    BY <1>1 DEF ToolsInv, Calls
  <2>2. IsRequest(request) /\ Apart(all)
    BY <2>1, RequestsTyped, Expanded
  <2>3. /\ all \in Seq(CandidateType) /\ Len(all) \in Nat
        /\ cut \in Seq(CandidateType) /\ Len(cut) \in Nat
        /\ Apart(cut) /\ Domains(cut) \subseteq Domains(all)
        /\ generated > Cap(request) <=> Len(cut) < Len(all)
    BY <2>1, CutTyped DEF Refused
  <2>4. Domains(all) = Denoted(request, AsciiHacksOf(request))
    BY <2>2, ExpandDenotes
  <2>. HIDE DEF all, cut
  <2>5. ASSUME NEW s \in Seq(CandidateType), Apart(s)
        PROVE  /\ named(s) \in Seq(Canonical) /\ Len(named(s)) = Len(s)
               /\ ToSet(named(s)) = Domains(s)
               /\ Cardinality(Domains(s)) = Len(s)
    <3>. DEFINE d == named(s)
    <3>1. d \in Seq(Canonical) /\ Len(d) = Len(s) /\ DOMAIN d = DOMAIN s
      <4>1. ASSUME NEW i \in DOMAIN s PROVE s[i].domain \in Canonical
        <5>1. s[i] \in CandidateType
          OBVIOUS
        <5>. QED  BY <5>1 DEF CandidateType
      <4>2. DOMAIN s = 1 .. Len(s) /\ Len(s) \in Nat
        OBVIOUS
      <4>. QED  BY <4>1, <4>2
    <3>2. \A i, j \in DOMAIN d : d[i] = d[j] => i = j
      BY <2>5 DEF Apart
    <3>3. ToSet(d) = Domains(s)
      BY DEF ToSet, Domains
    <3>. HIDE DEF d
    <3>4. Cardinality(ToSet(d)) = Len(d)
      BY <3>1, <3>2, DistinctCounted
    <3>. QED  BY <3>1, <3>3, <3>4 DEF d
  <2>. HIDE DEF named
  <2>6. /\ Len(domains) = Len(cut) /\ ToSet(domains) = Domains(cut)
        /\ Cardinality(Domains(cut)) = Len(cut) /\ Cardinality(Domains(all)) = Len(all)
    BY <2>1, <2>2, <2>3, <2>5
  <2>7. ASSUME Answered
        PROVE  /\ output.truncated <=> output.checked < output.generated
               /\ output.checked = Len(domains)
    <3>1. output = Suggestion(request)
      BY <1>1, <2>7 DEF ToolsInv, Returned, Answered, Outcome
    <3>2. output.checked = Len(candidates) /\ output.generated = generated
          /\ output.truncated = (generated > Cap(request))
      BY <3>1 DEF Suggestion
    <3>. QED  BY <2>1, <2>3, <2>6, <3>2
  <2>8. AsciiHacksOf(request) \subseteq HacksOf(request)
    BY DEF AsciiHacksOf
  <2>9. \E hacks \in SUBSET HacksOf(request) :
            /\ AsciiHacksOf(request) \subseteq hacks
            /\ ToSet(domains) \subseteq Denoted(request, hacks)
            /\ generated = Cardinality(Denoted(request, hacks))
    BY <2>1, <2>3, <2>4, <2>6, <2>8
  <2>. QED  BY <2>1, <2>6, <2>7, <2>9
<1>2. ToolsInv => EveryCandidateOnce
  BY <1>1 DEF EveryCandidateOnce
<1>. QED  BY <1>2, ToolsInvariant, PTL


\* A finite set of three disjoint kinds is counted kind by kind.
LEMMA ThreeKinds ==
    ASSUME NEW D, IsFiniteSet(D), NEW A, NEW U, NEW V, A \cup U \cup V = D,
           A \cap U = {}, A \cap V = {}, U \cap V = {}
    PROVE  /\ Cardinality(A) \in Nat /\ Cardinality(U) \in Nat /\ Cardinality(V) \in Nat
           /\ Cardinality(D) = Cardinality(A) + Cardinality(U) + Cardinality(V)
<1>1. IsFiniteSet(A) /\ IsFiniteSet(U) /\ IsFiniteSet(V) /\ IsFiniteSet(A \cup U)
  BY FS_Subset
<1>2. Cardinality(A) \in Nat /\ Cardinality(U) \in Nat /\ Cardinality(V) \in Nat
  BY <1>1, FS_CardinalityType
<1>3. Cardinality({}) = 0
  BY FS_EmptySet
<1>4. Cardinality(A \cup U) = Cardinality(A) + Cardinality(U) - Cardinality(A \cap U)
  BY <1>1, FS_Union
<1>. DEFINE B == A \cup U
<1>5. B \cap V = {} /\ B \cup V = D /\ IsFiniteSet(B)
  BY <1>1
<1>8. Cardinality(A \cap U) = 0
  BY <1>3, Zenon
<1>6. Cardinality(B) = Cardinality(A) + Cardinality(U)
  <2>. DEFINE I == A \cap U
  <2>1. Cardinality(I) = 0 /\ Cardinality(B) = Cardinality(A) + Cardinality(U) - Cardinality(I)
    BY <1>4, <1>8
  <2>. HIDE DEF I, B
  <2>. QED  BY <1>2, <2>1
<1>. HIDE DEF B
<1>7. Cardinality(B \cup V) = Cardinality(B) + Cardinality(V) - Cardinality(B \cap V)
  BY <1>1, <1>5, FS_Union
<1>9. Cardinality(B \cap V) = 0 /\ Cardinality(B \cup V) = Cardinality(D)
  BY <1>3, <1>5, Zenon
<1>. QED  BY <1>2, <1>6, <1>7, <1>9

\* check_domains: the summary counts every domain of a batch once, and agrees
\* with the results, which are in the order of the batch.
THEOREM TheSummaryAddsUp == Spec => []SummaryAddsUp
<1>1. ASSUME ToolsInv, Answered, tool = "check_domains"
      PROVE  /\ output.total = Len(request.domains)
             /\ output.total = output.available + output.unavailable + output.unknown
             /\ Len(output.results) = IF request.onlyAvailable THEN output.available ELSE output.total
             /\ \E at \in [DOMAIN output.results -> DOMAIN request.domains] :
                   /\ \A j, k \in DOMAIN at : j < k => at[j] < at[k]
                   /\ \A j \in DOMAIN at : output.results[j].domain = request.domains[at[j]]
  <2>. DEFINE only == request.onlyAvailable
              D == DOMAIN answers
              W == Wanted(answers, only)
              kind(a) == {i \in D : answers[i].availability = a}
              results == Kept(answers, W)
              at == InOrder(W, Increasing(W))
              N == Len(answers)
  <2>1. request \in Batches /\ domains = request.domains /\ output = Batch(request)
    BY <1>1 DEF ToolsInv, Calls, Returned, Answered, Outcome
  <2>2. request.domains \in Seq(Text) /\ only \in BOOLEAN
    BY <2>1, InputsAssumption
  <2>3. /\ D = DOMAIN request.domains /\ answers = [i \in D |-> answers[i]]
        /\ \A i \in D : /\ answers[i].domain = request.domains[i]
                        /\ answers[i].availability \in {"available", "unavailable", "unknown"}
    BY <1>1, <2>1 DEF ToolsInv, Answers, Returned, Answered, Availability
  <2>4. /\ D = 1 .. Len(request.domains) /\ Len(request.domains) \in Nat
    BY <2>2, <2>3
  <2>5. N = Len(request.domains) /\ N \in Nat /\ D = 1 .. N /\ answers \in Seq({answers[i] : i \in D})
    BY <2>3, <2>4
  <2>6. /\ output.results = results /\ output.total = N
        /\ output.available = Cardinality(kind("available"))
        /\ output.unavailable = Cardinality(kind("unavailable"))
        /\ output.unknown = Cardinality(kind("unknown"))
    BY <2>1 DEF Batch, Tally
  <2>7. IsFiniteSet(D) /\ Cardinality(D) = N
    BY <2>5, FS_Interval
  <2>8. /\ Cardinality(kind("available")) \in Nat /\ Cardinality(kind("unavailable")) \in Nat
        /\ Cardinality(kind("unknown")) \in Nat
        /\ Cardinality(D) = Cardinality(kind("available")) + Cardinality(kind("unavailable"))
                            + Cardinality(kind("unknown"))
    <3>. DEFINE A == kind("available")
                U == kind("unavailable")
                V == kind("unknown")
    <3>1. A \cup U \cup V = D /\ A \cap U = {} /\ A \cap V = {} /\ U \cap V = {}
      BY <2>3
    <3>. HIDE DEF A, U, V, D
    <3>2. /\ Cardinality(A) \in Nat /\ Cardinality(U) \in Nat /\ Cardinality(V) \in Nat
          /\ Cardinality(D) = Cardinality(A) + Cardinality(U) + Cardinality(V)
      BY <2>7, <3>1, ThreeKinds
    <3>. QED  BY <3>2 DEF A, U, V
  <2>9. W = IF only THEN kind("available") ELSE D
    BY <2>2 DEF Wanted
  <2>10. W \subseteq D
    BY <2>9
  <2>11. /\ Cardinality(W) \in Nat /\ at \in [1 .. Cardinality(W) -> W]
         /\ \A j, k \in 1 .. Cardinality(W) : j < k => at[j] < at[k]
    <3>. HIDE DEF W
    <3>. QED  BY <2>5, <2>10, Indices
  <2>12. results = [k \in DOMAIN at |-> answers[at[k]]]
    BY DEF Kept
  <2>. HIDE DEF W, at, results, D, kind, N
  <2>13. DOMAIN at = 1 .. Cardinality(W) /\ DOMAIN results = DOMAIN at /\ Len(results) = Cardinality(W)
    BY <2>11, <2>12
  <2>14. Len(results) = IF only THEN Cardinality(kind("available")) ELSE N
    BY <2>7, <2>9, <2>13
  <2>15. \A j \in DOMAIN at : at[j] \in D /\ results[j].domain = request.domains[at[j]]
    BY <2>3, <2>10, <2>11, <2>12, <2>13
  <2>16. at \in [DOMAIN results -> DOMAIN request.domains]
    BY <2>3, <2>11, <2>13, <2>15
  <2>. QED  BY <2>5, <2>6, <2>7, <2>8, <2>11, <2>13, <2>14, <2>15, <2>16
<1>2. ToolsInv => SummaryAddsUp
  BY <1>1 DEF SummaryAddsUp
<1>. QED  BY <1>2, ToolsInvariant, PTL

\* The numbers that Less compares first are those that the documentation ranks by.
LEMMA RankedByDocumentation ==
    ASSUME NEW c \in CandidateType, NEW d \in CandidateType, Less(c, d)
    PROVE  ~RanksBefore(d, c)
<1>. DEFINE s == Ranking(c)
            t == Ranking(d)
<1>1. /\ s[1] = c.tldRank /\ s[2] = Plainness(c) /\ s[3] = Hyphens(c) /\ s[4] = Len(c.domain)
      /\ t[1] = d.tldRank /\ t[2] = Plainness(d) /\ t[3] = Hyphens(d) /\ t[4] = Len(d.domain)
  BY DEF Ranking, Plainness, Hyphens
<1>2. s[1] \in Nat /\ s[2] \in Nat /\ s[3] \in Nat /\ s[4] \in Nat
      /\ t[1] \in Nat /\ t[2] \in Nat /\ t[3] \in Nat /\ t[4] \in Nat
  <2>1. c.tldRank \in Nat /\ d.tldRank \in Nat /\ Len(c.domain) \in Nat /\ Len(d.domain) \in Nat
    BY DEF CandidateType, Canonical
  <2>. QED  BY <1>1, <2>1 DEF Plainness, Hyphens
<1>3. \/ s[1] < t[1]
      \/ /\ s[1] = t[1]
         /\ \/ s[2] < t[2]
            \/ /\ s[2] = t[2]
               /\ \/ s[3] < t[3]
                  \/ s[3] = t[3] /\ s[4] <= t[4]
  BY <1>1, <1>2, LessByNumbers
<1>. HIDE DEF s, t
<1>4. ~\E i \in 1 .. 4 : t[i] < s[i] /\ \A j \in 1 .. i - 1 : t[j] = s[j]
  <2>. SUFFICES ASSUME NEW i \in 1 .. 4, t[i] < s[i], \A j \in 1 .. i - 1 : t[j] = s[j]
                PROVE  FALSE
    OBVIOUS
  <2>1. CASE i = 1
    BY <1>2, <1>3, <2>1
  <2>2. CASE i = 2
    <3>1. t[1] = s[1]
      BY <2>2
    <3>. QED  BY <1>2, <1>3, <2>2, <3>1
  <2>3. CASE i = 3
    <3>1. t[1] = s[1] /\ t[2] = s[2]
      BY <2>3
    <3>. QED  BY <1>2, <1>3, <2>3, <3>1
  <2>4. CASE i = 4
    <3>1. t[1] = s[1] /\ t[2] = s[2] /\ t[3] = s[3]
      BY <2>4
    <3>. QED  BY <1>2, <1>3, <2>4, <3>1
  <2>. QED  BY <2>1, <2>2, <2>3, <2>4
<1>. QED  BY <1>4 DEF RanksBefore, s, t

\* suggest_domains: the suggestions are the best of what the engine answered,
\* best first, and nothing that the limit left out ranks before one of them.
THEOREM TheBestAreSuggested == Spec => []SuggestionsAreTheBest
<1>1. ASSUME ToolsInv, Answered, tool = "suggest_domains" PROVE SuggestionsAreTheBest
  <2>. DEFINE cands == Cut(request)
              wanted == {i \in DOMAIN answers :
                            answers[i].availability = "available" \/ request.includeTaken}
              limit == Limit(request)
              only == ~request.includeTaken
              n == IF limit < Cardinality(wanted) THEN limit ELSE Cardinality(wanted)
              X == {answers[i] : i \in DOMAIN answers}
              results == Rank(answers, cands, only, limit)
  <2>1. /\ request \in Requests /\ candidates = cands
        /\ domains = [i \in DOMAIN cands |-> cands[i].domain]
        /\ output = Suggestion(request)
    BY <1>1 DEF ToolsInv, Calls, Returned, Answered, Outcome
  <2>2. output.results = results
    BY <2>1 DEF Suggestion
  <2>3. cands \in Seq(CandidateType) /\ Apart(cands)
    BY <2>1, CutTyped
  <2>4. limit \in Nat \ {0} /\ request.includeTaken \in BOOLEAN
    BY <2>1, RequestsTyped, ToolsAssumption DEF Limit
  <2>. HIDE DEF cands, limit
  <2>5. answers \in Seq(X) /\ Len(answers) = Len(cands) /\ DOMAIN answers = DOMAIN cands
    <3>1. DOMAIN domains = DOMAIN cands /\ answers = [i \in DOMAIN cands |-> answers[i]]
      BY <1>1, <2>1 DEF ToolsInv, Answers
    <3>2. DOMAIN cands = 1 .. Len(cands) /\ Len(cands) \in Nat
      BY <2>3
    <3>. QED  BY <3>1, <3>2
  <2>6. Wanted(answers, only) = wanted
    BY DEF Wanted
  <2>7. Len(answers) <= Len(cands)
    BY <2>3, <2>5
  <2>. HIDE DEF X, only, wanted, results
  <2>8. /\ n \in Nat /\ Len(results) = n
        /\ \E at : /\ Best(at, wanted, 1 .. n, cands)
                   /\ \A k \in 1 .. n : results[k] = answers[at[k]]
    <3>1. TakesBest(Rank(answers, cands, only, limit),
                    Fewer(limit, Cardinality(Wanted(answers, only))),
                    answers, Wanted(answers, only), cands)
      BY <2>3, <2>4, <2>5, <2>7, RankTakesBest
    <3>2. Fewer(limit, Cardinality(wanted)) = n
      BY DEF Fewer
    <3>. HIDE DEF n
    <3>3. TakesBest(results, n, answers, wanted, cands)
      BY <2>6, <3>1, <3>2 DEF results
    <3>. QED  BY <3>3 DEF TakesBest
  <2>9. PICK at : /\ Best(at, wanted, 1 .. n, cands)
                  /\ \A k \in 1 .. n : results[k] = answers[at[k]]
    BY <2>8
  <2>10. n = Smaller(Cardinality(wanted), limit)
    <3>1. Cardinality(wanted) \in Nat
      <4>1. DOMAIN answers = 1 .. Len(answers) /\ Len(answers) \in Nat
        BY <2>5
      <4>2. IsFiniteSet(DOMAIN answers)
        BY <4>1, FS_Interval
      <4>3. wanted \subseteq DOMAIN answers
        BY DEF wanted
      <4>. QED  BY <4>2, <4>3, FS_Subset, FS_CardinalityType
    <3>. QED  BY <2>4, <3>1 DEF Smaller
  <2>. HIDE DEF n
  <2>11. at \in [1 .. n -> wanted]
    BY <2>9 DEF Best
  <2>12. wanted \subseteq DOMAIN cands
    BY <2>5 DEF wanted
  <2>13. \A i, j \in wanted : Less(cands[i], cands[j]) => ~RanksBefore(cands[j], cands[i])
    <3>1. \A i \in wanted : cands[i] \in CandidateType
      BY <2>3, <2>12
    <3>. QED  BY <3>1, RankedByDocumentation
  <2>14. \A j, k \in 1 .. n : j < k => at[j] # at[k] /\ ~RanksBefore(cands[at[k]], cands[at[j]])
    BY <2>9, <2>11, <2>13 DEF Best
  <2>15. \A k \in 1 .. n, i \in wanted \ {at[j] : j \in 1 .. n} : ~RanksBefore(cands[i], cands[at[k]])
    BY <2>9, <2>11, <2>13 DEF Best
  <2>16. /\ n = Smaller(Cardinality(wanted), limit)
         /\ Len(output.results) = n
         /\ \E at_1 \in [1 .. n -> wanted] :
               /\ \A k \in 1 .. n : output.results[k] = answers[at_1[k]]
               /\ \A j, k \in 1 .. n : j < k =>
                     at_1[j] # at_1[k] /\ ~RanksBefore(candidates[at_1[k]], candidates[at_1[j]])
               /\ \A k \in 1 .. n, i \in wanted \ {at_1[j] : j \in 1 .. n} :
                     ~RanksBefore(candidates[i], candidates[at_1[k]])
    BY <2>1, <2>2, <2>8, <2>9, <2>10, <2>11, <2>14, <2>15
  <2>. QED  BY <2>16 DEF SuggestionsAreTheBest, wanted, limit
<1>2. ToolsInv => SuggestionsAreTheBest
  BY <1>1 DEF SuggestionsAreTheBest
<1>. QED  BY <1>2, ToolsInvariant, PTL
=============================================================================
