-------------------------- MODULE AnswerRelay_proofs --------------------------
(***************************************************************************)
(* For every price, every set of usages and every buffer of the server:    *)
(* what reaches a client is billed, a cut never overcharges, and a body    *)
(* that was captured whole is priced right exactly when its parser         *)
(* understands it.  What the parsers read in a prefix of a body is one of  *)
(* two forms, with or without the input, and only grows with the prefix.   *)
(***************************************************************************)
EXTENDS AnswerRelay, SequenceTheorems, WellFoundedInduction, TLAPS

LEMMA LeastNat ==
  ASSUME NEW T, T \subseteq Nat, T # {}
  PROVE  \E x \in T : \A y \in T : x <= y
<1> DEFINE R == OpToRel(<, Nat)
<1>1. IsWellFoundedOn(R, Nat)
  BY NatLessThanWellFounded
<1>2. \A x, y \in Nat : ~(<<y, x>> \in R) => x <= y
  BY DEF OpToRel
<1> HIDE DEF R
<1>3. PICK x \in T : \A y \in T : ~(<<y, x>> \in R)
  BY <1>1, WFMin
<1>4. \A y \in T : x <= y
  BY <1>2, <1>3
<1> QED
  BY <1>4

LEMMA MinIsFirst ==
  ASSUME NEW T, T \subseteq Nat, T # {}
  PROVE  Min(T) \in T /\ \A y \in T : Min(T) <= y
BY LeastNat DEF Min

LEMMA MaxIsLast ==
  ASSUME NEW n \in Nat, NEW T, T \subseteq 1..n, T # {}
  PROVE  Max(T) \in T /\ \A y \in T : y <= Max(T)
<1> DEFINE D == { n - i : i \in T }
<1>1. PICK d \in D : \A e \in D : d <= e
  <2>1. D \subseteq Nat
    OBVIOUS
  <2>2. PICK i \in T : TRUE
    OBVIOUS
  <2>3. n - i \in D
    OBVIOUS
  <2> QED
    BY <2>1, <2>3, LeastNat
<1>2. PICK x \in T : d = n - x
  OBVIOUS
<1>3. ASSUME NEW y \in T PROVE x >= y
  <2>1. n - y \in D
    OBVIOUS
  <2>2. n - x <= n - y
    BY <1>1, <1>2, <2>1
  <2> QED
    BY <2>2
<1> QED
  BY <1>3 DEF Max

-----------------------------------------------------------------------------
(* What the parsers look for in a list of events.                          *)

\* The number of events before the first that is too long.
ScanLen(s) ==
  IF \E i \in DOMAIN s : s[i].long
  THEN CHOOSE k \in 0..(Len(s) - 1) : s[k + 1].long /\ \A i \in 1..k : ~s[i].long
  ELSE Len(s)

LEMMA ScannedIsPrefix ==
  ASSUME NEW S, NEW s \in Seq(S)
  PROVE  /\ ScanLen(s) \in 0..Len(s)
         /\ Scanned(s) = SubSeq(s, 1, ScanLen(s))
         /\ \A i \in 1..ScanLen(s) : ~s[i].long
         /\ ScanLen(s) < Len(s) => s[ScanLen(s) + 1].long
<1>1. CASE ~\E i \in DOMAIN s : s[i].long
  BY <1>1 DEF ScanLen, Scanned
<1>2. CASE \E i \in DOMAIN s : s[i].long
  <2> DEFINE I == { i \in 1..Len(s) : s[i].long }
             f == Min(I)
             k == ScanLen(s)
  <2>1. I # {} /\ I \subseteq Nat
    BY <1>2
  <2>2. SelectInSeq(s, LAMBDA e : e.long) = f
    BY <2>1 DEF SelectInSeq
  <2>3. Scanned(s) = SubSeq(s, 1, f - 1)
    BY <1>2, <2>2 DEF Scanned
  <2>4. f \in I /\ \A i \in I : f <= i
    BY <2>1, MinIsFirst
  <2> HIDE DEF f
  <2>5. f - 1 \in 0..(Len(s) - 1) /\ s[(f - 1) + 1].long /\ \A i \in 1..(f - 1) : ~s[i].long
    BY <2>4
  <2>6. k \in 0..(Len(s) - 1) /\ s[k + 1].long /\ \A i \in 1..k : ~s[i].long
    BY <1>2, <2>5 DEF ScanLen
  <2> HIDE DEF k
  <2>7. k = f - 1
    BY <2>4, <2>6
  <2> QED
    BY <2>3, <2>6, <2>7 DEF k
<1> QED
  BY <1>1, <1>2

\* Where a prefix of a list is cut by a line that is too long.
LEMMA ScanOfPrefix ==
  ASSUME NEW S, NEW s \in Seq(S), NEW k \in 0..Len(s)
  PROVE  ScanLen(SubSeq(s, 1, k)) = IF k <= ScanLen(s) THEN k ELSE ScanLen(s)
<1> DEFINE p == SubSeq(s, 1, k)
           j == ScanLen(p)
           l == ScanLen(s)
<1>1. p \in Seq(S) /\ Len(p) = k /\ \A i \in 1..k : p[i] = s[i]
  OBVIOUS
<1> HIDE DEF p
<1>2. j \in 0..k /\ (\A i \in 1..j : ~p[i].long) /\ (j < k => p[j + 1].long)
  BY <1>1, ScannedIsPrefix
<1>3. l \in 0..Len(s) /\ (\A i \in 1..l : ~s[i].long) /\ (l < Len(s) => s[l + 1].long)
  BY ScannedIsPrefix
<1> HIDE DEF j, l
<1>4. (\A i \in 1..j : ~s[i].long) /\ (j < k => s[j + 1].long)
  BY <1>1, <1>2
<1>5. j = IF k <= l THEN k ELSE l
  BY <1>2, <1>3, <1>4
<1> QED
  BY <1>5 DEF p, j, l

LEMMA LastOfIsLast ==
  ASSUME NEW S, NEW s \in Seq(S), NEW K
  PROVE  \/ LastOf(s, K) = 0 /\ \A i \in 1..Len(s) : s[i].kind \notin K
         \/ /\ LastOf(s, K) \in 1..Len(s) /\ s[LastOf(s, K)].kind \in K
            /\ \A i \in 1..Len(s) : s[i].kind \in K => i <= LastOf(s, K)
<1> DEFINE I == { i \in 1..Len(s) : s[i].kind \in K }
<1>1. LastOf(s, K) = IF I # {} THEN Max(I) ELSE 0
  BY DEF LastOf, SelectLastInSeq
<1>2. CASE I = {}
  BY <1>1, <1>2
<1>3. CASE I # {}
  <2>1. Len(s) \in Nat /\ I \subseteq 1..Len(s)
    OBVIOUS
  <2>2. Max(I) \in I /\ \A i \in I : i <= Max(I)
    BY <1>3, <2>1, MaxIsLast
  <2> QED
    BY <1>1, <1>3, <2>2
<1> QED
  BY <1>2, <1>3

-----------------------------------------------------------------------------
(* The bodies of the answers.                                              *)

Counts == [fresh : Nat, read : Nat, w5 : Nat, w1 : Nat, out : Nat]
Kinds == {"message_start", "content", "message_delta", "chat", "responses", "chunk", "metadata"}
Events == [kind : Kinds, usage : Counts, split : BOOLEAN, long : BOOLEAN]
Opens(a) == a.streamed /\ a.dialect \in {"anthropic", "anthropic-openai"}
Whole(a) == ~a.streamed /\ a.dialect # "gemini"

\* The last event has the final count, the others a smaller one; a stream of
\* Anthropic starts with the event that has its input.
BodyOK(a) ==
  LET b == a.body
      n == Len(a.body)
  IN /\ b \in Seq(Events) /\ n > 0
     /\ b[n].kind \in FinalKinds(a.dialect) /\ b[n].usage = a.usage /\ b[n].split = a.split
     /\ \A i \in 1..(n - 1) :
          /\ b[i].usage = SoFar(a.usage)
          /\ b[i].kind \in {"message_start", "content", b[n].kind}
          /\ b[i].kind = "message_start" => b[i].split = a.split
     /\ \A i \in 1..n : b[i].kind = "message_start" <=> Opens(a) /\ i = 1
     /\ Opens(a) => n > 1 /\ ~b[1].long
     /\ Whole(a) => n = 1 /\ ~b[1].long
     /\ a.dialect \in {"gemini", "bedrock"} => \A i \in 1..n : ~b[i].long
     /\ a.dialect = "bedrock" => \A i \in 1..(n - 1) : b[i].kind = "content"

LEMMA OneTuple == ASSUME NEW y PROVE <<>> \o <<y>> = <<y>> /\ <<y>> \o <<>> = <<y>>
<1>1. <<>> \o <<y>> = <<y>>
  OBVIOUS
<1>2. <<y>> \o <<>> = <<y>>
  <2> DEFINE s == <<y>> \o <<>>
  <2>1. s \in Seq({y}) /\ Len(s) = 1 /\ s[1] = y
    OBVIOUS
  <2>2. s = [i \in 1..1 |-> s[i]]
    BY <2>1
  <2> HIDE DEF s
  <2>3. s = <<y>>
    BY <2>1, <2>2
  <2> QED
    BY <2>3 DEF s
<1> QED
  BY <1>1, <1>2

LEMMA TwoTuple == ASSUME NEW y, NEW z PROVE <<y>> \o <<z>> = <<y, z>>
<1> DEFINE s == <<y>> \o <<z>>
<1>1. s \in Seq({y, z}) /\ Len(s) = 2 /\ s[1] = y /\ s[2] = z
  OBVIOUS
<1>2. s = [i \in 1..2 |-> s[i]]
  BY <1>1
<1> HIDE DEF s
<1>3. s = <<y, z>>
  BY <1>1, <1>2
<1> QED
  BY <1>3 DEF s

LEMMA ThreeTuple == ASSUME NEW x, NEW y, NEW z PROVE <<x, y>> \o <<z>> = <<x, y, z>>
<1> DEFINE s == <<x, y>> \o <<z>>
<1>1. s \in Seq({x, y, z}) /\ Len(s) = 3 /\ s[1] = x /\ s[2] = y /\ s[3] = z
  OBVIOUS
<1>2. s = [i \in 1..3 |-> s[i]]
  BY <1>1
<1> HIDE DEF s
<1>3. s = <<x, y, z>>
  BY <1>1, <1>2
<1> QED
  BY <1>3 DEF s

LEMMA Tuples ==
  ASSUME NEW x, NEW y, NEW z
  PROVE  /\ <<>> \o <<>> \o <<z>> = <<z>>
         /\ <<>> \o <<y>> \o <<z>> = <<y, z>>
         /\ <<x>> \o <<>> \o <<z>> = <<x, z>>
         /\ <<x>> \o <<y>> \o <<z>> = <<x, y, z>>
<1>1. <<>> \o <<>> = <<>>
  OBVIOUS
<1>2. <<>> \o <<>> \o <<z>> = <<z>>
  BY <1>1, OneTuple
<1>3. <<>> \o <<y>> \o <<z>> = <<y, z>>
  <2>1. <<>> \o <<y>> = <<y>>
    BY OneTuple
  <2> QED
    BY <2>1, TwoTuple
<1>4. <<x>> \o <<>> \o <<z>> = <<x, z>>
  <2>1. <<x>> \o <<>> = <<x>>
    BY OneTuple
  <2> QED
    BY <2>1, TwoTuple
<1>5. <<x>> \o <<y>> \o <<z>> = <<x, y, z>>
  <2>1. <<x>> \o <<y>> = <<x, y>>
    BY TwoTuple
  <2> QED
    BY <2>1, ThreeTuple
<1> QED
  BY <1>2, <1>3, <1>4, <1>5

LEMMA ReportedTyped ==
  ASSUME NEW r \in Reported
  PROVE  /\ r.dialect \in {"anthropic", "openai", "anthropic-openai", "gemini", "bedrock"}
         /\ r.usage \in Counts /\ SoFar(r.usage) \in Counts
         /\ r.split \in BOOLEAN /\ r.streamed \in BOOLEAN
         /\ FinalKinds(r.dialect) \subseteq Kinds \ {"message_start", "content"}
<1>1. /\ r.dialect \in {"anthropic", "openai", "anthropic-openai", "gemini", "bedrock"}
      /\ r.usage \in Counts
      /\ r.split \in BOOLEAN /\ r.streamed \in BOOLEAN
  BY AnswerRelayAssumption DEF Reported, Counts
<1>2. SoFar(r.usage) \in Counts
  BY <1>1 DEF SoFar, Counts
<1>3. FinalKinds(r.dialect) \subseteq Kinds \ {"message_start", "content"}
  BY <1>1 DEF FinalKinds, Kinds
<1> QED
  BY <1>1, <1>2, <1>3

LEMMA AnswersTyped ==
  ASSUME NEW a \in Answers
  PROVE  /\ a.dialect \in {"anthropic", "openai", "anthropic-openai", "gemini", "bedrock"}
         /\ a.usage \in Usages /\ a.usage \in Counts /\ SoFar(a.usage) \in Counts
         /\ a.split \in BOOLEAN /\ a.streamed \in BOOLEAN
         /\ Reports(a.dialect, a.usage, a.split)
         /\ a.body \in Bodies(a.dialect, a.usage, a.split, a.streamed)
         /\ FinalKinds(a.dialect) \subseteq Kinds \ {"message_start", "content"}
<1>1. PICK r \in Reported : \E body \in Bodies(r.dialect, r.usage, r.split, r.streamed) :
        a = [dialect |-> r.dialect, usage |-> r.usage, split |-> r.split,
             streamed |-> r.streamed, body |-> body]
  BY DEF Answers
<1>2. r.usage \in Usages /\ Reports(r.dialect, r.usage, r.split)
  BY DEF Reported
<1> QED
  BY <1>1, <1>2, ReportedTyped

LEMMA BodiesOK ==
  ASSUME NEW a \in Answers
  PROVE  BodyOK(a)
<1> DEFINE u == a.usage
           d == a.dialect
<1>1. CASE Whole(a)
  <2>1. PICK kind \in FinalKinds(d) : a.body = <<Event(kind, u, a.split)>>
    BY <1>1, AnswersTyped DEF Whole, Bodies
  <2>2. Event(kind, u, a.split) \in Events
    BY AnswersTyped DEF Event, Events
  <2> QED
    BY <1>1, <2>1, <2>2, AnswersTyped DEF BodyOK, Opens, Whole, Event
<1>2. CASE ~Whole(a)
  <2> DEFINE start == Event("message_start", SoFar(u), a.split)
  <2>1. a.body \in Streams(d, u, a.split)
    BY <1>2, AnswersTyped DEF Whole, Bodies
  <2>2. PICK kind, long, opening, middle :
          /\ kind \in FinalKinds(d) /\ long \in BOOLEAN
          /\ a.body = opening \o middle \o <<[Event(kind, u, a.split) EXCEPT !.long = long]>>
          /\ opening = IF d \in {"anthropic", "anthropic-openai"} THEN <<start>> ELSE <<>>
          /\ \/ middle \in {<<>>, <<Content(u)>>}
             \/ d # "bedrock" /\ middle = <<Event(kind, SoFar(u), a.split)>>
             \/ d \notin {"gemini", "bedrock"} /\ middle = <<LongContent(u)>>
          /\ long => kind = "responses"
    <3> DEFINE opening == IF d \in {"anthropic", "anthropic-openai"} THEN <<start>> ELSE <<>>
               middles(kind) ==
                 {<<>>, <<Content(u)>>}
                 \cup (IF d = "bedrock" THEN {} ELSE {<<Event(kind, SoFar(u), a.split)>>})
                 \cup (IF d \in {"gemini", "bedrock"} THEN {} ELSE {<<LongContent(u)>>})
               endings(kind) == IF kind = "responses" THEN {FALSE, TRUE} ELSE {FALSE}
               last(kind, long) == <<[Event(kind, u, a.split) EXCEPT !.long = long]>>
               ofKind(kind) == { opening \o middle \o last(kind, long) :
                                   middle \in middles(kind), long \in endings(kind) }
    <3>1. Streams(d, u, a.split) = UNION { ofKind(kind) : kind \in FinalKinds(d) }
      BY DEF Streams
    <3> HIDE DEF ofKind
    <3>2. PICK kind \in FinalKinds(d) : a.body \in ofKind(kind)
      BY <2>1, <3>1
    <3> HIDE DEF middles, endings, opening, last
    <3>3. PICK middle \in middles(kind), long \in endings(kind) :
            a.body = opening \o middle \o last(kind, long)
      BY <3>2 DEF ofKind
    <3> QED
      BY <3>3 DEF middles, endings, opening, last
  <2>3. kind \in FinalKinds(d) /\ long \in BOOLEAN
    BY <2>2
  <2> DEFINE final == [Event(kind, u, a.split) EXCEPT !.long = long]
  <2>4. /\ final \in Events /\ final.kind = kind /\ final.usage = u /\ final.split = a.split
        /\ final.long = long
    BY <2>2, AnswersTyped DEF Event, Events
  <2>5. /\ start \in Events /\ start.kind = "message_start" /\ start.usage = SoFar(u)
        /\ start.split = a.split /\ ~start.long
    BY AnswersTyped DEF Event, Events, Kinds
  <2>6. \/ middle = <<>>
        \/ \E e \in Events : /\ middle = <<e>>
                             /\ e.usage = SoFar(u) /\ e.kind \in {"content", kind}
                             /\ d \in {"gemini", "bedrock"} => ~e.long
                             /\ d = "bedrock" => e.kind = "content"
    <3>1. /\ Content(u) \in Events /\ Content(u).usage = SoFar(u)
          /\ Content(u).kind = "content" /\ ~Content(u).long
      BY AnswersTyped DEF Content, Event, Events, Kinds
    <3>2. /\ LongContent(u) \in Events /\ LongContent(u).usage = SoFar(u)
          /\ LongContent(u).kind = "content"
      BY AnswersTyped DEF LongContent, Content, Event, Events, Kinds
    <3>3. LET e == Event(kind, SoFar(u), a.split)
          IN e \in Events /\ e.usage = SoFar(u) /\ e.kind = kind /\ ~e.long
      BY <2>3, AnswersTyped DEF Event, Events
    <3> QED
      BY <2>2, <3>1, <3>2, <3>3
  <2> HIDE DEF start, final
  <2>7. kind \notin {"message_start", "content"}
    BY <2>2, AnswersTyped
  <2>8. d \in {"gemini", "bedrock"} => ~long
    BY <2>2 DEF FinalKinds
  <2>9. CASE middle = <<>>
    <3>1. CASE d \in {"anthropic", "anthropic-openai"}
      <4>1. a.body = <<start, final>>
        BY <2>2, <2>9, <3>1, Tuples DEF final
      <4> QED
        BY <1>2, <2>4, <2>5, <2>7, <2>8, <2>3, <3>1, <4>1 DEF BodyOK, Opens, Whole
    <3>2. CASE d \notin {"anthropic", "anthropic-openai"}
      <4>1. a.body = <<final>>
        BY <2>2, <2>9, <3>2, Tuples DEF final
      <4> QED
        BY <1>2, <2>4, <2>7, <2>8, <2>3, <3>2, <4>1 DEF BodyOK, Opens, Whole
    <3> QED
      BY <3>1, <3>2
  <2>10. ASSUME NEW e \in Events, middle = <<e>>, e.usage = SoFar(u), e.kind \in {"content", kind},
               d \in {"gemini", "bedrock"} => ~e.long, d = "bedrock" => e.kind = "content"
        PROVE  BodyOK(a)
    <3>1. CASE d \in {"anthropic", "anthropic-openai"}
      <4>1. a.body = <<start, e, final>>
        BY <2>2, <2>10, <3>1, Tuples DEF final
      <4> QED
        BY <1>2, <2>4, <2>5, <2>7, <2>8, <2>10, <2>3, <3>1, <4>1 DEF BodyOK, Opens, Whole
    <3>2. CASE d \notin {"anthropic", "anthropic-openai"}
      <4>1. a.body = <<e, final>>
        BY <2>2, <2>10, <3>2, Tuples DEF final
      <4> QED
        BY <1>2, <2>4, <2>7, <2>8, <2>10, <2>3, <3>2, <4>1 DEF BodyOK, Opens, Whole
    <3> QED
      BY <3>1, <3>2
  <2> QED
    BY <2>6, <2>9, <2>10
<1> QED
  BY <1>1, <1>2

-----------------------------------------------------------------------------
(* What is read in the first k events of a body.                           *)

\* Of them, those before a line that is too long.
Cut(a, k) == ScanLen(SubSeq(a.body, 1, k))

\* The last of the first j events that is of one of the kinds, or 0, and the
\* output it reports.
Seen(a, j, K) == LastOf(SubSeq(a.body, 1, j), K)
OutAt(a, l) == IF l = 0 THEN 0 ELSE a.body[l].usage.out

LEMMA PrefixOf ==
  ASSUME NEW S, NEW s \in Seq(S), NEW k \in 0..Len(s)
  PROVE  /\ SubSeq(s, 1, k) \in Seq(S) /\ Len(SubSeq(s, 1, k)) = k
         /\ \A i \in 1..k : SubSeq(s, 1, k)[i] = s[i]
         /\ \A j \in 0..k : SubSeq(SubSeq(s, 1, k), 1, j) = SubSeq(s, 1, j)
<1>1. /\ SubSeq(s, 1, k) \in Seq(S) /\ Len(SubSeq(s, 1, k)) = k
      /\ \A i \in 1..k : SubSeq(s, 1, k)[i] = s[i]
  OBVIOUS
<1>2. ASSUME NEW j \in 0..k PROVE SubSeq(SubSeq(s, 1, k), 1, j) = SubSeq(s, 1, j)
  <2> DEFINE p == SubSeq(s, 1, k)
             q == SubSeq(p, 1, j)
             r == SubSeq(s, 1, j)
  <2> HIDE DEF p
  <2>1. q \in Seq(S) /\ Len(q) = j /\ \A i \in 1..j : q[i] = p[i]
    BY <1>1 DEF p
  <2>2. r \in Seq(S) /\ Len(r) = j /\ \A i \in 1..j : r[i] = s[i]
    OBVIOUS
  <2>3. \A i \in 1..j : q[i] = r[i]
    BY <1>1, <2>1, <2>2 DEF p
  <2>4. q = [i \in 1..j |-> q[i]] /\ r = [i \in 1..j |-> r[i]]
    BY <2>1, <2>2
  <2> HIDE DEF q, r
  <2>5. q = r
    BY <2>3, <2>4
  <2> QED
    BY <2>5 DEF p, q, r
<1> QED
  BY <1>1, <1>2

LEMMA CutsGrow ==
  ASSUME NEW a \in Answers, NEW k \in 0..Len(a.body), NEW k2 \in k..Len(a.body)
  PROVE  /\ Cut(a, k) \in 0..k /\ Cut(a, k) <= Cut(a, k2)
         /\ Scanned(SubSeq(a.body, 1, k)) = SubSeq(a.body, 1, Cut(a, k))
         /\ Cut(a, Len(a.body)) = Len(a.body) <=> \A i \in 1..Len(a.body) : ~a.body[i].long
         /\ Opens(a) /\ k > 0 => Cut(a, k) > 0
<1> DEFINE b == a.body
           n == Len(b)
           j == ScanLen(b)
<1>1. b \in Seq(Events) /\ n \in Nat /\ n > 0
  BY BodiesOK DEF BodyOK
<1>2. j \in 0..n /\ (\A i \in 1..j : ~b[i].long) /\ (j < n => b[j + 1].long)
  BY <1>1, ScannedIsPrefix
<1>3. \A i \in 0..n : Cut(a, i) = IF i <= j THEN i ELSE j
  BY <1>1, ScanOfPrefix DEF Cut
<1>4. Scanned(SubSeq(b, 1, k)) = SubSeq(b, 1, Cut(a, k))
  <2>1. Scanned(SubSeq(b, 1, k)) = SubSeq(SubSeq(b, 1, k), 1, Cut(a, k))
    BY <1>1, PrefixOf, ScannedIsPrefix DEF Cut
  <2>2. Cut(a, k) \in 0..k
    BY <1>2, <1>3
  <2> QED
    BY <1>1, <2>1, <2>2, PrefixOf
<1>5. Opens(a) => ~b[1].long
  BY BodiesOK DEF BodyOK
<1> HIDE DEF j, b
<1>6. Cut(a, k) \in 0..k /\ Cut(a, k) <= Cut(a, k2)
  BY <1>1, <1>2, <1>3 DEF b
<1>7. Cut(a, n) = n <=> \A i \in 1..n : ~b[i].long
  BY <1>1, <1>2, <1>3
<1>8. Opens(a) /\ k > 0 => Cut(a, k) > 0
  <2> SUFFICES ASSUME Opens(a), k > 0, Cut(a, k) = 0 PROVE FALSE
    BY <1>6
  <2>1. j = 0
    BY <1>1, <1>2, <1>3 DEF b
  <2> QED
    BY <1>1, <1>2, <1>5, <2>1
<1> QED
  BY <1>4, <1>6, <1>7, <1>8 DEF b

LEMMA SeenGrows ==
  ASSUME NEW a \in Answers, NEW K, NEW j \in 0..Len(a.body), NEW j2 \in j..Len(a.body)
  PROVE  LET l == Seen(a, j, K)
             l2 == Seen(a, j2, K)
             n == Len(a.body)
         IN /\ l \in 0..j
            /\ l = 0 => \A i \in 1..j : a.body[i].kind \notin K
            /\ l # 0 => a.body[l].kind \in K
            /\ \A i \in 1..j : a.body[i].kind \in K => i <= l
            /\ l2 \in l..j2
            /\ a.body[n].kind \in K /\ j = n => l = n
<1> DEFINE b == a.body
           n == Len(b)
           l == Seen(a, j, K)
           l2 == Seen(a, j2, K)
<1>1. b \in Seq(Events) /\ n \in Nat /\ n > 0
  BY BodiesOK DEF BodyOK
<1>2. ASSUME NEW i \in 0..n
      PROVE  LET m == Seen(a, i, K)
             IN /\ m \in 0..i
                /\ m = 0 => \A x \in 1..i : b[x].kind \notin K
                /\ m # 0 => b[m].kind \in K
                /\ \A x \in 1..i : b[x].kind \in K => x <= m
  <2> DEFINE p == SubSeq(b, 1, i)
             m == LastOf(p, K)
  <2>1. p \in Seq(Events) /\ Len(p) = i /\ \A x \in 1..i : p[x] = b[x]
    BY <1>1, PrefixOf
  <2> HIDE DEF p
  <2>2. \/ m = 0 /\ \A x \in 1..i : p[x].kind \notin K
        \/ m \in 1..i /\ p[m].kind \in K /\ \A x \in 1..i : p[x].kind \in K => x <= m
    BY <2>1, LastOfIsLast
  <2> HIDE DEF m
  <2>3. /\ m \in 0..i
        /\ m = 0 => \A x \in 1..i : b[x].kind \notin K
        /\ m # 0 => b[m].kind \in K
        /\ \A x \in 1..i : b[x].kind \in K => x <= m
    BY <2>1, <2>2
  <2> QED
    BY <2>3 DEF Seen, m, p
<1>3. /\ l \in 0..j
      /\ l = 0 => \A x \in 1..j : b[x].kind \notin K
      /\ l # 0 => b[l].kind \in K
      /\ \A x \in 1..j : b[x].kind \in K => x <= l
  BY <1>2
<1>4. /\ l2 \in 0..j2
      /\ l2 # 0 => b[l2].kind \in K
      /\ \A x \in 1..j2 : b[x].kind \in K => x <= l2
  BY <1>2
<1> HIDE DEF l, l2, b
<1>5. l2 \in l..j2
  BY <1>1, <1>3, <1>4 DEF b
<1>6. b[n].kind \in K /\ j = n => l = n
  BY <1>1, <1>3
<1> QED
  BY <1>3, <1>5, <1>6 DEF l, l2, b

\* The last such event among those before a line that is too long.
SeenAt(a, i, K) == Seen(a, Cut(a, i), K)

LEMMA SeenAtGrows ==
  ASSUME NEW a \in Answers, NEW K
  PROVE  LET n == Len(a.body)
         IN /\ \A i \in 0..n : SeenAt(a, i, K) \in 0..Cut(a, i) /\ Cut(a, i) \in 0..i
            /\ \A i \in 0..n, i2 \in 0..n : i <= i2 => SeenAt(a, i, K) <= SeenAt(a, i2, K)
            /\ a.body[n].kind \in K =>
                 (SeenAt(a, n, K) = n <=> \A i \in 1..n : ~a.body[i].long)
<1> DEFINE n == Len(a.body)
<1>1. n \in Nat
  BY BodiesOK DEF BodyOK
<1>2. \A i \in 0..n : Cut(a, i) \in 0..i
  <2> TAKE i \in 0..n
  <2>1. i \in i..n
    BY <1>1
  <2> QED
    BY <2>1, CutsGrow
<1>3. \A i \in 0..n : SeenAt(a, i, K) \in 0..Cut(a, i)
  <2> TAKE i \in 0..n
  <2>1. Cut(a, i) \in 0..n /\ Cut(a, i) \in Cut(a, i)..n
    BY <1>1, <1>2
  <2> QED
    BY <2>1, SeenGrows DEF SeenAt
<1>4. ASSUME NEW i \in 0..n, NEW i2 \in 0..n, i <= i2
      PROVE  SeenAt(a, i, K) <= SeenAt(a, i2, K)
  <2>1. i2 \in i..n
    BY <1>1, <1>4
  <2>2. Cut(a, i) <= Cut(a, i2)
    BY <2>1, CutsGrow
  <2>3. Cut(a, i) \in 0..n /\ Cut(a, i2) \in Cut(a, i)..n
    BY <1>1, <1>2, <2>2
  <2>4. Seen(a, Cut(a, i2), K) \in Seen(a, Cut(a, i), K)..Cut(a, i2)
    BY <2>3, SeenGrows
  <2>5. SeenAt(a, i, K) \in 0..Cut(a, i) /\ Cut(a, i) \in 0..n
    BY <1>3, <2>3
  <2> QED
    BY <2>3, <2>4, <2>5 DEF SeenAt
<1>5. ASSUME a.body[n].kind \in K
      PROVE  SeenAt(a, n, K) = n <=> \A i \in 1..n : ~a.body[i].long
  <2>1. n \in 0..n /\ n \in n..n
    BY <1>1
  <2>2. Cut(a, n) = n <=> \A i \in 1..n : ~a.body[i].long
    BY <2>1, CutsGrow
  <2>3. Cut(a, n) = n => SeenAt(a, n, K) = n
    BY <1>5, <2>1, SeenGrows DEF SeenAt
  <2>4. SeenAt(a, n, K) \in 0..Cut(a, n) /\ Cut(a, n) \in 0..n
    BY <1>2, <1>3, <2>1
  <2> QED
    BY <1>1, <2>2, <2>3, <2>4
<1> QED
  BY <1>2, <1>3, <1>4, <1>5

LEMMA OutputAt ==
  ASSUME NEW a \in Answers, NEW m \in 0..Len(a.body)
  PROVE  /\ OutAt(a, m) = IF m = 0 THEN 0 ELSE IF m = Len(a.body) THEN a.usage.out ELSE 1
         /\ a.usage.out \in Nat /\ a.usage.out > 1
<1>1. a.usage \in Counts /\ a.usage.out > 1 /\ SoFar(a.usage).out = 1
  BY AnswersTyped, AnswerRelayAssumption DEF SoFar, Counts
<1>2. a.usage.out \in Nat
  BY <1>1 DEF Counts
<1>3. /\ Len(a.body) \in Nat /\ Len(a.body) > 0 /\ a.body[Len(a.body)].usage = a.usage
      /\ \A i \in 1..(Len(a.body) - 1) : a.body[i].usage.out = 1
  BY <1>1, BodiesOK DEF BodyOK
<1> QED
  BY <1>1, <1>2, <1>3 DEF OutAt

-----------------------------------------------------------------------------
(* What the parser of an answer makes of its first k events: metrics with  *)
(* the input of the answer, or without any.                                *)

Reading(a, k) == ParseResponse(a.dialect, SubSeq(a.body, 1, k), a.streamed, FALSE)
Full(a, out) == AnthropicMetrics(a.usage, a.split, out)
Partial(out) == [NoMetrics EXCEPT !.output = out]
Form(m, a, in, out) == m = IF in THEN Full(a, out) ELSE Partial(out)

UnderstoodAnswer(a) ==
  /\ \A i \in DOMAIN a.body : ~a.body[i].long
  /\ a.streamed => a.dialect \notin {"anthropic-openai", "gemini"}

\* More events never lower the reading, the whole body is read right if and
\* only if it is understood, and an output is read without its input in the
\* untranslated streams of Anthropic only.
ReadingsGrow(a, k, k2) ==
  \E in, in2 \in BOOLEAN, out, out2 \in {0, 1, a.usage.out} :
    /\ Form(Reading(a, k), a, in, out) /\ Form(Reading(a, k2), a, in2, out2)
    /\ in => in2
    /\ out <= out2
    /\ k2 = Len(a.body) => (UnderstoodAnswer(a) <=> in2 /\ out2 = a.usage.out)
    /\ ~in2 /\ out2 > 0 => a.dialect = "anthropic-openai"

LEMMA NothingRead ==
  ASSUME NEW a \in Answers
  PROVE  Reading(a, 0) = NoMetrics /\ Partial(0) = NoMetrics
<1>1. SubSeq(a.body, 1, 0) = <<>>
  BY BodiesOK DEF BodyOK
<1> QED
  BY <1>1 DEF Reading, ParseResponse, Partial, NoMetrics

\* The metrics of a usage depend on its output by the argument only.
LEMMA SameInput ==
  ASSUME NEW u \in Counts, NEW split, NEW out
  PROVE  AnthropicMetrics(SoFar(u), split, out) = AnthropicMetrics(u, split, out)
<1>1. /\ SoFar(u).fresh = u.fresh /\ SoFar(u).read = u.read
      /\ SoFar(u).w5 = u.w5 /\ SoFar(u).w1 = u.w1
  BY DEF SoFar, Counts
<1> QED
  BY <1>1 DEF AnthropicMetrics, SplitCacheCreation

\* An event of a body reports the input of the answer.
LEMMA EventUsage ==
  ASSUME NEW a \in Answers, NEW l \in 1..Len(a.body)
  PROVE  /\ a.body[l].usage \in {a.usage, SoFar(a.usage)}
         /\ \A split, out : AnthropicMetrics(a.body[l].usage, split, out)
                              = AnthropicMetrics(a.usage, split, out)
<1>1. a.body[l].usage \in {a.usage, SoFar(a.usage)}
  BY BodiesOK DEF BodyOK
<1> QED
  BY <1>1, SameInput, AnswersTyped

\* If the parser takes the input of the first i events when i \in I, and the
\* output of the l[i]-th of them, then its readings grow.
LEMMA GrowingReader ==
  ASSUME NEW a \in Answers,
         NEW I,
         NEW l \in [0..Len(a.body) -> 0..Len(a.body)],
         \A i \in 0..Len(a.body) : Form(Reading(a, i), a, i \in I, OutAt(a, l[i])),
         \A i \in 0..Len(a.body), i2 \in 0..Len(a.body) :
            i <= i2 => (i \in I => i2 \in I) /\ l[i] <= l[i2],
         UnderstoodAnswer(a) <=> Len(a.body) \in I /\ l[Len(a.body)] = Len(a.body),
         \A i \in 0..Len(a.body) : i \in I \/ l[i] = 0 \/ a.dialect = "anthropic-openai",
         NEW k \in 0..Len(a.body), NEW k2 \in k..Len(a.body)
  PROVE  ReadingsGrow(a, k, k2)
<1> DEFINE n == Len(a.body)
           out(i) == OutAt(a, l[i])
<1>1. n \in Nat /\ n > 0 /\ k2 \in 0..n /\ k <= k2
  BY BodiesOK DEF BodyOK
<1>2. l[k] \in 0..n /\ l[k2] \in 0..n /\ l[k] <= l[k2] /\ (k \in I => k2 \in I)
  BY <1>1
<1>3. \A m \in 0..n :
         OutAt(a, m) = IF m = 0 THEN 0 ELSE IF m = n THEN a.usage.out ELSE 1
  BY OutputAt
<1>4. a.usage.out \in Nat /\ a.usage.out > 1
  BY OutputAt
<1>5. /\ out(k) = IF l[k] = 0 THEN 0 ELSE IF l[k] = n THEN a.usage.out ELSE 1
      /\ out(k2) = IF l[k2] = 0 THEN 0 ELSE IF l[k2] = n THEN a.usage.out ELSE 1
  BY <1>2, <1>3
<1>6. Form(Reading(a, k), a, k \in I, out(k)) /\ Form(Reading(a, k2), a, k2 \in I, out(k2))
  BY <1>1
<1>7. k2 = n => (UnderstoodAnswer(a) <=> k2 \in I /\ l[k2] = n)
  OBVIOUS
<1> HIDE DEF out, n
<1>8. out(k) \in {0, 1, a.usage.out} /\ out(k2) \in {0, 1, a.usage.out} /\ out(k) <= out(k2)
  BY <1>1, <1>2, <1>4, <1>5
<1>9. out(k2) = a.usage.out <=> l[k2] = n
  BY <1>1, <1>2, <1>4, <1>5
<1>12. k2 \in I \/ out(k2) = 0 \/ a.dialect = "anthropic-openai"
  <2>1. k2 \in I \/ l[k2] = 0 \/ a.dialect = "anthropic-openai"
    BY <1>1 DEF n
  <2> QED
    BY <1>5, <2>1
<1> DEFINE in == k \in I
           in2 == k2 \in I
<1>10. in \in BOOLEAN /\ in2 \in BOOLEAN
  OBVIOUS
<1>11. /\ Form(Reading(a, k), a, in, out(k)) /\ Form(Reading(a, k2), a, in2, out(k2))
       /\ in => in2
       /\ k2 = Len(a.body) => (UnderstoodAnswer(a) <=> in2 /\ out(k2) = a.usage.out)
       /\ in2 \/ out(k2) = 0 \/ a.dialect = "anthropic-openai"
  BY <1>2, <1>6, <1>7, <1>9, <1>12 DEF n
<1> HIDE DEF in, in2
<1> QED
  BY <1>8, <1>10, <1>11 DEF ReadingsGrow

LEMMA SeenAtPrefix ==
  ASSUME NEW a \in Answers, NEW K, NEW i \in 0..Len(a.body)
  PROVE  SeenAt(a, i, K) \in 0..i
<1>1. SeenAt(a, i, K) \in 0..Cut(a, i) /\ Cut(a, i) \in 0..i
  BY SeenAtGrows
<1> QED
  BY <1>1

LEMMA AnthropicReads ==
  ASSUME NEW a \in Answers, a.streamed, a.dialect = "anthropic", NEW k \in 1..Len(a.body)
  PROVE  Form(Reading(a, k), a, TRUE, OutAt(a, SeenAt(a, k, {"message_delta"})))
<1> DEFINE b == a.body
           p == SubSeq(b, 1, k)
           j == Cut(a, k)
           e == SubSeq(b, 1, j)
           start == LastOf(e, {"message_start"})
           delta == LastOf(e, {"message_delta"})
<1>1. /\ b \in Seq(Events) /\ Len(b) \in Nat /\ Len(b) > 0
      /\ b[1].kind = "message_start" /\ b[1].split = a.split
      /\ \A i \in 2..Len(b) : b[i].kind # "message_start"
  BY BodiesOK DEF BodyOK, Opens
<1>2. j \in 1..k /\ Scanned(p) = e
  <2>1. k \in 0..Len(b) /\ k \in k..Len(b)
    BY <1>1
  <2>2. Opens(a)
    BY <1>1 DEF Opens
  <2>3. j \in 0..k /\ Scanned(p) = e /\ j > 0
    <3> HIDE DEF j
    <3>1. k > 0
      OBVIOUS
    <3>2. j = Cut(a, k)
      BY DEF j
    <3> QED
      BY <2>1, <2>2, <3>1, <3>2, CutsGrow
  <2> QED
    BY <2>3
<1>3. Len(e) = j /\ \A i \in 1..j : e[i] = b[i]
  BY <1>1, <1>2, PrefixOf
<1>4. start = Seen(a, j, {"message_start"}) /\ delta = Seen(a, j, {"message_delta"})
  BY DEF Seen
<1>5. j \in 0..Len(b) /\ j \in j..Len(b)
  BY <1>1, <1>2
<1>6. start = 1
  <2>1. start \in 0..j /\ (start # 0 => b[start].kind = "message_start")
    BY <1>4, <1>5, SeenGrows
  <2>2. \A i \in 1..j : b[i].kind \in {"message_start"} => i <= start
    BY <1>4, <1>5, SeenGrows
  <2> HIDE DEF start, j, b
  <2>3. 1 <= start
    BY <1>1, <1>2, <2>2
  <2>4. start \in 1..Len(b)
    <3>1. start \in 0..j /\ j \in 0..Len(b)
      BY <1>5, <2>1 DEF b
    <3> QED
      BY <1>1, <2>3, <3>1
  <2>5. start \notin 2..Len(b)
    BY <1>1, <2>1, <2>3
  <2> QED
    BY <1>1, <2>4, <2>5
<1>7. delta \in 0..j
  BY <1>4, <1>5, SeenGrows
<1>8. p # <<>>
  BY <1>1
<1>9. Reading(a, k) = AnthropicStream(p)
  BY <1>8 DEF Reading, ParseResponse
<1> HIDE DEF p, e, j
<1>10. AnthropicStream(p) = AnthropicMetrics(e[start].usage, e[start].split,
                              IF delta = 0 THEN 0 ELSE e[delta].usage.out)
  BY <1>2, <1>6 DEF AnthropicStream
<1>11. (IF delta = 0 THEN 0 ELSE e[delta].usage.out) = OutAt(a, delta)
  BY <1>3, <1>7 DEF OutAt
<1>12. e[start].split = a.split /\ e[start].usage = b[1].usage
  BY <1>1, <1>2, <1>3, <1>6
<1>13. AnthropicStream(p) = AnthropicMetrics(b[1].usage, a.split, OutAt(a, delta))
  BY <1>10, <1>11, <1>12
<1>14. AnthropicStream(p) = Full(a, OutAt(a, delta))
  BY <1>1, <1>13, EventUsage DEF Full
<1> QED
  BY <1>4, <1>9, <1>14 DEF Form, SeenAt, j

\* A parser that takes the output of the last event of one of the kinds K.
LEMMA SeenReader ==
  ASSUME NEW a \in Answers, NEW K, a.body[Len(a.body)].kind \in K, NEW I,
         \A i \in 0..Len(a.body) : Form(Reading(a, i), a, i \in I, OutAt(a, SeenAt(a, i, K))),
         \A i \in 0..Len(a.body), i2 \in 0..Len(a.body) : i <= i2 => (i \in I => i2 \in I),
         UnderstoodAnswer(a) <=> Len(a.body) \in I /\ \A i \in 1..Len(a.body) : ~a.body[i].long,
         \A i \in 0..Len(a.body) :
            i \in I \/ SeenAt(a, i, K) = 0 \/ a.dialect = "anthropic-openai",
         NEW k \in 0..Len(a.body), NEW k2 \in k..Len(a.body)
  PROVE  ReadingsGrow(a, k, k2)
<1> DEFINE n == Len(a.body)
           l == [i \in 0..n |-> SeenAt(a, i, K)]
<1>1. n \in Nat /\ n > 0
  BY BodiesOK DEF BodyOK
<1>2. SeenAt(a, n, K) = n <=> \A i \in 1..n : ~a.body[i].long
  BY SeenAtGrows
<1>3. \A i \in 0..n : SeenAt(a, i, K) \in 0..i
  BY SeenAtPrefix
<1>4. \A i \in 0..n, i2 \in 0..n : i <= i2 => SeenAt(a, i, K) <= SeenAt(a, i2, K)
  BY SeenAtGrows
<1>5. /\ \A i \in 0..n : Form(Reading(a, i), a, i \in I, OutAt(a, SeenAt(a, i, K)))
      /\ \A i \in 0..n, i2 \in 0..n : i <= i2 => (i \in I => i2 \in I)
      /\ \A i \in 0..n : i \in I \/ SeenAt(a, i, K) = 0 \/ a.dialect = "anthropic-openai"
  OBVIOUS
<1>6. UnderstoodAnswer(a) <=> n \in I /\ SeenAt(a, n, K) = n
  BY <1>2
<1> HIDE DEF n
<1>7. ASSUME NEW i \in 0..n PROVE Form(Reading(a, i), a, i \in I, OutAt(a, l[i]))
  <2>1. l[i] = SeenAt(a, i, K)
    OBVIOUS
  <2> QED
    BY <1>5, <2>1
<1>8. l \in [0..n -> 0..n] /\ l[n] = SeenAt(a, n, K)
  BY <1>1, <1>3
<1>9. \A i \in 0..n, i2 \in 0..n : i <= i2 => (i \in I => i2 \in I) /\ l[i] <= l[i2]
  BY <1>4, <1>5
<1>10. \A i \in 0..n : i \in I \/ l[i] = 0 \/ a.dialect = "anthropic-openai"
  BY <1>5
<1> HIDE DEF l
<1> QED
  BY <1>6, <1>7, <1>8, <1>9, <1>10, GrowingReader DEF n

\* Nothing is seen in nothing.
LEMMA NothingSeen ==
  ASSUME NEW a \in Answers, NEW K
  PROVE  SeenAt(a, 0, K) = 0 /\ OutAt(a, 0) = 0 /\ Form(Reading(a, 0), a, FALSE, 0)
<1>1. 0 \in 0..Len(a.body)
  BY BodiesOK DEF BodyOK
<1>2. SeenAt(a, 0, K) = 0
  BY <1>1, SeenAtPrefix
<1> QED
  BY <1>2, NothingRead DEF Form, OutAt

LEMMA AnthropicGrows ==
  ASSUME NEW a \in Answers, a.streamed, a.dialect = "anthropic",
         NEW k \in 0..Len(a.body), NEW k2 \in k..Len(a.body)
  PROVE  ReadingsGrow(a, k, k2)
<1> DEFINE n == Len(a.body)
           K == {"message_delta"}
<1>1. n \in Nat /\ n > 0 /\ a.body[n].kind \in K /\ a.body \in Seq(Events)
  BY BodiesOK DEF BodyOK, FinalKinds
<1>2. UnderstoodAnswer(a) <=> n \in 1..n /\ \A i \in 1..n : ~a.body[i].long
  BY <1>1 DEF UnderstoodAnswer
<1>3. ASSUME NEW i \in 0..n
      PROVE  Form(Reading(a, i), a, i \in 1..n, OutAt(a, SeenAt(a, i, K)))
  <2>1. CASE i = 0
    BY <2>1, NothingSeen DEF Form
  <2>2. CASE i > 0
    <3>1. i \in 1..n
      BY <1>1, <2>2
    <3> QED
      BY <3>1, AnthropicReads DEF Form
  <2> QED
    BY <1>1, <2>1, <2>2
<1>4. \A i \in 0..n, i2 \in 0..n : i <= i2 => (i \in 1..n => i2 \in 1..n)
  BY <1>1
<1>5. \A i \in 0..n : i \in 1..n \/ SeenAt(a, i, K) = 0
  <2>1. \A i \in 0..n : i \in 1..n \/ i = 0
    BY <1>1
  <2> QED
    BY <2>1, NothingSeen
<1> HIDE DEF K
<1> QED
  BY <1>1, <1>2, <1>3, <1>4, <1>5, SeenReader

Metrics(input, output, read) ==
  [input |-> input, output |-> output, read |-> read, create |-> 0, w5 |-> 0, w1 |-> 0]

Filled(input, output, read) ==
  [NoMetrics EXCEPT !.input = input, !.output = output, !.read = read]

LEMMA ThreeFields ==
  ASSUME NEW x, NEW y, NEW z
  PROVE  /\ Filled(x, y, z) = Metrics(x, y, z)
         /\ Partial(y) = Metrics(0, y, 0)
<1>1. [NoMetrics EXCEPT !.input = x] = Metrics(x, 0, 0)
  BY DEF NoMetrics, Metrics
<1>2. [Metrics(x, 0, 0) EXCEPT !.output = y] = Metrics(x, y, 0)
  BY DEF Metrics
<1>3. [Metrics(x, y, 0) EXCEPT !.read = z] = Metrics(x, y, z)
  BY DEF Metrics
<1>4. Filled(x, y, z)
        = [[[NoMetrics EXCEPT !.input = x] EXCEPT !.output = y] EXCEPT !.read = z]
  BY DEF Filled, NoMetrics
<1>5. Partial(y) = Metrics(0, y, 0)
  BY DEF Partial, NoMetrics, Metrics
<1> QED
  BY <1>1, <1>2, <1>3, <1>4, <1>5

LEMMA BuiltMetrics ==
  ASSUME NEW chat, NEW responses
  PROVE  BuildOpenAIMetrics([chat |-> chat, responses |-> responses])
           = IF responses.in > 0 \/ responses.out > 0
             THEN Metrics(responses.in, responses.out, responses.read)
             ELSE Metrics(chat.in, chat.out, chat.read)
<1> DEFINE report == [chat |-> chat, responses |-> responses]
           used == IF responses.in > 0 \/ responses.out > 0 THEN responses ELSE chat
<1>1. BuildOpenAIMetrics(report) = Filled(used.in, used.out, used.read)
  BY DEF BuildOpenAIMetrics, Filled
<1>2. BuildOpenAIMetrics(report) = Metrics(used.in, used.out, used.read)
  BY <1>1, ThreeFields
<1> QED
  BY <1>2

\* Without writes, a usage has an input, of which some was read, and an output.
LEMMA NoWrites ==
  ASSUME NEW u \in Counts, u.w5 + u.w1 = 0, NEW out
  PROVE  AnthropicMetrics(u, FALSE, out) = Metrics(u.fresh + u.read, out, u.read)
<1>1. u.fresh \in Nat /\ u.read \in Nat /\ u.w5 \in Nat /\ u.w1 \in Nat
  BY DEF Counts
<1>2. u.w5 = 0 /\ u.w1 = 0 /\ u.fresh + u.read + (u.w5 + u.w1) = u.fresh + u.read
  BY <1>1
<1>3. AnthropicMetrics(u, FALSE, out)
        = [input |-> u.fresh + u.read + (u.w5 + u.w1), output |-> out,
           read |-> u.read, create |-> u.w5 + u.w1,
           w5 |-> SplitCacheCreation(u, FALSE)[1], w1 |-> SplitCacheCreation(u, FALSE)[2]]
  BY DEF AnthropicMetrics
<1>4. SplitCacheCreation(u, FALSE)[1] = 0 /\ SplitCacheCreation(u, FALSE)[2] = 0
  BY <1>2 DEF SplitCacheCreation
<1>5. u.w5 + u.w1 = 0
  OBVIOUS
<1> QED
  BY <1>2, <1>3, <1>4, <1>5 DEF Metrics

\* The metrics of an OpenAI usage object, and of a delta of Anthropic.
LEMMA OpenAIMetrics ==
  ASSUME NEW u \in Counts, u.w5 + u.w1 = 0, u.out > 0, NEW kind
  PROVE  /\ kind \in {"chat", "responses"} =>
              BuildOpenAIMetrics(OpenAIReport(kind, u)) = AnthropicMetrics(u, FALSE, u.out)
         /\ kind = "message_delta" => BuildOpenAIMetrics(OpenAIReport(kind, u)) = Partial(u.out)
<1>1. u.fresh \in Nat /\ u.read \in Nat /\ u.w5 \in Nat /\ u.w1 \in Nat /\ u.out \in Nat
  BY DEF Counts
<1>2. AnthropicMetrics(u, FALSE, u.out) = Metrics(u.fresh + u.read, u.out, u.read)
  BY NoWrites
<1> DEFINE tokens == [in |-> u.fresh + u.read, out |-> u.out, read |-> u.read]
           none == [in |-> 0, out |-> 0, read |-> 0]
<1>4. CASE kind = "chat"
  <2>1. OpenAIReport(kind, u) = [chat |-> tokens, responses |-> none]
    BY <1>4 DEF OpenAIReport
  <2>2. BuildOpenAIMetrics(OpenAIReport(kind, u)) = Metrics(tokens.in, tokens.out, tokens.read)
    BY <2>1, BuiltMetrics
  <2> QED
    BY <1>2, <1>4, <2>2
<1>5. CASE kind = "responses"
  <2>1. OpenAIReport(kind, u) = [chat |-> none, responses |-> tokens]
    BY <1>5 DEF OpenAIReport
  <2>2. BuildOpenAIMetrics(OpenAIReport(kind, u)) = Metrics(tokens.in, tokens.out, tokens.read)
    BY <1>1, <2>1, BuiltMetrics
  <2> QED
    BY <1>2, <1>5, <2>2
<1>6. CASE kind = "message_delta"
  <2> DEFINE delta == [in |-> 0, out |-> u.out, read |-> 0]
  <2>1. OpenAIReport(kind, u) = [chat |-> none, responses |-> delta]
    BY <1>6 DEF OpenAIReport
  <2>2. BuildOpenAIMetrics(OpenAIReport(kind, u)) = Metrics(delta.in, delta.out, delta.read)
    BY <1>1, <2>1, BuiltMetrics
  <2> QED
    BY <1>6, <2>2, ThreeFields
<1> QED
  BY <1>4, <1>5, <1>6

\* An event reports a positive output, and writes only if the answer does.
LEMMA EventCounts ==
  ASSUME NEW a \in Answers, NEW l \in 1..Len(a.body)
  PROVE  /\ a.body[l].usage \in Counts
         /\ a.body[l].usage.out = OutAt(a, l) /\ OutAt(a, l) > 0 /\ OutAt(a, l) \in Nat
         /\ a.body[l].usage.w5 + a.body[l].usage.w1 = a.usage.w5 + a.usage.w1
         /\ a.body[l].usage.fresh = a.usage.fresh
<1>1. a.usage \in Counts /\ SoFar(a.usage) \in Counts
  BY AnswersTyped
<1>2. a.body[l].usage \in {a.usage, SoFar(a.usage)}
  BY EventUsage
<1>3. /\ SoFar(a.usage).w5 = a.usage.w5 /\ SoFar(a.usage).w1 = a.usage.w1
      /\ SoFar(a.usage).fresh = a.usage.fresh
  BY <1>1 DEF SoFar, Counts
<1>4. a.body[l].usage.out = OutAt(a, l)
  BY DEF OutAt
<1>5. Len(a.body) \in Nat /\ l \in 0..Len(a.body) /\ l # 0
  BY BodiesOK DEF BodyOK
<1>6. OutAt(a, l) > 0 /\ OutAt(a, l) \in Nat
  BY <1>5, OutputAt
<1> QED
  BY <1>1, <1>2, <1>3, <1>4, <1>6

OpenAIKinds == {"chat", "responses", "message_delta"}

LEMMA OpenAIReads ==
  ASSUME NEW a \in Answers, a.streamed, a.dialect \in {"openai", "anthropic-openai"},
         NEW k \in 0..Len(a.body)
  PROVE  LET l == SeenAt(a, k, OpenAIKinds)
         IN Form(Reading(a, k), a, a.dialect = "openai" /\ l # 0, OutAt(a, l))
<1> DEFINE b == a.body
           p == SubSeq(b, 1, k)
           l == SeenAt(a, k, OpenAIKinds)
<1>1. b \in Seq(Events) /\ Len(b) \in Nat /\ l \in 0..k
  BY BodiesOK, SeenAtPrefix DEF BodyOK
<1>2. CASE k = 0
  <2>1. l = 0
    BY <1>2, NothingSeen
  <2> QED
    BY <1>2, <2>1, NothingSeen
<1>3. CASE k > 0
  <2>1. Len(p) = k /\ p # <<>> /\ \A i \in 1..k : p[i] = b[i]
    BY <1>1, <1>3, PrefixOf
  <2>2. Reading(a, k) = OpenAIStream(p)
    BY <2>1 DEF Reading, ParseResponse
  <2>3. LastOf(Scanned(p), OpenAIKinds) = l
    <3>1. k \in k..Len(b)
      BY <1>1
    <3>2. Scanned(p) = SubSeq(b, 1, Cut(a, k))
      BY <3>1, CutsGrow
    <3> QED
      BY <3>2 DEF SeenAt, Seen
  <2> HIDE DEF p, l
  <2>4. OpenAIStream(p) = IF l = 0 THEN NoMetrics
                          ELSE BuildOpenAIMetrics(OpenAIReport(p[l].kind, p[l].usage))
    BY <2>3 DEF OpenAIStream, OpenAIKinds
  <2>5. CASE l = 0
    <3>1. Reading(a, k) = Partial(0) /\ OutAt(a, 0) = 0
      BY <2>2, <2>4, <2>5, NothingRead DEF OutAt
    <3> QED
      BY <2>5, <3>1 DEF Form, l
  <2>6. CASE l # 0
    <3> DEFINE u == b[l].usage
    <3>1. l \in 1..Len(b) /\ p[l] = b[l]
      BY <1>1, <2>1, <2>6 DEF l
    <3>2. u \in Counts /\ u.out = OutAt(a, l) /\ OutAt(a, l) > 0
          /\ u.w5 + u.w1 = a.usage.w5 + a.usage.w1
      BY <3>1, EventCounts
    <3>3. a.usage.w5 + a.usage.w1 = 0 /\ a.split = FALSE
      <4>1. a.usage.w5 \in Nat /\ a.usage.w1 \in Nat /\ a.usage.read \in Nat /\ a.split \in BOOLEAN
        BY AnswersTyped DEF Counts
      <4> QED
        BY <4>1, AnswersTyped DEF Reports
    <3>4. \A kind : /\ kind \in {"chat", "responses"} =>
                         BuildOpenAIMetrics(OpenAIReport(kind, u)) = AnthropicMetrics(u, FALSE, u.out)
                    /\ kind = "message_delta" =>
                         BuildOpenAIMetrics(OpenAIReport(kind, u)) = Partial(u.out)
      BY <3>2, <3>3, OpenAIMetrics
    <3>5. AnthropicMetrics(u, FALSE, u.out) = Full(a, OutAt(a, l))
      <4>2. \A split, out : AnthropicMetrics(a.body[l].usage, split, out)
                             = AnthropicMetrics(a.usage, split, out)
        BY <3>1, EventUsage
      <4>1. AnthropicMetrics(u, FALSE, u.out) = AnthropicMetrics(a.usage, FALSE, u.out)
        BY <4>2
      <4> QED
        BY <3>2, <3>3, <4>1 DEF Full
    <3>6. b[l].kind \in IF a.dialect = "openai" THEN {"chat", "responses"} ELSE {"message_delta"}
      <4>1. k \in 0..Len(b)
        OBVIOUS
      <4>2. b[l].kind \in OpenAIKinds
        <5>1. Cut(a, k) \in 0..Len(b) /\ Cut(a, k) \in Cut(a, k)..Len(b)
          BY <1>1, SeenAtGrows
        <5> QED
          BY <2>6, <5>1, SeenGrows DEF l, SeenAt
      <4>3. b[l].kind \in {"message_start", "content"} \cup FinalKinds(a.dialect)
        BY <3>1, BodiesOK DEF BodyOK
      <4> QED
        BY <4>2, <4>3 DEF OpenAIKinds, FinalKinds
    <3> HIDE DEF u
    <3>7. OpenAIStream(p) = BuildOpenAIMetrics(OpenAIReport(b[l].kind, u))
      BY <2>4, <2>6, <3>1 DEF u
    <3>8. OpenAIStream(p) = IF a.dialect = "openai" THEN Full(a, OutAt(a, l))
                            ELSE Partial(OutAt(a, l))
      BY <3>2, <3>4, <3>5, <3>6, <3>7
    <3> QED
      BY <2>2, <2>6, <3>8 DEF Form, l
  <2> QED
    BY <2>5, <2>6
<1> QED
  BY <1>1, <1>2, <1>3

LEMMA OpenAIGrows ==
  ASSUME NEW a \in Answers, a.streamed, a.dialect \in {"openai", "anthropic-openai"},
         NEW k \in 0..Len(a.body), NEW k2 \in k..Len(a.body)
  PROVE  ReadingsGrow(a, k, k2)
<1> DEFINE n == Len(a.body)
           K == OpenAIKinds
           I == { i \in 0..n : a.dialect = "openai" /\ SeenAt(a, i, K) # 0 }
<1>1. n \in Nat /\ n > 0 /\ a.body[n].kind \in K /\ a.body \in Seq(Events)
  BY BodiesOK DEF BodyOK, FinalKinds, OpenAIKinds
<1>2. UnderstoodAnswer(a) <=> n \in I /\ \A i \in 1..n : ~a.body[i].long
  <2>1. UnderstoodAnswer(a) <=> a.dialect = "openai" /\ \A i \in 1..n : ~a.body[i].long
    BY <1>1 DEF UnderstoodAnswer
  <2>2. SeenAt(a, n, K) = n <=> \A i \in 1..n : ~a.body[i].long
    BY <1>1, SeenAtGrows
  <2> QED
    BY <1>1, <2>1, <2>2
<1>3. ASSUME NEW i \in 0..n
      PROVE  Form(Reading(a, i), a, i \in I, OutAt(a, SeenAt(a, i, K)))
  BY OpenAIReads DEF Form
<1>4. \A i \in 0..n, i2 \in 0..n : i <= i2 => (i \in I => i2 \in I)
  <2>1. \A i \in 0..n, i2 \in 0..n : i <= i2 => SeenAt(a, i, K) <= SeenAt(a, i2, K)
    BY SeenAtGrows
  <2>2. \A i \in 0..n : SeenAt(a, i, K) \in 0..i
    BY SeenAtPrefix
  <2> HIDE DEF K, n
  <2>3. \A i \in 0..n : SeenAt(a, i, K) \in Nat
    BY <1>1, <2>2
  <2> QED
    BY <2>1, <2>3
<1>5. \A i \in 0..n : i \in I \/ SeenAt(a, i, K) = 0 \/ a.dialect = "anthropic-openai"
  OBVIOUS
<1> HIDE DEF K, I
<1> QED
  BY <1>1, <1>2, <1>3, <1>4, <1>5, SeenReader

\* A body without a line that is too long is scanned to its end.
LEMMA NothingCut ==
  ASSUME NEW a \in Answers, \A i \in 1..Len(a.body) : ~a.body[i].long,
         NEW k \in 0..Len(a.body)
  PROVE  Cut(a, k) = k
<1> DEFINE p == SubSeq(a.body, 1, k)
<1>1. a.body \in Seq(Events) /\ Len(a.body) \in Nat
  BY BodiesOK DEF BodyOK
<1>2. p \in Seq(Events) /\ Len(p) = k /\ \A i \in 1..k : p[i] = a.body[i]
  BY <1>1, PrefixOf
<1> HIDE DEF p
<1>3. ~\E i \in DOMAIN p : p[i].long
  BY <1>1, <1>2
<1> QED
  BY <1>2, <1>3 DEF Cut, ScanLen, p

LEMMA BedrockReads ==
  ASSUME NEW a \in Answers, a.streamed, a.dialect = "bedrock", NEW k \in 0..Len(a.body)
  PROVE  LET l == SeenAt(a, k, {"metadata"})
         IN Form(Reading(a, k), a, l # 0, OutAt(a, l))
<1> DEFINE b == a.body
           p == SubSeq(b, 1, k)
           l == SeenAt(a, k, {"metadata"})
<1>1. /\ b \in Seq(Events) /\ Len(b) \in Nat /\ l \in 0..k
      /\ \A i \in 1..Len(b) : ~b[i].long
  BY BodiesOK, SeenAtPrefix DEF BodyOK
<1>2. CASE k = 0
  <2>1. l = 0
    BY <1>2, NothingSeen
  <2> QED
    BY <1>2, <2>1, NothingSeen
<1>3. CASE k > 0
  <2>1. Len(p) = k /\ p # <<>> /\ \A i \in 1..k : p[i] = b[i]
    BY <1>1, <1>3, PrefixOf
  <2>2. Reading(a, k) = BedrockStream(p, FALSE)
    BY <2>1 DEF Reading, ParseResponse
  <2> DEFINE found == SelectLastInSeq(p, LAMBDA e :
                        e.kind = "metadata" /\ e.usage.fresh + e.usage.out > 0)
  <2>3. LastOf(p, {"metadata"}) = l
    BY <1>1, NothingCut DEF SeenAt, Seen
  <2>4. found = l
    <3> DEFINE I == { i \in 1..Len(p) : p[i].kind = "metadata"
                                         /\ p[i].usage.fresh + p[i].usage.out > 0 }
               J == { i \in 1..Len(p) : p[i].kind \in {"metadata"} }
    <3>1. found = IF I # {} THEN Max(I) ELSE 0
      BY DEF SelectLastInSeq
    <3>2. LastOf(p, {"metadata"}) = IF J # {} THEN Max(J) ELSE 0
      BY DEF LastOf, SelectLastInSeq
    <3>3. ASSUME NEW i \in 1..Len(p) PROVE p[i].usage.fresh + p[i].usage.out > 0
      <4>1. i \in 1..Len(b) /\ p[i] = b[i]
        BY <1>1, <2>1
      <4>2. b[i].usage \in Counts /\ b[i].usage.out > 0
        BY <4>1, EventCounts
      <4> QED
        BY <4>1, <4>2 DEF Counts
    <3>4. I = J
      BY <3>3
    <3> QED
      BY <2>3, <3>1, <3>2, <3>4
  <2> HIDE DEF p, l
  <2>5. BedrockStream(p, FALSE) = IF l = 0 THEN NoMetrics ELSE BuildBedrockMetrics(p[l].usage)
    BY <2>4 DEF BedrockStream
  <2>6. CASE l = 0
    <3>1. Reading(a, k) = Partial(0) /\ OutAt(a, 0) = 0
      BY <2>2, <2>5, <2>6, NothingRead DEF OutAt
    <3> QED
      BY <2>6, <3>1 DEF Form, l
  <2>7. CASE l # 0
    <3>1. l \in 1..Len(b) /\ p[l] = b[l]
      BY <1>1, <2>1, <2>7 DEF l
    <3>2. b[l].usage.out = OutAt(a, l)
      BY <3>1, EventCounts
    <3>3. a.split = FALSE
      BY AnswersTyped DEF Reports
    <3>4. \A split, out : AnthropicMetrics(b[l].usage, split, out)
                           = AnthropicMetrics(a.usage, split, out)
      BY <3>1, EventUsage
    <3>5. BedrockStream(p, FALSE) = Full(a, OutAt(a, l))
      BY <2>5, <2>7, <3>1, <3>2, <3>3, <3>4 DEF Full, BuildBedrockMetrics
    <3> QED
      BY <2>2, <2>7, <3>5 DEF Form, l
  <2> QED
    BY <2>6, <2>7
<1> QED
  BY <1>1, <1>2, <1>3

\* A part of the next event changes nothing: what is read of Bedrock comes last.
LEMMA TornReads ==
  ASSUME NEW a \in Answers, NEW k \in 0..(Len(a.body) - 1)
  PROVE  ParseResponse(a.dialect, SubSeq(a.body, 1, k), a.streamed, TRUE) = Reading(a, k)
<1> DEFINE p == SubSeq(a.body, 1, k)
<1>1. CASE k = 0
  <2>1. p = <<>>
    BY <1>1, BodiesOK DEF BodyOK
  <2> QED
    BY <2>1 DEF Reading, ParseResponse
<1>2. CASE ~(a.streamed /\ a.dialect = "bedrock")
  BY <1>2 DEF Reading, ParseResponse
<1>3. CASE k > 0 /\ a.streamed /\ a.dialect = "bedrock"
  <2> DEFINE K == {"metadata"}
             l == SeenAt(a, k, K)
  <2>1. /\ Len(a.body) \in Nat /\ a.body \in Seq(Events) /\ k \in 0..Len(a.body)
        /\ \A i \in 1..(Len(a.body) - 1) : a.body[i].kind \notin K
    BY <1>3, BodiesOK DEF BodyOK
  <2>2. Cut(a, k) \in 0..k /\ Cut(a, k) \in 0..Len(a.body)
    BY <2>1, CutsGrow
  <2>3. l \in 0..Cut(a, k) /\ (l # 0 => a.body[l].kind \in K)
    BY <2>2, SeenGrows DEF SeenAt
  <2> HIDE DEF l, K
  <2>4. l = 0
    BY <2>1, <2>2, <2>3
  <2>5. Form(Reading(a, k), a, FALSE, OutAt(a, 0))
    BY <1>3, <2>1, <2>4, BedrockReads DEF l, K
  <2>6. Reading(a, k) = NoMetrics
    BY <2>5, NothingRead DEF Form, OutAt
  <2>7. p # <<>>
    BY <1>3, <2>1, PrefixOf
  <2>8. ParseResponse(a.dialect, p, a.streamed, TRUE) = NoMetrics
    BY <1>3, <2>7 DEF ParseResponse, BedrockStream
  <2> QED
    BY <2>6, <2>8
<1>4. k = 0 \/ k > 0
  BY BodiesOK DEF BodyOK
<1> HIDE DEF p
<1> QED
  BY <1>1, <1>2, <1>3, <1>4 DEF p

LEMMA BedrockGrows ==
  ASSUME NEW a \in Answers, a.streamed, a.dialect = "bedrock",
         NEW k \in 0..Len(a.body), NEW k2 \in k..Len(a.body)
  PROVE  ReadingsGrow(a, k, k2)
<1> DEFINE n == Len(a.body)
           K == {"metadata"}
           I == { i \in 0..n : SeenAt(a, i, K) # 0 }
<1>1. /\ n \in Nat /\ n > 0 /\ a.body[n].kind \in K /\ a.body \in Seq(Events)
      /\ \A i \in 1..n : ~a.body[i].long
  BY BodiesOK DEF BodyOK, FinalKinds
<1>2. UnderstoodAnswer(a) <=> n \in I /\ \A i \in 1..n : ~a.body[i].long
  <2>1. SeenAt(a, n, K) = n
    BY <1>1, SeenAtGrows
  <2> QED
    BY <1>1, <2>1 DEF UnderstoodAnswer
<1>3. ASSUME NEW i \in 0..n
      PROVE  Form(Reading(a, i), a, i \in I, OutAt(a, SeenAt(a, i, K)))
  BY BedrockReads DEF Form
<1>4. \A i \in 0..n, i2 \in 0..n : i <= i2 => (i \in I => i2 \in I)
  <2>1. \A i \in 0..n, i2 \in 0..n : i <= i2 => SeenAt(a, i, K) <= SeenAt(a, i2, K)
    BY SeenAtGrows
  <2>2. \A i \in 0..n : SeenAt(a, i, K) \in 0..i
    BY SeenAtPrefix
  <2> HIDE DEF K, n
  <2>3. \A i \in 0..n : SeenAt(a, i, K) \in Nat
    BY <1>1, <2>2
  <2> QED
    BY <2>1, <2>3
<1>5. \A i \in 0..n : i \in I \/ SeenAt(a, i, K) = 0
  OBVIOUS
<1> HIDE DEF K, I
<1> QED
  BY <1>1, <1>2, <1>3, <1>4, <1>5, SeenReader

\* A parser that takes the last event it is given, whole.
LEMMA LastReader ==
  ASSUME NEW a \in Answers, \A i \in 1..Len(a.body) : ~a.body[i].long, UnderstoodAnswer(a),
         \A i \in 1..Len(a.body) : Reading(a, i) = Full(a, OutAt(a, i)),
         NEW k \in 0..Len(a.body), NEW k2 \in k..Len(a.body)
  PROVE  ReadingsGrow(a, k, k2)
<1> DEFINE n == Len(a.body)
           l == [i \in 0..n |-> i]
<1>1. n \in Nat /\ n > 0
  BY BodiesOK DEF BodyOK
<1>2. ASSUME NEW i \in 0..n
      PROVE  Form(Reading(a, i), a, i \in 1..n, OutAt(a, l[i]))
  <2>1. CASE i = 0
    BY <2>1, NothingSeen DEF Form
  <2>2. CASE i > 0
    <3>1. i \in 1..n
      BY <1>1, <2>2
    <3> QED
      BY <3>1 DEF Form
  <2> QED
    BY <1>1, <2>1, <2>2
<1>3. l \in [0..n -> 0..n] /\ l[n] = n /\ n \in 1..n
  BY <1>1
<1>4. \A i \in 0..n, i2 \in 0..n : i <= i2 => (i \in 1..n => i2 \in 1..n) /\ l[i] <= l[i2]
  BY <1>1
<1>5. \A i \in 0..n : i \in 1..n \/ l[i] = 0
  BY <1>1
<1> DEFINE I == 1..n
<1>6. UnderstoodAnswer(a) <=> n \in I /\ l[n] = n
  BY <1>3
<1>7. /\ \A i \in 0..n : Form(Reading(a, i), a, i \in I, OutAt(a, l[i]))
      /\ \A i \in 0..n, i2 \in 0..n : i <= i2 => (i \in I => i2 \in I) /\ l[i] <= l[i2]
      /\ \A i \in 0..n : i \in I \/ l[i] = 0
  BY <1>2, <1>4, <1>5
<1> HIDE DEF l, I
<1> QED
  BY <1>3, <1>6, <1>7, GrowingReader

LEMMA WholeGrows ==
  ASSUME NEW a \in Answers, Whole(a), NEW k \in 0..Len(a.body), NEW k2 \in k..Len(a.body)
  PROVE  ReadingsGrow(a, k, k2)
<1> DEFINE b == a.body
           p == SubSeq(b, 1, 1)
           u == a.usage
<1>1. /\ b \in Seq(Events) /\ Len(b) = 1 /\ ~b[1].long
      /\ b[1].kind \in FinalKinds(a.dialect) /\ b[1].usage = u /\ b[1].split = a.split
  BY BodiesOK DEF BodyOK, Whole
<1>2. p # <<>> /\ p[1] = b[1] /\ a.streamed = FALSE
  BY <1>1, AnswersTyped DEF Whole
<1>3. u \in Counts /\ u.out > 0 /\ OutAt(a, 1) = u.out
  <2>1. u \in Counts
    BY AnswersTyped
  <2> QED
    BY <1>1, <2>1, EventCounts
<1>4. /\ u.fresh \in Nat /\ u.read \in Nat /\ u.w5 \in Nat /\ u.w1 \in Nat
      /\ a.split \in BOOLEAN
  BY <1>3, AnswersTyped DEF Counts
<1>9. Full(a, OutAt(a, 1)) = AnthropicMetrics(u, a.split, u.out)
  BY <1>3 DEF Full
<1> HIDE DEF p, u
<1>5. ASSUME a.dialect = "anthropic" PROVE Reading(a, 1) = Full(a, OutAt(a, 1))
  <2>1. Reading(a, 1) = AnthropicMetrics(p[1].usage, p[1].split, p[1].usage.out)
    BY <1>2, <1>5 DEF Reading, ParseResponse, p
  <2> QED
    BY <1>1, <1>2, <1>9, <2>1 DEF u
<1>6. ASSUME a.dialect = "openai" PROVE Reading(a, 1) = Full(a, OutAt(a, 1))
  <2>1. Reading(a, 1) = BuildOpenAIMetrics(OpenAIReport(p[1].kind, p[1].usage))
    BY <1>2, <1>6 DEF Reading, ParseResponse, p
  <2>2. u.w5 + u.w1 = 0 /\ a.split = FALSE
    BY <1>4, <1>6, AnswersTyped DEF Reports, u
  <2>3. b[1].kind \in {"chat", "responses"}
    BY <1>1, <1>6 DEF FinalKinds
  <2>4. Reading(a, 1) = AnthropicMetrics(u, FALSE, u.out)
    BY <1>1, <1>2, <1>3, <2>1, <2>2, <2>3, OpenAIMetrics
  <2> QED
    BY <1>9, <2>2, <2>4
<1>7. ASSUME a.dialect = "anthropic-openai" PROVE Reading(a, 1) = Full(a, OutAt(a, 1))
  <2>1. Reading(a, 1) = BuildOpenAIMetrics(OpenAIReport("chat", Translated(p[1]).usage))
    BY <1>2, <1>7 DEF Reading, ParseResponse, p
  <2>2. u.read + u.w5 + u.w1 = 0 /\ a.split = FALSE
    BY <1>4, <1>7, AnswersTyped DEF Reports, u
  <2>3. u.read = 0 /\ u.w5 = 0 /\ u.w1 = 0 /\ u.w5 + u.w1 = 0
    BY <1>4, <2>2
  <2>4. Translated(b[1]).usage = u
    <3> DEFINE e == b[1]
    <3>1. e \in Events
      BY <1>1
    <3> HIDE DEF e
    <3>2. Translated(e).usage = [[[e.usage EXCEPT !.read = 0] EXCEPT !.w5 = 0] EXCEPT !.w1 = 0]
      BY <3>1 DEF Translated, Events, Counts
    <3>3. e.usage = u
      BY <1>1 DEF e
    <3>4. [u EXCEPT !.read = 0] = u /\ [u EXCEPT !.w5 = 0] = u /\ [u EXCEPT !.w1 = 0] = u
      BY <1>3, <2>3 DEF Counts
    <3> QED
      BY <3>2, <3>3, <3>4 DEF e
  <2>5. Reading(a, 1) = AnthropicMetrics(u, FALSE, u.out)
    BY <1>2, <1>3, <2>1, <2>3, <2>4, OpenAIMetrics
  <2> QED
    BY <1>9, <2>2, <2>5
<1>8. ASSUME a.dialect = "bedrock" PROVE Reading(a, 1) = Full(a, OutAt(a, 1))
  <2>1. Reading(a, 1) = AnthropicMetrics(p[1].usage, FALSE, p[1].usage.out)
    BY <1>2, <1>8 DEF Reading, ParseResponse, BuildBedrockMetrics, p
  <2>2. a.split = FALSE
    BY <1>4, <1>8, AnswersTyped DEF Reports
  <2> QED
    BY <1>1, <1>2, <1>9, <2>1, <2>2 DEF u
<1>10. UnderstoodAnswer(a)
  BY <1>1, <1>2 DEF UnderstoodAnswer
<1>11. Reading(a, 1) = Full(a, OutAt(a, 1))
  BY <1>5, <1>6, <1>7, <1>8, AnswersTyped DEF Whole
<1>12. \A i \in 1..Len(b) : i = 1 /\ ~b[i].long
  BY <1>1
<1> QED
  BY <1>10, <1>11, <1>12, LastReader

\* A JSON array of Gemini is read from its last chunk, data lines not at all.
LEMMA GeminiGrows ==
  ASSUME NEW a \in Answers, a.dialect = "gemini",
         NEW k \in 0..Len(a.body), NEW k2 \in k..Len(a.body)
  PROVE  ReadingsGrow(a, k, k2)
<1> DEFINE b == a.body
           n == Len(b)
<1>1. /\ b \in Seq(Events) /\ n \in Nat /\ n > 0
      /\ \A i \in 1..n : ~b[i].long
  BY BodiesOK DEF BodyOK
<1>2. a.streamed \in BOOLEAN
  BY AnswersTyped
<1>3. CASE a.streamed
  <2> DEFINE l == [i \in 0..n |-> 0]
             I == {}
  <2>1. ASSUME NEW i \in 0..n PROVE Form(Reading(a, i), a, i \in I, OutAt(a, l[i]))
    <3>1. Reading(a, i) = NoMetrics
      BY <1>3 DEF Reading, ParseResponse, GeminiStream
    <3>2. l[i] = 0 /\ OutAt(a, 0) = 0
      BY DEF OutAt
    <3> QED
      BY <3>1, <3>2, NothingRead DEF Form
  <2>2. l \in [0..n -> 0..n]
    BY <1>1
  <2>3. ~UnderstoodAnswer(a)
    BY <1>3 DEF UnderstoodAnswer
  <2>4. \A i \in 0..n, i2 \in 0..n : i <= i2 => (i \in I => i2 \in I) /\ l[i] <= l[i2]
    OBVIOUS
  <2>5. UnderstoodAnswer(a) <=> n \in I /\ l[n] = n
    BY <2>3
  <2>6. \A i \in 0..n : l[i] = 0
    OBVIOUS
  <2> HIDE DEF l, I
  <2> QED
    BY <2>1, <2>2, <2>4, <2>5, <2>6, GrowingReader
<1>4. CASE ~a.streamed
  <2>1. ASSUME NEW i \in 1..n PROVE Reading(a, i) = Full(a, OutAt(a, i))
    <3> DEFINE p == SubSeq(b, 1, i)
               u == b[i].usage
    <3>1. p \in Seq(Events) /\ Len(p) = i /\ p # <<>> /\ p[i] = b[i]
      <4>1. i \in 0..n
        BY <1>1
      <4> QED
        BY <1>1, <4>1, PrefixOf
    <3> HIDE DEF p
    <3>2. Reading(a, i) = BuildGeminiMetrics(p[i].usage)
      BY <1>4, <3>1 DEF Reading, ParseResponse, GeminiStream, Last, p
    <3>3. Reading(a, i) = Metrics(u.fresh + u.read, u.out, u.read)
      <4>1. BuildGeminiMetrics(u) = Filled(u.fresh + u.read, u.out, u.read)
        BY DEF BuildGeminiMetrics, Filled
      <4> QED
        BY <3>1, <3>2, <4>1, ThreeFields
    <3>4. /\ u \in Counts /\ u.w5 + u.w1 = a.usage.w5 + a.usage.w1
          /\ u.out = OutAt(a, i)
      BY EventCounts
    <3>5. a.usage.w5 + a.usage.w1 = 0 /\ a.split = FALSE
      <4>1. a.split \in BOOLEAN
        BY AnswersTyped
      <4> QED
        BY <4>1, AnswersTyped DEF Reports
    <3>6. AnthropicMetrics(u, FALSE, u.out) = Metrics(u.fresh + u.read, u.out, u.read)
      BY <3>4, <3>5, NoWrites
    <3>7. \A split, out : AnthropicMetrics(b[i].usage, split, out)
                           = AnthropicMetrics(a.usage, split, out)
      BY EventUsage
    <3>8. AnthropicMetrics(u, FALSE, u.out) = AnthropicMetrics(a.usage, FALSE, u.out)
      BY <3>7
    <3> QED
      BY <3>3, <3>4, <3>5, <3>6, <3>8 DEF Full
  <2>2. UnderstoodAnswer(a)
    BY <1>1, <1>4 DEF UnderstoodAnswer
  <2> QED
    BY <1>1, <2>1, <2>2, LastReader
<1> QED
  BY <1>2, <1>3, <1>4

\* Whatever the dialect.
LEMMA ReadingsAlwaysGrow ==
  ASSUME NEW a \in Answers, NEW k \in 0..Len(a.body), NEW k2 \in k..Len(a.body)
  PROVE  ReadingsGrow(a, k, k2)
<1>1. /\ a.streamed \in BOOLEAN
      /\ a.dialect \in {"anthropic", "openai", "anthropic-openai", "gemini", "bedrock"}
  BY AnswersTyped
<1>2. CASE a.dialect = "gemini"
  BY <1>2, GeminiGrows
<1>3. CASE a.dialect # "gemini" /\ ~a.streamed
  BY <1>3, WholeGrows DEF Whole
<1>4. CASE a.dialect = "anthropic" /\ a.streamed
  BY <1>4, AnthropicGrows
<1>5. CASE a.dialect \in {"openai", "anthropic-openai"} /\ a.streamed
  BY <1>5, OpenAIGrows
<1>6. CASE a.dialect = "bedrock" /\ a.streamed
  BY <1>6, BedrockGrows
<1> QED
  BY <1>1, <1>2, <1>3, <1>4, <1>5, <1>6

-----------------------------------------------------------------------------
(* What a reading costs.                                                   *)

InputBill(u) ==
  u.fresh * Price.input + u.read * Price.cached
    + (u.w5 * Price.input * 5) \div 4 + u.w1 * Price.input * 2
CostOf(m) == Calculate(m, Price)
CostRecords == [input : Int, cached : Int, creation : Int, output : Int, total : Int]

LEMMA PriceTyped ==
  /\ Price.input \in Nat /\ Price.cached \in Nat /\ Price.output \in Nat
  /\ Price.input > 0 /\ Price.output > 0
  /\ \E q \in Nat : q > 0 /\ Price.input = 4 * q
<1>1. /\ Price.input \in Nat /\ Price.cached \in Nat /\ Price.output \in Nat
      /\ Price.input > 0 /\ Price.output > 0
  BY AnswerRelayAssumption
<1>2. Price.input % 4 = 0
  BY AnswerRelayAssumption
<1> DEFINE q == Price.input \div 4
<1>3. Price.input = 4 * q /\ q \in Nat /\ q > 0
  BY <1>1, <1>2
<1> QED
  BY <1>1, <1>3

LEMMA Quarters ==
  ASSUME NEW x \in Nat, NEW y \in Nat, NEW q \in Nat
  PROVE  /\ ((x * 5 + y * 8) * (4 * q)) \div 4 = (x * (4 * q) * 5) \div 4 + y * (4 * q) * 2
         /\ (x * (4 * q) * 5) \div 4 \in Nat /\ y * (4 * q) * 2 \in Nat
<1> DEFINE X == x * q
           Y == y * q
<1>1. X \in Nat /\ Y \in Nat
  OBVIOUS
<1>2. /\ (x * 5 + y * 8) * (4 * q) = 4 * (5 * X + 8 * Y)
      /\ x * (4 * q) * 5 = 4 * (5 * X)
      /\ y * (4 * q) * 2 = 8 * Y
  OBVIOUS
<1> HIDE DEF X, Y
<1>3. (4 * (5 * X + 8 * Y)) \div 4 = 5 * X + 8 * Y /\ (4 * (5 * X)) \div 4 = 5 * X
  BY <1>1
<1> QED
  BY <1>1, <1>2, <1>3

LEMMA Products ==
  ASSUME NEW x \in Nat, NEW y \in Nat
  PROVE  x * y \in Nat /\ (x > 0 /\ y > 0 => x * y > 0) /\ 0 * y = 0
OBVIOUS

LEMMA Dearer ==
  ASSUME NEW x \in Nat, NEW y \in Nat, NEW p \in Nat, p > 0
  PROVE  (x <= y => x * p <= y * p) /\ (x < y => x * p < y * p)
OBVIOUS

LEMMA InputBilled ==
  ASSUME NEW u \in Counts
  PROVE  InputBill(u) \in Nat /\ (u.fresh > 0 => InputBill(u) > 0)
<1>1. u.fresh \in Nat /\ u.read \in Nat /\ u.w5 \in Nat /\ u.w1 \in Nat
  BY DEF Counts
<1>2. PICK q \in Nat : Price.input = 4 * q
  BY PriceTyped
<1>3. /\ (u.w5 * Price.input * 5) \div 4 \in Nat /\ u.w1 * Price.input * 2 \in Nat
  BY <1>1, <1>2, Quarters
<1>4. /\ u.fresh * Price.input \in Nat /\ u.read * Price.cached \in Nat
      /\ u.fresh > 0 => u.fresh * Price.input > 0
  BY <1>1, PriceTyped, Products
<1> DEFINE A == u.fresh * Price.input
           B == u.read * Price.cached
           C == (u.w5 * Price.input * 5) \div 4
           D == u.w1 * Price.input * 2
<1>5. InputBill(u) = A + B + C + D
  BY DEF InputBill
<1> HIDE DEF A, B, C, D
<1>6. A \in Nat /\ B \in Nat /\ C \in Nat /\ D \in Nat /\ (u.fresh > 0 => A > 0)
  BY <1>3, <1>4 DEF A, B, C, D
<1> QED
  BY <1>5, <1>6

LEMMA FullCost ==
  ASSUME NEW a \in Answers, NEW out \in Nat
  PROVE  /\ CostOf(Full(a, out)) \in CostRecords
         /\ CostOf(Full(a, out)).total = InputBill(a.usage) + out * Price.output
         /\ CostOf(Full(a, out)).input >= 0 /\ CostOf(Full(a, out)).creation >= 0
<1> DEFINE u == a.usage
           m == Full(a, out)
           five == IF m.w5 + m.w1 = 0 /\ m.create > 0 THEN m.create ELSE m.w5
<1>1. /\ u \in Counts
      /\ u.fresh \in Nat /\ u.read \in Nat /\ u.w5 \in Nat /\ u.w1 \in Nat
      /\ a.split \in BOOLEAN
  BY AnswersTyped DEF Counts
<1>2. a.split \/ u.w1 = 0
  BY <1>1, AnswersTyped DEF Reports
<1>3. /\ m.input = u.fresh + u.read + (u.w5 + u.w1) /\ m.output = out
      /\ m.read = u.read /\ m.create = u.w5 + u.w1
      /\ m.w5 = SplitCacheCreation(u, a.split)[1] /\ m.w1 = SplitCacheCreation(u, a.split)[2]
  BY DEF Full, AnthropicMetrics
<1>4. /\ a.split /\ u.w5 + u.w1 > 0 => m.w5 = u.w5 /\ m.w1 = u.w1
      /\ ~(a.split /\ u.w5 + u.w1 > 0) => m.w5 = u.w5 + u.w1 /\ m.w1 = 0
  BY <1>3 DEF SplitCacheCreation
<1> DEFINE cost == CostOf(m)
<1>5. cost = Cost((m.input - m.read - m.create) * Price.input, m.read * Price.cached,
                  ((five * 5 + m.w1 * 8) * Price.input) \div 4, m.output * Price.output)
  BY DEF CostOf, Calculate
<1> HIDE DEF u, m, cost
<1>6. five = u.w5 /\ m.w1 = u.w1
  BY <1>1, <1>2, <1>3, <1>4
<1>7. m.input - m.read - m.create = u.fresh
  BY <1>1, <1>3
<1> HIDE DEF five
<1>8. PICK q \in Nat : Price.input = 4 * q
  BY PriceTyped
<1> DEFINE A == u.fresh * Price.input
           B == u.read * Price.cached
           C == (u.w5 * Price.input * 5) \div 4
           D == u.w1 * Price.input * 2
           O == out * Price.output
<1>9. A \in Nat /\ B \in Nat /\ O \in Nat
  BY <1>1, PriceTyped, Products
<1>10. C \in Nat /\ D \in Nat /\ ((u.w5 * 5 + u.w1 * 8) * Price.input) \div 4 = C + D
  BY <1>1, <1>8, Quarters
<1>11. cost = Cost(A, B, C + D, O)
  BY <1>3, <1>5, <1>6, <1>7, <1>10
<1>12. InputBill(u) = A + B + C + D
  BY DEF InputBill
<1> HIDE DEF A, B, C, D, O
<1>13. /\ cost.input = A /\ cost.creation = C + D /\ cost.total = A + B + (C + D) + O
       /\ cost \in CostRecords
  BY <1>9, <1>10, <1>11 DEF Cost, CostRecords
<1>14. cost.total = InputBill(u) + O /\ cost.input >= 0 /\ cost.creation >= 0
  BY <1>9, <1>10, <1>12, <1>13
<1> QED
  BY <1>13, <1>14 DEF cost, m, u, O

LEMMA PartialCost ==
  ASSUME NEW out \in Nat
  PROVE  /\ CostOf(Partial(out)) \in CostRecords
         /\ CostOf(Partial(out)).total = out * Price.output
         /\ CostOf(Partial(out)).input >= 0 /\ CostOf(Partial(out)).creation >= 0
<1>1. Partial(out) = Metrics(0, out, 0)
  BY ThreeFields
<1> DEFINE O == out * Price.output
<1>2. O \in Nat
  BY PriceTyped, Products
<1>3. CostOf(Metrics(0, out, 0))
        = Cost(0 * Price.input, 0 * Price.cached, ((0 * 5 + 0 * 8) * Price.input) \div 4, O)
  BY DEF CostOf, Calculate, Metrics
<1>4. /\ 0 * Price.input = 0 /\ 0 * Price.cached = 0
      /\ ((0 * 5 + 0 * 8) * Price.input) \div 4 = 0
  BY PriceTyped
<1> HIDE DEF O
<1> QED
  BY <1>1, <1>2, <1>3, <1>4 DEF Cost, CostRecords, O

\* A longer prefix costs no less, none costs more than the answer does, and
\* the whole body costs what the answer does if and only if it is understood.
LEMMA CostsGrow ==
  ASSUME NEW a \in Answers, NEW k \in 0..Len(a.body), NEW k2 \in k..Len(a.body)
  PROVE  LET c == CostOf(Reading(a, k))
             c2 == CostOf(Reading(a, k2))
         IN /\ c2 \in CostRecords /\ c2.input >= 0 /\ c2.creation >= 0
            /\ c.total <= c2.total /\ c2.total <= Bill(a.usage, Price)
            /\ k2 = Len(a.body) => (c2.total = Bill(a.usage, Price) <=> UnderstoodAnswer(a))
<1> DEFINE u == a.usage
           c == CostOf(Reading(a, k))
           c2 == CostOf(Reading(a, k2))
           B == InputBill(u)
           P == Price.output
<1>1. PICK in \in BOOLEAN, in2 \in BOOLEAN, out \in {0, 1, u.out}, out2 \in {0, 1, u.out} :
        /\ Form(Reading(a, k), a, in, out) /\ Form(Reading(a, k2), a, in2, out2)
        /\ in => in2
        /\ out <= out2
        /\ k2 = Len(a.body) => (UnderstoodAnswer(a) <=> in2 /\ out2 = u.out)
        /\ ~in2 /\ out2 > 0 => a.dialect = "anthropic-openai"
  BY ReadingsAlwaysGrow DEF ReadingsGrow
<1>2. u \in Counts /\ u.out \in Nat /\ u.out > 1
  <2>1. Len(a.body) \in 0..Len(a.body)
    BY BodiesOK DEF BodyOK
  <2> QED
    BY <2>1, AnswersTyped, OutputAt
<1>3. out \in Nat /\ out2 \in Nat /\ out2 <= u.out
  BY <1>2
<1>4. a.dialect = "anthropic-openai" => B > 0
  <2>1. /\ u.fresh \in Nat /\ u.read \in Nat /\ u.w5 \in Nat /\ u.w1 \in Nat
        /\ u.fresh + u.read + u.w5 + u.w1 > 0
    BY <1>2, AnswersTyped, AnswerRelayAssumption DEF Counts
  <2>2. a.dialect = "anthropic-openai" => u.read + u.w5 + u.w1 = 0
    BY AnswersTyped DEF Reports
  <2>3. a.dialect = "anthropic-openai" => u.fresh > 0
    BY <2>1, <2>2
  <2> QED
    BY <1>2, <2>3, InputBilled
<1>5. B \in Nat /\ P \in Nat /\ P > 0
  BY <1>2, InputBilled, PriceTyped
<1>6. Bill(u, Price) = B + u.out * P
  <2>1. /\ u.fresh * Price.input \in Nat /\ u.read * Price.cached \in Nat /\ u.out * P \in Nat
    BY <1>2, <1>5, PriceTyped, Products DEF Counts
  <2>2. PICK q \in Nat : Price.input = 4 * q
    BY PriceTyped
  <2>3. (u.w5 * Price.input * 5) \div 4 \in Nat /\ u.w1 * Price.input * 2 \in Nat
    BY <1>2, <2>2, Quarters DEF Counts
  <2> DEFINE X1 == u.fresh * Price.input
             X2 == u.read * Price.cached
             X3 == u.out * P
             X4 == (u.w5 * Price.input * 5) \div 4
             X5 == u.w1 * Price.input * 2
  <2>4. Bill(u, Price) = X1 + X2 + X3 + X4 + X5 /\ B = X1 + X2 + X4 + X5
    BY DEF Bill, InputBill
  <2>5. X1 \in Nat /\ X2 \in Nat /\ X3 \in Nat /\ X4 \in Nat /\ X5 \in Nat
    BY <2>1, <2>3
  <2> HIDE DEF X1, X2, X3, X4, X5, B, P
  <2>6. Bill(u, Price) = B + X3
    BY <2>4, <2>5
  <2> QED
    BY <2>6 DEF X3
<1>7. c.total = (IF in THEN B ELSE 0) + out * P
  <2>1. CASE in
    BY <1>1, <1>3, <2>1, FullCost DEF Form
  <2>2. CASE ~in
    <3>1. out * P \in Nat
      BY <1>3, <1>5, Products
    <3>2. c.total = out * P
      BY <1>1, <1>3, <2>2, PartialCost DEF Form
    <3> QED
      BY <2>2, <3>1, <3>2
  <2> QED
    BY <2>1, <2>2
<1>8. /\ c2.total = (IF in2 THEN B ELSE 0) + out2 * P
      /\ c2 \in CostRecords /\ c2.input >= 0 /\ c2.creation >= 0
  <2>1. CASE in2
    BY <1>1, <1>3, <2>1, FullCost DEF Form
  <2>2. CASE ~in2
    <3>1. out2 * P \in Nat
      BY <1>3, <1>5, Products
    <3>2. /\ c2.total = out2 * P
          /\ c2 \in CostRecords /\ c2.input >= 0 /\ c2.creation >= 0
      BY <1>1, <1>3, <2>2, PartialCost DEF Form
    <3> QED
      BY <2>2, <3>1, <3>2
  <2> QED
    BY <2>1, <2>2
<1> DEFINE O == out * P
           O2 == out2 * P
           U == u.out * P
<1>9. /\ O \in Nat /\ O2 \in Nat /\ U \in Nat
      /\ O <= O2 /\ O2 <= U /\ (out2 # u.out => O2 < U)
  <2>1. O \in Nat /\ O2 \in Nat /\ U \in Nat
    BY <1>2, <1>3, <1>5, Products
  <2>2. O <= O2 /\ O2 <= U
    BY <1>1, <1>2, <1>3, <1>5, Dearer
  <2>3. out2 # u.out => O2 < U
    BY <1>2, <1>3, <1>5, Dearer
  <2> QED
    BY <2>1, <2>2, <2>3
<1>10. ~in2 /\ out2 = u.out => B > 0
  BY <1>1, <1>2, <1>4
<1> HIDE DEF O, O2, U, B, c, c2
<1>11. c.total = (IF in THEN B ELSE 0) + O /\ c2.total = (IF in2 THEN B ELSE 0) + O2
       /\ Bill(u, Price) = B + U
  BY <1>6, <1>7, <1>8 DEF O, O2, U
<1>12. c.total <= c2.total /\ c2.total <= Bill(u, Price)
  BY <1>1, <1>5, <1>9, <1>11
<1>13. k2 = Len(a.body) => (c2.total = Bill(u, Price) <=> UnderstoodAnswer(a))
  <2>1. in2 /\ out2 = u.out => O2 = U
    BY DEF O2, U
  <2>2. c2.total = Bill(u, Price) <=> in2 /\ out2 = u.out
    BY <1>5, <1>9, <1>10, <1>11, <2>1
  <2> QED
    BY <1>1, <2>2
<1> QED
  BY <1>8, <1>12, <1>13 DEF c, c2

-----------------------------------------------------------------------------
(* The way of an answer through the relay.                                 *)

Places == {"forward", "headers", "read", "write", "body", "respond", "ended",
           "finish", "done", "refused"}
Logged == pc \in {"finish", "done"}

\* Sequence s holds the events of t that follow the first k.
Follows(s, t, k) ==
  Len(s) + k <= Len(t) /\ \A i \in 1..Len(s) : s[i] = t[k + i]

Kept ==
  /\ captured \in Seq(Events) /\ buffered \in Seq(Events) /\ delivered \in Seq(Events)
  /\ pc = "forward" => answer = NoAnswer
  /\ pc # "forward" => answer \in Answers /\ Follows(captured, answer.body, 0)
  /\ pc \in {"forward", "headers", "body"} => captured = <<>>

\* What was captured is what was delivered, what the server still buffers, and,
\* while a chunk is being written, that chunk; after a failed write, more.
Flow ==
  /\ Follows(delivered, captured, 0) /\ Follows(buffered, captured, Len(delivered))
  /\ Len(buffered) <= BufferSize
  /\ pc \in {"forward", "headers", "body", "respond", "refused"} =>
       delivered = <<>> /\ buffered = <<>>
  /\ pc = "read" => Len(delivered) + Len(buffered) = Len(captured)
  /\ pc = "write" => Len(delivered) + Len(buffered) + 1 = Len(captured)

\* One row at most, of all that was captured.
Accounted ==
  /\ logging \in BOOLEAN /\ (logging => row = NoRow)
  /\ Logged <=> logging \/ row # NoRow
  /\ row # NoRow => row = Attributed(captured, FALSE)

RelayInv ==
  /\ pc \in Places
  /\ deadline \in {"armed", "cleared", "expired"}
  /\ client \in {"open", "gone"}
  /\ Kept /\ Flow /\ Accounted

\* Its cost is that of a reading of the answer.
LEMMA PrefixIsReading ==
  ASSUME answer \in Answers, NEW s \in Seq(Events), Follows(s, answer.body, 0)
  PROVE  /\ Len(s) \in 0..Len(answer.body)
         /\ s = SubSeq(answer.body, 1, Len(s))
         /\ Attributed(s, FALSE) = CostOf(Reading(answer, Len(s)))
<1> DEFINE b == answer.body
           k == Len(s)
           p == SubSeq(b, 1, k)
<1>1. b \in Seq(Events) /\ Len(b) \in Nat
  BY BodiesOK DEF BodyOK
<1>2. k \in 0..Len(b) /\ \A i \in 1..k : s[i] = b[i]
  BY <1>1 DEF Follows
<1>3. p \in Seq(Events) /\ Len(p) = k /\ \A i \in 1..k : p[i] = b[i]
  BY <1>1, <1>2, PrefixOf
<1>4. s = [i \in 1..k |-> s[i]] /\ p = [i \in 1..k |-> p[i]]
  BY <1>3
<1> HIDE DEF p
<1>5. s = p
  BY <1>2, <1>3, <1>4
<1>6. Attributed(s, FALSE) = CostOf(Reading(answer, k))
  BY <1>5 DEF Attributed, CostOf, Reading, p
<1> QED
  BY <1>2, <1>5, <1>6 DEF p

LEMMA TornCosts ==
  ASSUME answer \in Answers, captured \in Seq(Events), Follows(captured, answer.body, 0),
         captured # answer.body
  PROVE  Attributed(captured, TRUE) = Attributed(captured, FALSE)
<1> DEFINE b == answer.body
           k == Len(captured)
<1>1. b \in Seq(Events) /\ Len(b) \in Nat
  BY BodiesOK DEF BodyOK
<1>2. k \in 0..Len(b) /\ captured = SubSeq(b, 1, k)
  BY PrefixIsReading
<1>3. k # Len(b)
  <2> SUFFICES ASSUME k = Len(b) PROVE captured = b
    OBVIOUS
  <2>1. \A i \in 1..Len(b) : captured[i] = b[i]
    BY DEF Follows
  <2>2. captured = [i \in 1..Len(b) |-> captured[i]] /\ b = [i \in 1..Len(b) |-> b[i]]
    BY <1>1
  <2> QED
    BY <2>1, <2>2
<1>4. ParseResponse(answer.dialect, captured, answer.streamed, TRUE)
        = ParseResponse(answer.dialect, captured, answer.streamed, FALSE)
  <2>1. k \in 0..(Len(b) - 1)
    BY <1>1, <1>2, <1>3
  <2>2. ParseResponse(answer.dialect, SubSeq(b, 1, k), answer.streamed, TRUE)
          = Reading(answer, k)
    BY <2>1, TornReads
  <2>3. Reading(answer, k)
          = ParseResponse(answer.dialect, SubSeq(b, 1, k), answer.streamed, FALSE)
    BY DEF Reading
  <2> HIDE DEF b, k
  <2> QED
    BY <1>2, <2>2, <2>3
<1> QED
  BY <1>4 DEF Attributed

LEMMA PrefixFollows ==
  ASSUME NEW S, NEW s \in Seq(S), NEW t \in Seq(S), Follows(s, t, 0)
  PROVE  IsPrefix(s, t)
<1> DEFINE k == Len(s)
           p == SubSeq(t, 1, k)
<1>1. k \in 0..Len(t) /\ \A i \in 1..k : s[i] = t[i]
  BY DEF Follows
<1>2. p \in Seq(S) /\ Len(p) = k /\ \A i \in 1..k : p[i] = t[i]
  BY <1>1, PrefixOf
<1>3. s = [i \in 1..k |-> s[i]] /\ p = [i \in 1..k |-> p[i]]
  BY <1>2
<1>4. SubSeq(s, 1, k) = s
  OBVIOUS
<1> HIDE DEF p
<1>5. s = p
  BY <1>1, <1>2, <1>3
<1> QED
  BY <1>1, <1>4, <1>5 DEF IsPrefix, p

\* Sending n of the pending events moves them from what is pending.
LEMMA SendMoves ==
  ASSUME NEW c \in Seq(Events), NEW d \in Seq(Events), NEW p \in Seq(Events),
         Follows(d, c, 0), Follows(p, c, Len(d)), NEW n \in 0..Len(p)
  PROVE  LET d2 == d \o SubSeq(p, 1, n)
             p2 == SubSeq(p, n + 1, Len(p))
         IN /\ d2 \in Seq(Events) /\ Len(d2) = Len(d) + n /\ Follows(d2, c, 0)
            /\ p2 \in Seq(Events) /\ Len(p2) = Len(p) - n /\ Follows(p2, c, Len(d2))
            /\ Follows(<<>>, c, Len(d2))
<1> DEFINE q == SubSeq(p, 1, n)
           d2 == d \o q
           p2 == SubSeq(p, n + 1, Len(p))
<1>1. q \in Seq(Events) /\ Len(q) = n /\ \A i \in 1..n : q[i] = p[i]
  BY PrefixOf
<1>2. /\ p2 \in Seq(Events) /\ Len(p2) = Len(p) - n
      /\ \A i \in 1..(Len(p) - n) : p2[i] = p[n + i]
  OBVIOUS
<1> HIDE DEF q, p2
<1>3. /\ d2 \in Seq(Events) /\ Len(d2) = Len(d) + n
      /\ \A i \in 1..Len(d) : d2[i] = d[i]
      /\ \A i \in (Len(d) + 1)..(Len(d) + n) : d2[i] = q[i - Len(d)]
  <2>1. /\ d2 \in Seq(Events) /\ Len(d2) = Len(d) + Len(q)
        /\ \A i \in 1..(Len(d) + Len(q)) :
              d2[i] = IF i <= Len(d) THEN d[i] ELSE q[i - Len(d)]
    BY <1>1, ConcatProperties
  <2> HIDE DEF d2
  <2>2. Len(d) \in Nat /\ n \in Nat /\ Len(q) = n
    BY <1>1
  <2> QED
    BY <2>1, <2>2
<1> HIDE DEF d2
<1>4. /\ Len(d) + Len(p) <= Len(c) /\ \A i \in 1..Len(d) : d[i] = c[i]
      /\ \A i \in 1..Len(p) : p[i] = c[Len(d) + i]
  BY DEF Follows
<1>5. Follows(d2, c, 0)
  <2>1. ASSUME NEW i \in 1..Len(d2) PROVE d2[i] = c[0 + i]
    <3>1. CASE i \in 1..Len(d)
      BY <1>3, <1>4, <3>1
    <3>2. CASE i \in (Len(d) + 1)..(Len(d) + n)
      <4>1. d2[i] = q[i - Len(d)] /\ i - Len(d) \in 1..n /\ i - Len(d) \in 1..Len(p)
        BY <1>3, <3>2
      <4>2. d2[i] = p[i - Len(d)]
        BY <1>1, <4>1
      <4>3. p[i - Len(d)] = c[Len(d) + (i - Len(d))] /\ Len(d) + (i - Len(d)) = 0 + i
        BY <1>4, <4>1
      <4> QED
        BY <4>2, <4>3
    <3> QED
      BY <1>3, <3>1, <3>2
  <2> QED
    BY <1>3, <1>4, <2>1 DEF Follows
<1>6. Follows(p2, c, Len(d2))
  <2>1. ASSUME NEW i \in 1..Len(p2) PROVE p2[i] = c[Len(d2) + i]
    <3>1. p2[i] = p[n + i] /\ n + i \in 1..Len(p)
      BY <1>2
    <3>2. p[n + i] = c[Len(d) + (n + i)] /\ Len(d) + (n + i) = Len(d2) + i
      BY <1>3, <1>4, <3>1
    <3> QED
      BY <3>1, <3>2
  <2> QED
    BY <1>2, <1>3, <1>4, <2>1 DEF Follows
<1>7. Follows(<<>>, c, Len(d2))
  BY <1>3, <1>4 DEF Follows
<1> QED
  BY <1>2, <1>3, <1>5, <1>6, <1>7 DEF d2, q, p2

\* A list follows a longer list as it followed the shorter.
LEMMA FollowsLonger ==
  ASSUME NEW s \in Seq(Events), NEW t \in Seq(Events), NEW k \in Nat, Follows(s, t, k),
         NEW e \in Events
  PROVE  Follows(s, Append(t, e), k)
BY DEF Follows

LEMMA RelayInit == Init => RelayInv
<1> SUFFICES ASSUME Init PROVE RelayInv
  OBVIOUS
<1>1. BufferSize \in Nat
  BY AnswerRelayAssumption
<1>2. Kept
  BY DEF Init, Kept
<1>3. Flow
  BY <1>1 DEF Init, Flow, Follows
<1>4. Accounted
  BY DEF Init, Accounted, Logged
<1> QED
  BY <1>2, <1>3, <1>4 DEF Init, RelayInv, Places

LEMMA RelayStarts == RelayInv /\ UpstreamAnswers => RelayInv'
<1> SUFFICES ASSUME RelayInv, UpstreamAnswers PROVE RelayInv'
  OBVIOUS
<1> USE DEF RelayInv, UpstreamAnswers
<1>1. pc = "forward" /\ answer' \in Answers /\ pc' \in {"headers", "body"}
  OBVIOUS
<1>2. Kept'
  BY <1>1 DEF Kept, Follows
<1>3. Flow'
  BY <1>1 DEF Flow, Follows
<1>4. Accounted'
  BY <1>1 DEF Accounted, Logged
<1> QED
  BY <1>1, <1>2, <1>3, <1>4 DEF Places

LEMMA StartRelayStep == RelayInv /\ StartRelay => RelayInv'
<1> SUFFICES ASSUME RelayInv, StartRelay PROVE RelayInv'
  OBVIOUS
<1>1. /\ pc = "headers" /\ pc' = "read" /\ deadline' \in {"armed", "cleared", "expired"}
      /\ captured' = captured /\ buffered' = buffered /\ delivered' = delivered
      /\ answer' = answer /\ client' = client /\ logging' = logging /\ row' = row
  BY DEF StartRelay, RelayInv
<1>2. Kept'
  BY <1>1 DEF RelayInv, Kept, Follows
<1>3. Flow'
  BY <1>1 DEF RelayInv, Kept, Flow, Follows
<1>4. Accounted'
  BY <1>1 DEF RelayInv, Accounted, Logged
<1> QED
  BY <1>1, <1>2, <1>3, <1>4 DEF RelayInv, Places

LEMMA ReadChunkStep == RelayInv /\ ReadChunk => RelayInv'
<1> SUFFICES ASSUME RelayInv, ReadChunk PROVE RelayInv'
  OBVIOUS
<1> DEFINE b == answer.body
           e == b[Len(captured) + 1]
<1>1. /\ pc = "read" /\ pc' = "write" /\ Len(captured) < Len(b)
      /\ captured' = Append(captured, e)
      /\ answer' = answer /\ buffered' = buffered /\ delivered' = delivered
      /\ deadline' = deadline /\ client' = client /\ logging' = logging /\ row' = row
  BY DEF ReadChunk
<1>2. /\ answer \in Answers /\ captured \in Seq(Events) /\ buffered \in Seq(Events)
      /\ delivered \in Seq(Events) /\ Follows(captured, b, 0)
  BY <1>1 DEF RelayInv, Kept
<1>3. b \in Seq(Events) /\ Len(b) \in Nat /\ e \in Events
  <2>1. b \in Seq(Events) /\ Len(b) \in Nat
    BY <1>2, BodiesOK DEF BodyOK
  <2> QED
    BY <1>1, <1>2, <2>1
<1>4. Follows(captured', b, 0)
  <2> HIDE DEF b, e
  <2>1. /\ captured' \in Seq(Events) /\ Len(captured') = Len(captured) + 1
        /\ \A i \in 1..Len(captured) : captured'[i] = captured[i]
        /\ captured'[Len(captured) + 1] = e
    BY <1>1, <1>2, <1>3
  <2>2. ASSUME NEW i \in 1..Len(captured') PROVE captured'[i] = b[0 + i]
    <3>1. CASE i \in 1..Len(captured)
      BY <1>2, <2>1, <3>1 DEF Follows
    <3>2. CASE i = Len(captured) + 1
      <4>1. captured'[i] = e /\ 0 + i = Len(captured) + 1
        BY <1>2, <2>1, <3>2
      <4> QED
        BY <4>1 DEF e
    <3> QED
      BY <1>2, <2>1, <3>1, <3>2
  <2> QED
    BY <1>1, <1>2, <1>3, <2>1, <2>2 DEF Follows
<1>5. Kept'
  <2>1. captured' \in Seq(Events)
    BY <1>1, <1>2, <1>3
  <2> QED
    BY <1>1, <1>2, <1>4, <2>1 DEF Kept
<1>6. Flow'
  <2>1. Follows(delivered, captured, 0) /\ Follows(buffered, captured, Len(delivered))
        /\ Len(buffered) <= BufferSize /\ Len(delivered) + Len(buffered) = Len(captured)
    BY <1>1 DEF RelayInv, Flow
  <2>2. Follows(delivered, captured', 0) /\ Follows(buffered, captured', Len(delivered))
    BY <1>1, <1>2, <1>3, <2>1, FollowsLonger
  <2>3. Len(captured') = Len(captured) + 1
    BY <1>1, <1>2, <1>3
  <2> QED
    BY <1>1, <1>2, <2>1, <2>2, <2>3 DEF Flow
<1>7. Accounted'
  BY <1>1 DEF RelayInv, Accounted, Logged
<1> QED
  BY <1>1, <1>5, <1>6, <1>7 DEF RelayInv, Places

LEMMA WriteChunkStep == RelayInv /\ WriteChunk => RelayInv'
<1> SUFFICES ASSUME RelayInv, WriteChunk PROVE RelayInv'
  OBVIOUS
<1> DEFINE pending == Append(buffered, Last(captured))
           all == Len(pending)
           room == IF Asserts("Flush") THEN 0 ELSE BufferSize
<1>1. /\ pc = "write" /\ pc' \in {"read", "ended"}
      /\ answer' = answer /\ captured' = captured /\ deadline' = deadline
      /\ client' = client /\ logging' = logging /\ row' = row
  BY DEF WriteChunk
<1>2. \/ all <= room /\ buffered' = pending /\ pc' = "read" /\ delivered' = delivered
      \/ all > room /\ \E n \in (all - room)..all :
           Send(pending, n) /\ Keep(pending, n) /\ pc' = "read"
      \/ \E n \in 0..all : Send(pending, n) /\ buffered' = <<>> /\ pc' = "ended"
  <2>1. all \in Int /\ room \in Int
    BY <1>1, AnswerRelayAssumption DEF RelayInv, Kept
  <2> HIDE DEF all, room, pending
  <2>2. IF all <= room
          THEN buffered' = pending /\ pc' = "read" /\ UNCHANGED delivered
          ELSE IF Connected
            THEN \E n \in (all - room)..all :
                     Send(pending, n) /\ Keep(pending, n) /\ pc' = "read"
            ELSE \E n \in 0..all :
                     Send(pending, n) /\ buffered' = <<>> /\ pc' = "ended"
    BY DEF WriteChunk, all, room, pending
  <2>3. all <= room \/ all > room
    BY <2>1
  <2> QED
    BY <2>2, <2>3
<1>3. /\ captured \in Seq(Events) /\ buffered \in Seq(Events) /\ delivered \in Seq(Events)
      /\ Follows(delivered, captured, 0) /\ Follows(buffered, captured, Len(delivered))
      /\ Len(delivered) + Len(buffered) + 1 = Len(captured)
      /\ Len(buffered) <= BufferSize
  BY <1>1 DEF RelayInv, Kept, Flow
<1>4. room \in Nat /\ room <= BufferSize /\ BufferSize \in Nat
  BY AnswerRelayAssumption
<1>5. /\ pending \in Seq(Events) /\ all = Len(buffered) + 1
      /\ Follows(pending, captured, Len(delivered))
  <2>1. Last(captured) = captured[Len(captured)] /\ Last(captured) \in Events
    BY <1>3 DEF Last
  <2>2. /\ pending \in Seq(Events) /\ all = Len(buffered) + 1
        /\ \A i \in 1..Len(buffered) : pending[i] = buffered[i]
        /\ pending[Len(buffered) + 1] = captured[Len(captured)]
    BY <1>3, <2>1
  <2> HIDE DEF pending
  <2>3. ASSUME NEW i \in 1..all PROVE pending[i] = captured[Len(delivered) + i]
    <3>1. CASE i \in 1..Len(buffered)
      BY <1>3, <2>2, <3>1 DEF Follows
    <3>2. CASE i = Len(buffered) + 1
      <4>1. Len(delivered) + i = Len(captured)
        BY <1>3, <3>2
      <4> QED
        BY <2>2, <3>2, <4>1
    <3> QED
      BY <1>3, <2>2, <3>1, <3>2
  <2>4. Len(pending) + Len(delivered) <= Len(captured)
    BY <1>3, <2>2
  <2> QED
    BY <2>2, <2>3, <2>4 DEF Follows
<1> HIDE DEF pending, room
<1>6. /\ buffered' \in Seq(Events) /\ delivered' \in Seq(Events)
      /\ Follows(delivered', captured, 0) /\ Follows(buffered', captured, Len(delivered'))
      /\ Len(buffered') <= BufferSize
      /\ pc' = "read" => Len(delivered') + Len(buffered') = Len(captured)
  <2>1. CASE all <= room /\ buffered' = pending /\ pc' = "read" /\ delivered' = delivered
    BY <1>3, <1>4, <1>5, <2>1
  <2>2. ASSUME all > room,
               NEW n \in (all - room)..all, Send(pending, n), Keep(pending, n), pc' = "read"
        PROVE  <1>6
    <3>1. n \in 0..Len(pending)
      BY <1>4, <1>5, <2>2
    <3>2. /\ delivered' \in Seq(Events) /\ Len(delivered') = Len(delivered) + n
          /\ Follows(delivered', captured, 0)
          /\ buffered' \in Seq(Events) /\ Len(buffered') = all - n
          /\ Follows(buffered', captured, Len(delivered'))
      <4>1. /\ delivered' = delivered \o SubSeq(pending, 1, n)
            /\ buffered' = SubSeq(pending, n + 1, Len(pending))
        BY <2>2 DEF Send, Keep
      <4> QED
        BY <1>3, <1>5, <3>1, <4>1, SendMoves
    <3>3. Len(buffered') <= BufferSize /\ Len(delivered') + Len(buffered') = Len(captured)
      <4>1. all - n <= room
        BY <1>4, <1>5, <2>2
      <4>2. Len(buffered') <= room
        BY <3>2, <4>1
      <4>3. all \in Nat /\ n \in Nat /\ Len(delivered) \in Nat /\ Len(buffered) \in Nat
        BY <1>3, <1>5, <3>1
      <4>4. Len(delivered') + Len(buffered') = Len(delivered) + all
        BY <3>2, <4>3
      <4>5. Len(buffered') <= BufferSize
        BY <1>4, <3>2, <4>2
      <4> QED
        BY <1>3, <1>5, <4>3, <4>4, <4>5
    <3> QED
      BY <3>2, <3>3
  <2>3. ASSUME NEW n \in 0..all, Send(pending, n), buffered' = <<>>, pc' = "ended"
        PROVE  <1>6
    <3>1. n \in 0..Len(pending)
      OBVIOUS
    <3>2. /\ delivered' \in Seq(Events) /\ Follows(delivered', captured, 0)
          /\ Follows(<<>>, captured, Len(delivered'))
      BY <1>3, <1>5, <2>3, <3>1, SendMoves DEF Send
    <3> QED
      BY <1>4, <2>3, <3>2
  <2> QED
    BY <1>2, <2>1, <2>2, <2>3
<1>7. Kept'
  BY <1>1, <1>6 DEF RelayInv, Kept
<1>8. Flow'
  BY <1>1, <1>6 DEF Flow
<1>9. Accounted'
  BY <1>1 DEF RelayInv, Accounted, Logged, Attributed
<1> QED
  BY <1>1, <1>7, <1>8, <1>9 DEF RelayInv, Places

LEMMA ReadBodyStep == RelayInv /\ (ReadBody \/ ReadBodyFails \/ CopyEnds) => RelayInv'
<1> SUFFICES ASSUME RelayInv, ReadBody \/ ReadBodyFails \/ CopyEnds PROVE RelayInv'
  OBVIOUS
<1>1. /\ answer' = answer /\ buffered' = buffered /\ delivered' = delivered
      /\ deadline' = deadline /\ client' = client /\ logging' = logging /\ row' = row
      /\ \/ pc = "body" /\ pc' = "respond" /\ captured' = answer.body
         \/ pc = "body" /\ pc' = "refused" /\ captured' = captured
         \/ pc = "read" /\ pc' = "ended" /\ captured' = captured
  BY DEF ReadBody, ReadBodyFails, CopyEnds
<1>2. answer \in Answers /\ answer.body \in Seq(Events)
  <2>1. answer \in Answers
    BY <1>1 DEF RelayInv, Kept
  <2> QED
    BY <2>1, BodiesOK DEF BodyOK
<1>3. Follows(answer.body, answer.body, 0)
  BY <1>2 DEF Follows
<1>4. Kept'
  BY <1>1, <1>2, <1>3 DEF RelayInv, Kept
<1>5. Flow'
  <2>1. CASE pc = "body"
    <3>1. delivered = <<>> /\ buffered = <<>> /\ captured' \in Seq(Events)
      BY <1>1, <1>2, <2>1 DEF RelayInv, Kept, Flow
    <3> QED
      BY <1>1, <2>1, <3>1 DEF RelayInv, Flow, Follows
  <2>2. CASE pc = "read"
    BY <1>1, <2>2 DEF RelayInv, Flow
  <2> QED
    BY <1>1, <2>1, <2>2
<1>6. Accounted'
  BY <1>1 DEF RelayInv, Accounted, Logged
<1> QED
  BY <1>1, <1>4, <1>5, <1>6 DEF RelayInv, Places

LEMMA WriteResponseStep == RelayInv /\ WriteResponse => RelayInv'
<1> SUFFICES ASSUME RelayInv, WriteResponse PROVE RelayInv'
  OBVIOUS
<1>1. /\ pc = "respond" /\ pc' = "ended"
      /\ answer' = answer /\ captured' = captured /\ deadline' = deadline
      /\ client' = client /\ logging' = logging /\ row' = row
  BY DEF WriteResponse
<1>2. PICK n \in 0..Len(captured) :
        /\ Send(captured, n)
        /\ \/ Len(captured) - n <= BufferSize /\ Keep(captured, n)
           \/ buffered' = <<>>
  BY DEF WriteResponse
<1>3. captured \in Seq(Events) /\ delivered = <<>>
  BY <1>1 DEF RelayInv, Kept, Flow
<1>4. /\ delivered \in Seq(Events) /\ Follows(delivered, captured, 0)
      /\ Follows(captured, captured, Len(delivered))
  BY <1>3 DEF Follows
<1>5. /\ delivered' \in Seq(Events) /\ Follows(delivered', captured, 0)
      /\ Follows(<<>>, captured, Len(delivered'))
      /\ Keep(captured, n) => /\ buffered' \in Seq(Events) /\ Len(buffered') = Len(captured) - n
                              /\ Follows(buffered', captured, Len(delivered'))
  <2>1. LET d2 == delivered \o SubSeq(captured, 1, n)
            p2 == SubSeq(captured, n + 1, Len(captured))
        IN /\ d2 \in Seq(Events) /\ Follows(d2, captured, 0)
           /\ p2 \in Seq(Events) /\ Len(p2) = Len(captured) - n
           /\ Follows(p2, captured, Len(d2)) /\ Follows(<<>>, captured, Len(d2))
    <3>1. captured \in Seq(Events) /\ n \in 0..Len(captured)
      BY <1>2, <1>3
    <3> QED
      BY <1>4, <3>1, SendMoves
  <2> QED
    BY <1>2, <2>1 DEF Send, Keep
<1>6. /\ buffered' \in Seq(Events) /\ Follows(buffered', captured, Len(delivered'))
      /\ Len(buffered') <= BufferSize
  <2>1. CASE Len(captured) - n <= BufferSize /\ Keep(captured, n)
    BY <1>5, <2>1
  <2>2. CASE buffered' = <<>>
    BY <1>5, <2>2, AnswerRelayAssumption
  <2> QED
    BY <1>2, <2>1, <2>2
<1>7. Kept'
  BY <1>1, <1>5, <1>6 DEF RelayInv, Kept
<1>8. Flow'
  BY <1>1, <1>5, <1>6 DEF Flow
<1>9. Accounted'
  BY <1>1 DEF RelayInv, Accounted, Logged, Attributed
<1> QED
  BY <1>1, <1>7, <1>8, <1>9 DEF RelayInv, Places

LEMMA FinishStep == RelayInv /\ (LogAndFinish \/ FinishRequest) => RelayInv'
<1> SUFFICES ASSUME RelayInv, LogAndFinish \/ FinishRequest PROVE RelayInv'
  OBVIOUS
<1>1. /\ answer' = answer /\ captured' = captured /\ deadline' = deadline
      /\ client' = client /\ row' = row
  BY DEF LogAndFinish, FinishRequest
<1>2. CASE LogAndFinish
  <2>1. /\ pc = "ended" /\ pc' = "finish" /\ logging' = TRUE
        /\ buffered' = buffered /\ delivered' = delivered
    BY <1>2 DEF LogAndFinish
  <2>2. Kept'
    BY <1>1, <2>1 DEF RelayInv, Kept
  <2>3. Flow'
    BY <1>1, <2>1 DEF RelayInv, Flow
  <2>4. Accounted'
    BY <1>1, <2>1 DEF RelayInv, Accounted, Logged
  <2> QED
    BY <1>1, <2>1, <2>2, <2>3, <2>4 DEF RelayInv, Places
<1>3. CASE FinishRequest
  <2>1. pc = "finish" /\ pc' = "done" /\ logging' = logging /\ buffered' = <<>>
    BY <1>3 DEF FinishRequest
  <2>2. PICK n \in 0..Len(buffered) : Send(buffered, n)
    BY <1>3 DEF FinishRequest
  <2>3. /\ captured \in Seq(Events) /\ delivered \in Seq(Events) /\ buffered \in Seq(Events)
        /\ Follows(delivered, captured, 0) /\ Follows(buffered, captured, Len(delivered))
    BY DEF RelayInv, Kept, Flow
  <2>4. /\ delivered' \in Seq(Events) /\ Follows(delivered', captured, 0)
        /\ Follows(<<>>, captured, Len(delivered')) /\ <<>> \in Seq(Events)
    BY <2>2, <2>3, SendMoves DEF Send
  <2>5. Kept'
    BY <1>1, <2>1, <2>4 DEF RelayInv, Kept
  <2>6. Flow'
    BY <1>1, <2>1, <2>4, AnswerRelayAssumption DEF Flow
  <2>7. Accounted'
    BY <1>1, <2>1 DEF RelayInv, Accounted, Logged, Attributed
  <2> QED
    BY <1>1, <2>1, <2>5, <2>6, <2>7 DEF RelayInv, Places
<1> QED
  BY <1>2, <1>3

\* What logRequest writes is no missing row.
LEMMA LogRequestStep == RelayInv /\ LogRequest => RelayInv'
<1> SUFFICES ASSUME RelayInv, LogRequest PROVE RelayInv'
  OBVIOUS
<1>0. /\ logging /\ logging' = FALSE
      /\ \E torn \in {FALSE, captured # answer.body} : row' = Attributed(captured, torn)
      /\ pc' = pc /\ answer' = answer /\ captured' = captured /\ buffered' = buffered
      /\ delivered' = delivered /\ deadline' = deadline /\ client' = client
  BY DEF LogRequest
<1>2. /\ Logged /\ pc # "forward" /\ answer \in Answers
      /\ captured \in Seq(Events) /\ Follows(captured, answer.body, 0)
  BY <1>0 DEF RelayInv, Accounted, Kept, Logged
<1>1. row' = Attributed(captured, FALSE)
  <2>1. PICK torn \in {FALSE, captured # answer.body} : row' = Attributed(captured, torn)
    BY <1>0
  <2>2. CASE torn = FALSE
    BY <2>1, <2>2
  <2>3. CASE torn # FALSE
    <3>1. captured # answer.body /\ torn = TRUE
      BY <2>3
    <3> QED
      BY <1>2, <2>1, <3>1, TornCosts
  <2> QED
    BY <2>2, <2>3
<1>3. row' # NoRow
  <2> DEFINE k == Len(captured)
  <2>1. k \in 0..Len(answer.body) /\ Attributed(captured, FALSE) = CostOf(Reading(answer, k))
    BY <1>2, PrefixIsReading
  <2>2. k \in k..Len(answer.body)
    BY <2>1
  <2>3. Attributed(captured, FALSE) \in CostRecords
    BY <1>2, <2>1, <2>2, CostsGrow
  <2>4. NoRow \notin CostRecords
    BY AnswerRelayAssumption DEF CostRecords
  <2> QED
    BY <1>1, <2>3, <2>4
<1>4. Kept' /\ Flow'
  BY <1>0 DEF RelayInv, Kept, Flow
<1>5. Accounted'
  BY <1>0, <1>1, <1>2, <1>3 DEF Accounted, Logged, Attributed
<1> QED
  BY <1>0, <1>4, <1>5 DEF RelayInv

LEMMA ConnectionStep == RelayInv /\ (WriteTimeout \/ ClientLeaves \/ UNCHANGED vars) => RelayInv'
<1> SUFFICES ASSUME RelayInv, WriteTimeout \/ ClientLeaves \/ UNCHANGED vars PROVE RelayInv'
  OBVIOUS
<1>1. /\ pc' = pc /\ answer' = answer /\ captured' = captured /\ buffered' = buffered
      /\ delivered' = delivered /\ logging' = logging /\ row' = row
      /\ deadline' \in {deadline, "expired"} /\ client' \in {client, "gone"}
  BY DEF WriteTimeout, ClientLeaves, vars
<1>2. Kept' /\ Flow' /\ Accounted'
  BY <1>1 DEF RelayInv, Kept, Flow, Accounted, Logged, Attributed
<1> QED
  BY <1>1, <1>2 DEF RelayInv

LEMMA RelayAlways == Spec => []RelayInv
<1>1. RelayInv /\ [Next]_vars => RelayInv'
  BY RelayStarts, StartRelayStep, ReadChunkStep, WriteChunkStep, ReadBodyStep,
     WriteResponseStep, FinishStep, LogRequestStep, ConnectionStep DEF Next
<1> QED
  BY RelayInit, <1>1, PTL DEF Spec

-----------------------------------------------------------------------------
(* The theorems.                                                           *)

(* The relay keeps to its types: what was captured is always a prefix of   *)
(* the answer, and the server never buffers more than it has room for.     *)
THEOREM RelayTyped == Spec => []TypeOK
<1>1. RelayInv => TypeOK
  <2> SUFFICES ASSUME RelayInv PROVE TypeOK
    OBVIOUS
  <2>1. answer # NoAnswer => IsPrefix(captured, answer.body)
    <3> SUFFICES ASSUME answer # NoAnswer PROVE IsPrefix(captured, answer.body)
      OBVIOUS
    <3>1. /\ answer \in Answers /\ captured \in Seq(Events)
          /\ Follows(captured, answer.body, 0)
      BY DEF RelayInv, Kept
    <3>2. answer.body \in Seq(Events)
      BY <3>1, BodiesOK DEF BodyOK
    <3> QED
      BY <3>1, <3>2, PrefixFollows
  <2>2. answer = NoAnswer \/ answer \in Answers
    BY DEF RelayInv, Kept
  <2> QED
    BY <2>1, <2>2 DEF RelayInv, Places, Flow, Accounted, TypeOK
<1> QED
  BY <1>1, RelayAlways, PTL

\* The row of an answer is the cost of what was captured of it.
LEMMA RowIsReading ==
  ASSUME RelayInv, row # NoRow
  PROVE  /\ answer \in Answers /\ captured \in Seq(Events)
         /\ Follows(captured, answer.body, 0)
         /\ Len(captured) \in 0..Len(answer.body)
         /\ row = CostOf(Reading(answer, Len(captured)))
<1>1. Logged /\ row = Attributed(captured, FALSE)
  BY DEF RelayInv, Accounted
<1>2. answer \in Answers /\ captured \in Seq(Events) /\ Follows(captured, answer.body, 0)
  BY <1>1 DEF Logged, RelayInv, Kept
<1> QED
  BY <1>1, <1>2, PrefixIsReading

(* For every price and every usage, an answer that was captured whole has  *)
(* a row that costs what the upstream bills if and only if the parser of   *)
(* its dialect understands its body.                                       *)
THEOREM TokensPricedOnce == Spec => []EveryTokenPricedOnce
<1>1. RelayInv => EveryTokenPricedOnce
  <2> SUFFICES ASSUME RelayInv, row # NoRow, captured = answer.body
               PROVE  row.total = Bill(answer.usage, Price) <=> Understood
    BY DEF EveryTokenPricedOnce
  <2> DEFINE k == Len(captured)
  <2>1. answer \in Answers /\ k \in 0..Len(answer.body) /\ row = CostOf(Reading(answer, k))
    BY RowIsReading
  <2>2. k \in k..Len(answer.body) /\ k = Len(answer.body)
    BY <2>1
  <2>3. row.total = Bill(answer.usage, Price) <=> UnderstoodAnswer(answer)
    BY <2>1, <2>2, CostsGrow
  <2> QED
    BY <2>3 DEF UnderstoodAnswer, Understood
<1> QED
  BY <1>1, RelayAlways, PTL

(* Wherever an answer is cut, no part of its row is negative, and the row  *)
(* costs no more than the answer.                                          *)
THEOREM NeverOvercharged == Spec => []CutNeverOvercharged
<1>1. RelayInv => CutNeverOvercharged
  <2> SUFFICES ASSUME RelayInv, row # NoRow
               PROVE  /\ row.total <= Bill(answer.usage, Price)
                      /\ row.input >= 0 /\ row.creation >= 0
    BY DEF CutNeverOvercharged
  <2> DEFINE k == Len(captured)
  <2>1. answer \in Answers /\ k \in 0..Len(answer.body) /\ row = CostOf(Reading(answer, k))
    BY RowIsReading
  <2>2. k \in k..Len(answer.body)
    BY <2>1
  <2> QED
    BY <2>1, <2>2, CostsGrow
<1> QED
  BY <1>1, RelayAlways, PTL

(* What reached the client was captured before, and the row that accounts  *)
(* for it, written or being written, costs no less than it does.           *)
THEOREM DeliveryIsBilled == Spec => []DeliveredIsBilled
<1>1. RelayInv => DeliveredIsBilled
  <2> SUFFICES ASSUME RelayInv PROVE DeliveredIsBilled
    OBVIOUS
  <2>1. /\ captured \in Seq(Events) /\ delivered \in Seq(Events)
        /\ Follows(delivered, captured, 0)
    BY DEF RelayInv, Kept, Flow
  <2>2. IsPrefix(delivered, captured)
    BY <2>1, PrefixFollows
  <2>3. ASSUME row # NoRow PROVE Attributed(delivered, FALSE).total <= row.total
    <3> DEFINE d == Len(delivered)
               k == Len(captured)
    <3>1. /\ answer \in Answers /\ k \in 0..Len(answer.body)
          /\ row = CostOf(Reading(answer, k)) /\ Follows(captured, answer.body, 0)
      BY <2>3, RowIsReading
    <3>2. Follows(delivered, answer.body, 0)
      BY <2>1, <3>1 DEF Follows
    <3>3. d \in 0..Len(answer.body) /\ Attributed(delivered, FALSE) = CostOf(Reading(answer, d))
      BY <2>1, <3>1, <3>2, PrefixIsReading
    <3>4. k \in d..Len(answer.body)
      BY <2>1, <3>1, <3>3 DEF Follows
    <3> QED
      BY <3>1, <3>3, <3>4, CostsGrow
  <2>4. pc \in {"done", "refused"} /\ delivered # <<>> => logging \/ row # NoRow
    BY DEF RelayInv, Flow, Accounted, Logged
  <2> QED
    BY <2>2, <2>3, <2>4 DEF DeliveredIsBilled
<1> QED
  BY <1>1, RelayAlways, PTL

=============================================================================
