--------------------------- MODULE FileStoreProofs ---------------------------
(***************************************************************************)
(* Theorems about saving a file, for any number of savers, files, values,  *)
(* saves, faults and any size of the stream's buffer: among them that the  *)
(* protocol implements AtomicFile.  The first part is about the scanner    *)
(* and the texts: what is written is read back, and a text that was cut    *)
(* off is refused.  The second part, from SaversOK on, is about the saves. *)
(***************************************************************************)
EXTENDS FileStore, SequenceTheorems, WellFoundedInduction, TLAPS

-----------------------------------------------------------------------------
\* Least numbers, induction and what is defined step by step.

Less == {ss \in Nat \X Nat : ss[1] < ss[2]}

\* A set of numbers has a least one.
LEMMA SomeLeast ==
  ASSUME NEW S, S \subseteq Nat, S # {}
  PROVE  \E m \in S : \A k \in S : m <= k
<1>1. OpToRel(<, Nat) = Less
  BY Zenon DEF OpToRel, Less
<1>2. IsWellFoundedOn(Less, Nat)
  BY <1>1, NatLessThanWellFounded, Zenon
<1>3. PICK m \in S : \A k \in S : <<k, m>> \notin Less
  BY <1>2, WFMin
<1>4. ASSUME NEW k \in S PROVE m <= k
  <2>1. m \in Nat /\ k \in Nat /\ <<k, m>> \notin Less
    BY <1>3
  <2>2. ~(k < m)
    BY <2>1 DEF Less
  <2> QED BY <2>1, <2>2
<1> QED BY <1>4

\* Which Min chooses.
LEMMA LeastIn ==
  ASSUME NEW S, S \subseteq Nat, S # {}
  PROVE  Min(S) \in S /\ \A k \in S : Min(S) <= k
BY SomeLeast DEF Min

\* What holds at lo, and at the next number when it holds at one, holds up to hi.
LEMMA UpTo ==
  ASSUME NEW lo \in Nat, NEW hi \in Nat, NEW T, lo <= hi => lo \in T,
         \A n \in lo..(hi - 1) : n \in T => n + 1 \in T
  PROVE  \A n \in lo..hi : n \in T
<1> DEFINE Missing == {n \in lo..hi : n \notin T}
<1>1. ASSUME Missing # {} PROVE FALSE
  <2>1. PICK m \in Missing : \A k \in Missing : m <= k
    <3>1. Missing \subseteq Nat
      OBVIOUS
    <3> HIDE DEF Missing
    <3> QED BY <1>1, <3>1, SomeLeast
  <2>2. m \in lo..hi /\ m \notin T /\ m # lo
    OBVIOUS
  <2>3. m - 1 \in lo..(hi - 1) /\ (m - 1) + 1 = m /\ ~(m <= m - 1)
    BY <2>2
  <2>4. m - 1 \in T
    BY <2>1, <2>3
  <2> QED BY <2>2, <2>3, <2>4
<1> QED BY <1>1

\* A function may be defined by what it is at lo and, with states in S, by what
\* it is at the next number.
Follows(f, lo, hi, a, g) == f = [n \in lo..hi |-> IF n = lo THEN a ELSE g[n][f[n - 1]]]

\* Such a function can be continued,
LEMMA FollowsFurther ==
  ASSUME NEW lo \in Nat, NEW n \in Nat, lo <= n, NEW a, NEW g, NEW f, Follows(f, lo, n, a, g)
  PROVE  \E h : Follows(h, lo, n + 1, a, g)
<1> DEFINE h == [i \in lo..(n + 1) |-> IF i = n + 1 THEN g[n + 1][f[n]] ELSE f[i]]
<1>1. \A i \in lo..n : f[i] = IF i = lo THEN a ELSE g[i][f[i - 1]]
  BY DEF Follows
<1>2. ASSUME NEW i \in lo..(n + 1) PROVE h[i] = IF i = lo THEN a ELSE g[i][h[i - 1]]
  <2>1. CASE i = n + 1
    <3>1. i # lo /\ i - 1 = n /\ n \in lo..(n + 1) /\ n # n + 1
      BY <2>1
    <3>2. h[i - 1] = f[n] /\ h[i] = g[n + 1][f[n]]
      BY <2>1, <3>1
    <3> QED BY <2>1, <3>1, <3>2
  <2>2. CASE i # n + 1
    <3>1. i \in lo..n /\ h[i] = f[i]
      BY <2>2
    <3>2. CASE i = lo
      BY <1>1, <3>1, <3>2
    <3>3. CASE i # lo
      <4>1. i - 1 \in lo..(n + 1) /\ i - 1 # n + 1
        BY <3>1, <3>3
      <4>2. h[i - 1] = f[i - 1]
        BY <4>1
      <4> QED BY <1>1, <3>1, <3>3, <4>2
    <3> QED BY <3>2, <3>3
  <2> QED BY <2>1, <2>2
<1>3. h = [i \in lo..(n + 1) |-> h[i]]
  OBVIOUS
<1> HIDE DEF h
<1>4. h = [i \in lo..(n + 1) |-> IF i = lo THEN a ELSE g[i][h[i - 1]]]
  BY <1>2, <1>3
<1> QED BY <1>4 DEF Follows

\* exists up to any number,
LEMMA Definable ==
  ASSUME NEW lo \in Nat, NEW hi \in Nat, lo <= hi, NEW a, NEW g
  PROVE  \E f : Follows(f, lo, hi, a, g)
<1> DEFINE T == {n \in Nat : \E f : Follows(f, lo, n, a, g)}
<1>1. lo \in T
  <2> DEFINE f == [n \in lo..lo |-> a]
  <2>1. \A n \in lo..lo : n = lo
    OBVIOUS
  <2>2. f = [n \in lo..lo |-> IF n = lo THEN a ELSE g[n][f[n - 1]]]
    BY <2>1
  <2>3. Follows(f, lo, lo, a, g)
    BY <2>2 DEF Follows
  <2> QED BY <2>3
<1>2. ASSUME NEW n \in lo..(hi - 1), n \in T PROVE n + 1 \in T
  <2>1. n \in Nat /\ lo <= n
    OBVIOUS
  <2>2. PICK f : Follows(f, lo, n, a, g)
    BY <1>2
  <2> QED BY <2>1, <2>2, FollowsFurther
<1>3. hi \in T
  <2> HIDE DEF T
  <2> QED BY <1>1, <1>2, UpTo
<1> QED BY <1>3

\* and has its values in S.
LEMMA StaysIn ==
  ASSUME NEW lo \in Nat, NEW hi \in Nat, lo <= hi, NEW S, NEW a \in S,
         NEW g, \A n \in (lo + 1)..hi : g[n] \in [S -> S], NEW f, Follows(f, lo, hi, a, g)
  PROVE  \A n \in lo..hi : f[n] \in S
<1> DEFINE T == {n \in lo..hi : f[n] \in S}
<1>1. \A n \in lo..hi : f[n] = IF n = lo THEN a ELSE g[n][f[n - 1]]
  BY DEF Follows
<1>2. lo \in T
  BY <1>1
<1>3. ASSUME NEW n \in lo..(hi - 1), n \in T PROVE n + 1 \in T
  <2>1. n + 1 \in (lo + 1)..hi /\ n + 1 \in lo..hi /\ n + 1 # lo /\ (n + 1) - 1 = n
    OBVIOUS
  <2>2. g[n + 1] \in [S -> S] /\ f[n + 1] = g[n + 1][f[n]] /\ f[n] \in S
    BY <1>1, <1>3, <2>1
  <2>3. f[n + 1] \in S
    BY ONLY <2>2
  <2> QED BY <2>1, <2>3
<1>4. \A n \in lo..hi : n \in T
  <2> HIDE DEF T
  <2> QED BY <1>2, <1>3, UpTo
<1> QED BY <1>4

-----------------------------------------------------------------------------
\* The bracket matcher; the loader that takes a whole object.

\* The bracket matcher, character by character.
MatchStates ==
  [depth : Int, string : BOOLEAN, escaped : BOOLEAN, end : Nat, refused : BOOLEAN]

Opened == [depth |-> 1, string |-> FALSE, escaped |-> FALSE, end |-> NotFound, refused |-> FALSE]

ClosingOf(open) == IF open = LeftBrace THEN RightBrace ELSE "]"

MatchRun(f, text, k, limit) ==
  /\ f[k] = Opened
  /\ \A n \in (k + 1)..Len(text) :
       f[n] = MatchStep(text[k], ClosingOf(text[k]), limit, f[n - 1], text[n], n)
  /\ \A n \in k..Len(text) : f[n] \in MatchStates

\* What a step of the matcher leaves.
LEMMA MatchStepType ==
  ASSUME NEW open, NEW close, NEW limit \in Nat, NEW s \in MatchStates, NEW c, NEW n \in Nat
  PROVE  MatchStep(open, close, limit, s, c, n) \in MatchStates
<1>1. InString(s, c) \in MatchStates
  BY DEF InString, MatchStates
<1>2. [s EXCEPT !.string = TRUE] \in MatchStates
  BY DEF MatchStates
<1>3. ASSUME NEW d \in Int, NEW r \in BOOLEAN PROVE [s EXCEPT !.depth = d, !.refused = r] \in MatchStates
  BY DEF MatchStates
<1>4. ASSUME NEW d \in Int, NEW e \in Nat PROVE [s EXCEPT !.depth = d, !.end = e] \in MatchStates
  BY DEF MatchStates
<1>5. /\ s.depth \in Int /\ s.depth + 1 \in Int /\ s.depth - 1 \in Int
      /\ (s.depth >= limit) \in BOOLEAN /\ (IF s.depth = 1 THEN n ELSE NotFound) \in Nat
  BY DEF MatchStates, NotFound
<1>6. [s EXCEPT !.depth = s.depth + 1, !.refused = s.depth >= limit] \in MatchStates
  BY <1>3, <1>5, Zenon
<1>7. [s EXCEPT !.depth = s.depth - 1, !.end = IF s.depth = 1 THEN n ELSE NotFound] \in MatchStates
  BY <1>4, <1>5, Zenon
<1> QED BY <1>1, <1>2, <1>6, <1>7, Zenon DEF MatchStep

\* FindMatching is the end such a run has.
LEMMA Matches ==
  ASSUME NEW text, Len(text) \in Nat, NEW k \in 1..Len(text), NEW limit \in Nat
  PROVE  \E f : MatchRun(f, text, k, limit) /\ FindMatching(text, k, limit) = f[Len(text)].end
<1> DEFINE open == text[k]
           close == IF open = LeftBrace THEN RightBrace ELSE "]"
           start == [depth |-> 1, string |-> FALSE, escaped |-> FALSE,
                     end |-> NotFound, refused |-> FALSE]
           Step(s, n) == MatchStep(open, close, limit, s, text[n], n)
           g == [n \in (k + 1)..Len(text) |-> [s \in MatchStates |-> Step(s, n)]]
           after[n \in k..Len(text)] == IF n = k THEN start ELSE Step(after[n - 1], n)
<1>1. FindMatching(text, k, limit) = after[Len(text)].end
  BY DEF FindMatching
<1>2. k \in Nat /\ k <= Len(text) /\ k + 1 \in Nat
  OBVIOUS
<1>3. \A s \in MatchStates : \A n \in Nat : Step(s, n) \in MatchStates
  BY MatchStepType
<1>4. start \in MatchStates
  BY DEF MatchStates, NotFound
<1> HIDE DEF start, Step
<1>5. \A n \in (k + 1)..Len(text) : g[n] \in [MatchStates -> MatchStates]
  BY <1>2, <1>3
<1>6. PICK f : Follows(f, k, Len(text), start, g)
  BY <1>2, Definable
<1>7. \A n \in k..Len(text) : f[n] \in MatchStates
  <2> HIDE DEF g
  <2> QED BY <1>2, <1>4, <1>5, <1>6, StaysIn
<1>8. \A n \in k..Len(text) : f[n] = IF n = k THEN start ELSE Step(f[n - 1], n)
  <2> SUFFICES ASSUME NEW n \in k..Len(text) PROVE f[n] = IF n = k THEN start ELSE Step(f[n - 1], n)
    OBVIOUS
  <2>1. f[n] = IF n = k THEN start ELSE g[n][f[n - 1]]
    BY <1>6 DEF Follows
  <2>2. n # k => n - 1 \in k..Len(text) /\ n \in (k + 1)..Len(text)
    BY <1>2
  <2>3. n # k => g[n][f[n - 1]] = Step(f[n - 1], n)
    BY <1>7, <2>2
  <2> QED BY <2>1, <2>3
<1>9. f = [n \in k..Len(text) |-> IF n = k THEN start ELSE Step(f[n - 1], n)]
  BY <1>6, <1>8 DEF Follows
<1>10. \E h : h = [n \in k..Len(text) |-> IF n = k THEN start ELSE Step(h[n - 1], n)]
  BY <1>9
<1>11. after = [n \in k..Len(text) |-> IF n = k THEN start ELSE Step(after[n - 1], n)]
  BY <1>10
<1>12. PICK h : h = after
  OBVIOUS
<1> HIDE DEF after
<1>13. \A n \in k..Len(text) : h[n] = IF n = k THEN start ELSE Step(h[n - 1], n)
  <2>1. h = [n \in k..Len(text) |-> IF n = k THEN start ELSE Step(h[n - 1], n)]
    BY <1>11, <1>12, Zenon
  <2> QED BY ONLY <2>1
<1>14. \A n \in k..Len(text) : h[n] \in MatchStates
  <2> DEFINE T == {n \in k..Len(text) : h[n] \in MatchStates}
  <2>1. k \in T
    BY <1>2, <1>4, <1>13
  <2>2. ASSUME NEW n \in k..(Len(text) - 1), n \in T PROVE n + 1 \in T
    <3>1. n + 1 \in k..Len(text) /\ n + 1 # k /\ (n + 1) - 1 = n /\ n + 1 \in Nat
      BY <1>2
    <3>2. h[n + 1] = Step(h[n], n + 1)
      BY <1>13, <3>1
    <3> QED BY <1>3, <2>2, <3>1, <3>2
  <2>3. \A n \in k..Len(text) : n \in T
    <3> HIDE DEF T
    <3> QED BY <1>2, <2>1, <2>2, UpTo
  <2> QED BY <2>3
<1>15. MatchRun(h, text, k, limit)
  <2>1. h[k] = Opened
    <3>1. h[k] = start
      BY <1>2, <1>13
    <3> QED BY <3>1, Zenon DEF start, Opened
  <2>2. ASSUME NEW n \in (k + 1)..Len(text)
        PROVE  h[n] = MatchStep(text[k], ClosingOf(text[k]), limit, h[n - 1], text[n], n)
    <3>1. n \in k..Len(text) /\ n # k
      BY <1>2
    <3>2. h[n] = Step(h[n - 1], n)
      BY <1>13, <3>1
    <3> QED BY <3>2 DEF Step, ClosingOf
  <2> QED BY <1>14, <2>1, <2>2 DEF MatchRun
<1>16. FindMatching(text, k, limit) = h[Len(text)].end
  BY <1>1, <1>12
<1> QED BY <1>15, <1>16

\* The matcher stops at the closing bracket.
LEMMA MatchStepEnd ==
  ASSUME NEW open, NEW close, NEW limit \in Nat, NEW s \in MatchStates, NEW c, NEW n \in Nat
  PROVE  LET next == MatchStep(open, close, limit, s, c, n)
         IN  /\ s.end # NotFound => next = s
             /\ s.end = NotFound => next.end \in {NotFound, n}
<1>1. s.end # NotFound => MatchStep(open, close, limit, s, c, n) = s
  BY DEF MatchStep
<1>2. ASSUME s.end = NotFound PROVE MatchStep(open, close, limit, s, c, n).end \in {NotFound, n}
  <2>1. InString(s, c).end = NotFound
    BY <1>2 DEF InString, MatchStates
  <2>2. [s EXCEPT !.string = TRUE].end = NotFound
    BY <1>2 DEF MatchStates
  <2>3. \A d, r : [s EXCEPT !.depth = d, !.refused = r].end = NotFound
    BY <1>2 DEF MatchStates
  <2>4. \A d, e : [s EXCEPT !.depth = d, !.end = e].end = e
    BY DEF MatchStates
  <2>5. CASE s.refused
    BY <1>2, <2>5 DEF MatchStep
  <2>6. CASE ~s.refused /\ s.string
    BY <1>2, <2>1, <2>6 DEF MatchStep
  <2>7. CASE ~s.refused /\ ~s.string /\ c = Quote
    BY <1>2, <2>2, <2>7 DEF MatchStep
  <2>8. CASE ~s.refused /\ ~s.string /\ c # Quote /\ c = open
    <3>1. MatchStep(open, close, limit, s, c, n) = [s EXCEPT !.depth = s.depth + 1, !.refused = s.depth >= limit]
      BY <1>2, <2>8, Zenon DEF MatchStep
    <3> QED BY <2>3, <3>1, Zenon
  <2>9. CASE ~s.refused /\ ~s.string /\ c # Quote /\ c # open /\ c = close
    <3>1. PICK e : e = IF s.depth = 1 THEN n ELSE NotFound
      OBVIOUS
    <3>2. MatchStep(open, close, limit, s, c, n) = [s EXCEPT !.depth = s.depth - 1, !.end = e]
      BY <1>2, <2>9, <3>1, Zenon DEF MatchStep
    <3>3. MatchStep(open, close, limit, s, c, n).end = e
      BY <2>4, <3>2
    <3> QED BY <3>1, <3>3
  <2>10. CASE ~s.refused /\ ~s.string /\ c # Quote /\ c # open /\ c # close
    BY <1>2, <2>10 DEF MatchStep
  <2> QED BY <2>5, <2>6, <2>7, <2>8, <2>9, <2>10
<1> QED BY <1>1, <1>2

\* The bracket is closed at one place, seen from there on.
Since(place, n) == IF place # NotFound /\ place <= n THEN place ELSE NotFound

\* A run has one end, or none.
LEMMA MatchEnds ==
  ASSUME NEW text, Len(text) \in Nat, NEW k \in 1..Len(text), NEW limit \in Nat,
         NEW f, MatchRun(f, text, k, limit)
  PROVE  /\ f[Len(text)].end \in {NotFound} \cup (k + 1)..Len(text)
         /\ \A i \in k..Len(text) : f[i].end = Since(f[Len(text)].end, i)
<1> DEFINE T == {n \in k..Len(text) : /\ f[n].end \in {NotFound} \cup (k + 1)..n
                                      /\ \A i \in k..n : f[i].end = Since(f[n].end, i)}
<1>0. k \in Nat /\ Len(text) \in Nat /\ k <= Len(text)
  OBVIOUS
<1>1. k \in T
  <2>1. f[k].end = NotFound
    BY DEF MatchRun, Opened
  <2>2. \A i \in k..k : i = k
    BY <1>0
  <2> QED BY <1>0, <2>1, <2>2 DEF Since
<1>2. ASSUME NEW n \in k..(Len(text) - 1), n \in T PROVE n + 1 \in T
  <2>1. n + 1 \in (k + 1)..Len(text) /\ (n + 1) - 1 = n /\ n \in Nat /\ n + 1 \in k..Len(text)
    BY <1>0
  <2>2. /\ f[n + 1] = MatchStep(text[k], ClosingOf(text[k]), limit, f[n], text[n + 1], n + 1)
        /\ f[n] \in MatchStates
    BY <2>1 DEF MatchRun
  <2>3. /\ f[n].end # NotFound => f[n + 1] = f[n]
        /\ f[n].end = NotFound => f[n + 1].end \in {NotFound, n + 1}
    BY <2>1, <2>2, MatchStepEnd
  <2>4. \A i \in k..n : f[i].end = Since(f[n].end, i)
    BY <1>2
  <2>5. f[n].end \in {NotFound} \cup (k + 1)..n
    BY <1>2
  <2>6. f[n + 1].end \in {NotFound} \cup (k + 1)..(n + 1)
    BY <1>0, <2>1, <2>3, <2>5
  <2>7. ASSUME NEW i \in k..(n + 1) PROVE f[i].end = Since(f[n + 1].end, i)
    <3>1. CASE i = n + 1
      BY <1>0, <2>1, <2>6, <3>1 DEF Since, NotFound
    <3>2. CASE i # n + 1
      <4>1. i \in k..n /\ f[i].end = Since(f[n].end, i)
        BY <1>0, <2>1, <2>4, <3>2
      <4>2. CASE f[n].end # NotFound
        BY <2>3, <4>1, <4>2
      <4>3. CASE f[n].end = NotFound
        BY <1>0, <2>1, <2>3, <4>1, <4>3 DEF Since
      <4> QED BY <4>2, <4>3
    <3> QED BY <3>1, <3>2
  <2> QED BY <2>1, <2>6, <2>7
<1>3. \A n \in k..Len(text) : n \in T
  <2> HIDE DEF T
  <2> QED BY <1>0, <1>1, <1>2, UpTo
<1>4. Len(text) \in T
  BY <1>0, <1>3
<1> QED BY <1>4

\* A text and the text cut off behind its n-th character.
Cut(t, text, n) == Len(t) = n /\ t = [i \in 1..n |-> text[i]]

\* In a text that was cut off the bracket is closed at the same place, or nowhere.
LEMMA CutMatch ==
  ASSUME NEW text, Len(text) \in Nat, NEW k \in 1..Len(text), NEW limit \in Nat,
         NEW n \in k..Len(text), NEW t, Cut(t, text, n)
  PROVE  /\ FindMatching(text, k, limit) \in {NotFound} \cup (k + 1)..Len(text)
         /\ FindMatching(t, k, limit) = Since(FindMatching(text, k, limit), n)
<1>0. k \in Nat /\ k <= n /\ n \in Nat /\ k \in 1..Len(t) /\ Len(t) = n /\ t[k] = text[k]
  BY DEF Cut
<1>1. PICK f : MatchRun(f, text, k, limit) /\ FindMatching(text, k, limit) = f[Len(text)].end
  BY Matches
<1>2. PICK h : MatchRun(h, t, k, limit) /\ FindMatching(t, k, limit) = h[n].end
  BY <1>0, Matches
<1> DEFINE T == {i \in k..n : h[i] = f[i]}
<1>3. k \in T
  BY <1>0, <1>1, <1>2 DEF MatchRun
<1>4. ASSUME NEW i \in k..(n - 1), i \in T PROVE i + 1 \in T
  <2>1. /\ i + 1 \in (k + 1)..n /\ i + 1 \in (k + 1)..Len(text) /\ i + 1 \in k..n
        /\ (i + 1) - 1 = i /\ i + 1 \in 1..n
    BY <1>0
  <2>2. f[i + 1] = MatchStep(text[k], ClosingOf(text[k]), limit, f[i], text[i + 1], i + 1)
    BY <1>1, <2>1 DEF MatchRun
  <2>3. h[i + 1] = MatchStep(t[k], ClosingOf(t[k]), limit, h[i], t[i + 1], i + 1)
    BY <1>0, <1>2, <2>1 DEF MatchRun
  <2>4. t[i + 1] = text[i + 1] /\ h[i] = f[i]
    BY <1>4, <2>1 DEF Cut
  <2>5. h[i + 1] = f[i + 1]
    BY <1>0, <2>2, <2>3, <2>4
  <2> QED BY <2>1, <2>5
<1>5. n \in T
  <2>1. \A i \in k..n : i \in T
    <3> HIDE DEF T
    <3> QED BY <1>0, <1>3, <1>4, UpTo
  <2> QED BY <1>0, <2>1
<1>6. h[n] = f[n]
  BY <1>5
<1> QED BY <1>0, <1>1, <1>2, <1>6, MatchEnds

(***************************************************************************)
(* config_load (src/core/config.c) takes no text that is the proper        *)
(* beginning of one it takes: a file that was cut short is refused.        *)
(***************************************************************************)
THEOREM NoBeginningIsAccepted ==
  ASSUME NEW text, Len(text) \in Nat, ConfigAccepts(text),
         NEW n \in 0..(Len(text) - 1), NEW t, Cut(t, text, n)
  PROVE  ~ConfigAccepts(t)
<1>1. CASE n = 0
  <2>1. t = <<>>
    <3>1. t = [i \in 1..0 |-> text[i]]
      BY <1>1 DEF Cut
    <3>2. PICK S : S = {text[i] : i \in 1..0}
      OBVIOUS
    <3>3. t \in [1..0 -> S]
      BY <3>1, <3>2
    <3>4. t \in Seq(S) /\ Len(t) = 0
      BY <1>1, <3>3, SeqDef DEF Cut
    <3> QED BY <3>4, EmptySeq
  <2> QED BY <2>1 DEF ConfigAccepts
<1>2. CASE n # 0
  <2>1. n \in 1..Len(text) /\ 1 \in 1..Len(text) /\ n # Len(text) /\ DepthLimit \in Nat
    BY <1>2, ScanAssumption
  <2>2. FindMatching(text, 1, DepthLimit) = Len(text)
    BY DEF ConfigAccepts
  <2>3. FindMatching(t, 1, DepthLimit) = Since(FindMatching(text, 1, DepthLimit), n)
    BY <2>1, CutMatch
  <2>4. Since(Len(text), n) # n /\ Len(t) = n
    BY <2>1 DEF Since, Cut, NotFound
  <2> QED BY <2>2, <2>3, <2>4 DEF ConfigAccepts
<1> QED BY <1>1, <1>2

-----------------------------------------------------------------------------
\* Texts, and where one stands in another.

Alphabet ==
  Characters \cup {LeftBrace, RightBrace, "[", "]", ":", Comma, "n", "2", "V", "D", "T", "M", Quote, Escape, Newline}

Strings == Seq(Alphabet)

\* Texts of one character,
LEMMA Single ==
  ASSUME NEW c \in Alphabet
  PROVE  <<c>> \in Strings /\ Len(<<c>>) = 1 /\ <<c>>[1] = c
BY DEF Strings

\* and of two.
LEMMA Pairs ==
  ASSUME NEW c \in Alphabet, NEW d \in Alphabet
  PROVE  <<c, d>> \in Strings /\ Len(<<c, d>>) = 2 /\ <<c, d>>[1] = c /\ <<c, d>>[2] = d
BY DEF Strings

\* The characters the scanner knows are characters.
LEMMA Marks ==
  {LeftBrace, RightBrace, "[", "]", ":", Comma, "n", "2", "V", "D", "T", "M", Quote, Escape, Newline} \subseteq Alphabet
BY DEF Alphabet

\* The keys are texts.
LEMMA Keys ==
  /\ VersionKey \in Strings /\ DateKey \in Strings /\ TriggersKey \in Strings
  /\ MemberKey \in Strings /\ FormatVersion \in Strings
BY DEF VersionKey, DateKey, TriggersKey, MemberKey, FormatVersion, Alphabet, Strings

\* The text w behind the p-th character of t.
At(t, p, w) == p + Len(w) <= Len(t) /\ \A i \in 1..Len(w) : t[p + i] = w[i]

\* Where two texts stand one behind the other, each stands at its place.
LEMMA AtBoth ==
  ASSUME NEW t, NEW p \in Nat, NEW u \in Strings, NEW w \in Strings, Len(t) \in Nat,
         NEW v, v = u \o w
  PROVE  /\ v \in Strings /\ Len(v) = Len(u) + Len(w)
         /\ At(t, p, v) => At(t, p, u) /\ At(t, p + Len(u), w)
<1>1. /\ Len(u) \in Nat /\ Len(w) \in Nat
  BY LenProperties DEF Strings
<1>2. /\ v \in Strings /\ Len(v) = Len(u) + Len(w)
      /\ \A i \in 1..(Len(u) + Len(w)) : v[i] = IF i <= Len(u) THEN u[i] ELSE w[i - Len(u)]
  BY ConcatProperties DEF Strings
<1>3. ASSUME At(t, p, v) PROVE At(t, p, u) /\ At(t, p + Len(u), w)
  <2>1. /\ p + (Len(u) + Len(w)) <= Len(t)
        /\ \A i \in 1..(Len(u) + Len(w)) : t[p + i] = v[i]
    BY <1>2, <1>3 DEF At
  <2>2. ASSUME NEW i \in 1..Len(u) PROVE t[p + i] = u[i]
    <3>1. i \in 1..(Len(u) + Len(w)) /\ i <= Len(u)
      BY <1>1
    <3> QED BY <1>2, <2>1, <3>1
  <2>3. ASSUME NEW i \in 1..Len(w) PROVE t[p + Len(u) + i] = w[i]
    <3>1. PICK j : j = Len(u) + i
      OBVIOUS
    <3>2. j \in 1..(Len(u) + Len(w)) /\ ~(j <= Len(u)) /\ j - Len(u) = i /\ p + j = p + Len(u) + i
      BY <1>1, <3>1
    <3>3. t[p + j] = w[j - Len(u)]
      BY <1>2, <2>1, <3>2
    <3> QED BY <3>2, <3>3
  <2> QED BY <1>1, <2>1, <2>2, <2>3 DEF At
<1> QED BY <1>2, <1>3

LEMMA AtLeft ==
  ASSUME NEW t, NEW p \in Nat, NEW u \in Strings, NEW w \in Strings, Len(t) \in Nat,
         NEW v, v = u \o w, At(t, p, v)
  PROVE  At(t, p, u)
BY AtBoth

LEMMA AtRight ==
  ASSUME NEW t, NEW p \in Nat, NEW u \in Strings, NEW w \in Strings, Len(t) \in Nat,
         NEW v, v = u \o w, At(t, p, v)
  PROVE  At(t, p + Len(u), w)
BY AtBoth

\* Texts put together are a text.
LEMMA Joins ==
  ASSUME NEW u \in Strings, NEW w \in Strings, NEW v, v = u \o w
  PROVE  /\ v \in Strings /\ Len(v) = Len(u) + Len(w)
         /\ Len(u) \in Nat /\ Len(w) \in Nat /\ Len(v) \in Nat
BY LenProperties, ConcatProperties DEF Strings

\* What is defined step by step is defined, with its values in S.
LEMMA Recursion ==
  ASSUME NEW lo \in Nat, NEW hi \in Nat, lo <= hi, NEW S, NEW a \in S,
         NEW g, \A n \in (lo + 1)..hi : g[n] \in [S -> S]
  PROVE  \E f : Follows(f, lo, hi, a, g) /\ \A n \in lo..hi : f[n] \in S
<1>1. PICK f : Follows(f, lo, hi, a, g)
  BY Definable
<1>2. \A n \in lo..hi : f[n] \in S
  BY <1>1, StaysIn
<1> QED BY <1>1, <1>2

\* And a function that takes such steps has its values there.
LEMMA Typed ==
  ASSUME NEW lo \in Nat, NEW hi \in Nat, lo <= hi, NEW S, NEW h, h[lo] \in S,
         \A n \in (lo + 1)..hi : h[n - 1] \in S => h[n] \in S
  PROVE  \A n \in lo..hi : h[n] \in S
<1> DEFINE T == {n \in lo..hi : h[n] \in S}
<1>1. lo \in T
  OBVIOUS
<1>2. ASSUME NEW n \in lo..(hi - 1), n \in T PROVE n + 1 \in T
  <2>1. n + 1 \in (lo + 1)..hi /\ n + 1 \in lo..hi /\ (n + 1) - 1 = n /\ h[n] \in S
    BY <1>2
  <2>2. h[n + 1] \in S
    BY <2>1
  <2> QED BY <2>1, <2>2
<1>3. \A n \in lo..hi : n \in T
  <2> HIDE DEF T
  <2> QED BY <1>1, <1>2, UpTo
<1> QED BY <1>3

-----------------------------------------------------------------------------
\* The runs of the scanner and of the writer.

\* A string and its escapes, character by character.
Flags == [string : BOOLEAN, escaped : BOOLEAN]

StringRun(f, text, k) ==
  /\ f[k - 1] = [string |-> TRUE, escaped |-> FALSE]
  /\ \A n \in k..Len(text) : f[n] = InString(f[n - 1], text[n])
  /\ \A n \in (k - 1)..Len(text) : f[n] \in Flags

\* StringEnd is the first character at which such a run has left the string.
LEMMA StringRuns ==
  ASSUME NEW text, Len(text) \in Nat, NEW k \in Nat \ {0}, k - 1 <= Len(text)
  PROVE  \E f : /\ StringRun(f, text, k)
                /\ StringEnd(text, k) =
                     LET ends == {n \in k..Len(text) : ~f[n].string}
                     IN IF ends = {} THEN Len(text) + 1 ELSE Min(ends)
<1> DEFINE lo == k - 1
           hi == Len(text)
           start == [string |-> TRUE, escaped |-> FALSE]
           Step(s, n) == InString(s, text[n])
           g == [n \in (lo + 1)..hi |-> [s \in Flags |-> Step(s, n)]]
           after[n \in (k - 1)..Len(text)] == IF n = k - 1 THEN start ELSE Step(after[n - 1], n)
<1>1. StringEnd(text, k) = LET ends == {n \in k..Len(text) : ~after[n].string}
                           IN IF ends = {} THEN Len(text) + 1 ELSE Min(ends)
  BY DEF StringEnd
<1>2. lo \in Nat /\ hi \in Nat /\ lo <= hi /\ lo + 1 = k
  OBVIOUS
<1>3. \A s \in Flags : \A n \in Nat : Step(s, n) \in Flags
  BY DEF Flags, InString
<1>4. start \in Flags
  BY DEF Flags
<1>5. PICK h : h = after
  OBVIOUS
<1> HIDE DEF start, Step
<1>6. \A n \in (lo + 1)..hi : g[n] \in [Flags -> Flags]
  BY <1>2, <1>3
<1>7. PICK f : Follows(f, lo, hi, start, g) /\ \A n \in lo..hi : f[n] \in Flags
  <2> HIDE DEF g, lo, hi
  <2> QED BY <1>2, <1>4, <1>6, Recursion
<1>8. \A n \in lo..hi : f[n] = IF n = lo THEN start ELSE Step(f[n - 1], n)
  <2> SUFFICES ASSUME NEW n \in lo..hi PROVE f[n] = IF n = lo THEN start ELSE Step(f[n - 1], n)
    OBVIOUS
  <2>1. f[n] = IF n = lo THEN start ELSE g[n][f[n - 1]]
    BY <1>7 DEF Follows
  <2>2. n # lo => n - 1 \in lo..hi /\ n \in (lo + 1)..hi
    BY <1>2
  <2>3. n # lo => g[n][f[n - 1]] = Step(f[n - 1], n)
    BY <1>7, <2>2
  <2> QED BY <2>1, <2>3
<1>9. f = [n \in lo..hi |-> IF n = lo THEN start ELSE Step(f[n - 1], n)]
  BY <1>7, <1>8 DEF Follows
<1>10. after = [n \in lo..hi |-> IF n = lo THEN start ELSE Step(after[n - 1], n)]
  <2>1. \E e : e = [n \in lo..hi |-> IF n = lo THEN start ELSE Step(e[n - 1], n)]
    BY <1>9
  <2> QED BY <2>1
<1> HIDE DEF after
<1>11. \A n \in lo..hi : h[n] = IF n = lo THEN start ELSE Step(h[n - 1], n)
  <2>1. h = [n \in lo..hi |-> IF n = lo THEN start ELSE Step(h[n - 1], n)]
    BY <1>5, <1>10, Zenon
  <2> QED BY ONLY <2>1
<1>12. \A n \in (lo + 1)..hi : h[n] = Step(h[n - 1], n)
  BY <1>2, <1>11
<1>13. h[lo] = start
  BY <1>2, <1>11
<1>14. \A n \in lo..hi : h[n] \in Flags
  <2>1. \A n \in (lo + 1)..hi : h[n - 1] \in Flags => h[n] \in Flags
    BY <1>2, <1>3, <1>12
  <2> HIDE DEF lo, hi
  <2> QED BY <1>2, <1>4, <1>13, <2>1, Typed
<1>15. StringRun(h, text, k)
  BY <1>2, <1>12, <1>13, <1>14 DEF StringRun, start, Step
<1> QED BY <1>1, <1>5, <1>15

\* The search for a key.
KeyStates ==
  [depth : Int, string : BOOLEAN, escaped : BOOLEAN, start : Nat, at : Nat, refused : BOOLEAN]

KeyRun(f, key, text) ==
  /\ f[0] = [depth |-> 0, string |-> FALSE, escaped |-> FALSE, start |-> 0,
             at |-> NotFound, refused |-> FALSE]
  /\ \A n \in 1..Len(text) : f[n] = KeyStep(key, text, f[n - 1], n)
  /\ \A n \in 0..Len(text) : f[n] \in KeyStates

\* What a step of the search for a key leaves.
LEMMA KeyStepType ==
  ASSUME NEW key, NEW text, NEW s \in KeyStates, NEW n \in Nat
  PROVE  KeyStep(key, text, s, n) \in KeyStates
<1> DEFINE c == text[n]
           t == InString(s, c)
           d == (s.depth >= DepthLimit)
<1>1. t \in KeyStates
  BY DEF InString, KeyStates
<1>2. \A k \in Nat : [t EXCEPT !.at = k] \in KeyStates
  <2> HIDE DEF t
  <2> QED BY <1>1 DEF KeyStates
<1>3. n + 2 \in Nat /\ s.depth + 1 \in Int /\ s.depth - 1 \in Int /\ d \in BOOLEAN
  BY DEF KeyStates
<1>4. [s EXCEPT !.string = TRUE, !.start = n] \in KeyStates
  BY DEF KeyStates
<1>5. \A i \in Int : \A r \in BOOLEAN : [s EXCEPT !.depth = i, !.refused = r] \in KeyStates
  BY DEF KeyStates
<1>6. \A i \in Int : [s EXCEPT !.depth = i] \in KeyStates
  BY DEF KeyStates
<1>7. [t EXCEPT !.at = n + 2] \in KeyStates
  <2> HIDE DEF t
  <2> QED BY <1>2, <1>3
<1>8. [s EXCEPT !.depth = s.depth + 1, !.refused = d] \in KeyStates
  BY <1>3, <1>5, Zenon
<1>9. [s EXCEPT !.depth = s.depth - 1] \in KeyStates
  BY <1>3, <1>6, Zenon
<1>10. PICK u : u = t
  OBVIOUS
<1> HIDE DEF t
<1> QED BY <1>1, <1>4, <1>7, <1>8, <1>9, Zenon DEF KeyStep, t

\* FindKey is the place such a run has found.
LEMMA KeyRuns ==
  ASSUME NEW key, NEW text, Len(text) \in Nat
  PROVE  \E f : KeyRun(f, key, text) /\ FindKey(key, text) = f[Len(text)].at
<1> DEFINE lo == 0
           hi == Len(text)
           S == KeyStates
           start == [depth |-> 0, string |-> FALSE, escaped |-> FALSE, start |-> 0,
                     at |-> NotFound, refused |-> FALSE]
           Step(s, n) == KeyStep(key, text, s, n)
           g == [n \in (lo + 1)..hi |-> [s \in S |-> Step(s, n)]]
           after[n \in 0..Len(text)] == IF n = 0 THEN start ELSE KeyStep(key, text, after[n - 1], n)
<1>1. FindKey(key, text) = after[Len(text)].at
  BY DEF FindKey
<1>2. lo \in Nat /\ hi \in Nat /\ lo <= hi /\ lo + 1 = 1
  OBVIOUS
<1>3. \A n \in 1..hi : \A s \in S : Step(s, n) \in S
  BY KeyStepType
<1>4. start \in S
  BY DEF KeyStates, NotFound
<1>5. PICK h : h = after
  OBVIOUS
<1> HIDE DEF start, Step, S
<1>6. \A n \in (lo + 1)..hi : g[n] \in [S -> S]
  BY <1>2, <1>3
<1>7. PICK f : Follows(f, lo, hi, start, g) /\ \A n \in lo..hi : f[n] \in S
  <2> HIDE DEF g, lo, hi
  <2> QED BY <1>2, <1>4, <1>6, Recursion
<1>8. \A n \in lo..hi : f[n] = IF n = lo THEN start ELSE Step(f[n - 1], n)
  <2> SUFFICES ASSUME NEW n \in lo..hi PROVE f[n] = IF n = lo THEN start ELSE Step(f[n - 1], n)
    OBVIOUS
  <2>1. f[n] = IF n = lo THEN start ELSE g[n][f[n - 1]]
    BY <1>7 DEF Follows
  <2>2. n # lo => n - 1 \in lo..hi /\ n \in (lo + 1)..hi
    BY <1>2
  <2>3. n # lo => g[n][f[n - 1]] = Step(f[n - 1], n)
    BY <1>7, <2>2
  <2> QED BY <2>1, <2>3
<1>9. f = [n \in lo..hi |-> IF n = lo THEN start ELSE Step(f[n - 1], n)]
  BY <1>7, <1>8 DEF Follows
<1>10. after = [n \in lo..hi |-> IF n = lo THEN start ELSE Step(after[n - 1], n)]
  <2>1. \E e : e = [n \in lo..hi |-> IF n = lo THEN start ELSE Step(e[n - 1], n)]
    BY <1>9
  <2> QED BY <2>1 DEF Step
<1> HIDE DEF after
<1>11. \A n \in lo..hi : h[n] = IF n = lo THEN start ELSE Step(h[n - 1], n)
  <2>1. h = [n \in lo..hi |-> IF n = lo THEN start ELSE Step(h[n - 1], n)]
    BY <1>5, <1>10, Zenon
  <2> QED BY ONLY <2>1
<1>12. \A n \in (lo + 1)..hi : h[n] = Step(h[n - 1], n)
  BY <1>2, <1>11
<1>13. h[lo] = start
  BY <1>2, <1>11
<1>14. \A n \in lo..hi : h[n] \in S
  <2>1. \A n \in (lo + 1)..hi : h[n - 1] \in S => h[n] \in S
    BY <1>2, <1>3, <1>12
  <2> HIDE DEF lo, hi
  <2> QED BY <1>2, <1>4, <1>13, <2>1, Typed
<1>15. KeyRun(h, key, text)
  BY <1>2, <1>12, <1>13, <1>14 DEF KeyRun, start, Step, S
<1> QED BY <1>1, <1>5, <1>15

\* The removal of the escapes.
PlainStates == [text : Strings, escaped : BOOLEAN]

UnescapeRun(f, raw) ==
  /\ f[0] = [text |-> <<>>, escaped |-> FALSE]
  /\ \A n \in 1..Len(raw) : f[n] = UnescapeStep(f[n - 1], raw[n])
  /\ \A n \in 0..Len(raw) : f[n] \in PlainStates

\* What a step of the unescaping leaves.
LEMMA UnescapeStepType ==
  ASSUME NEW s \in PlainStates, NEW c \in Alphabet
  PROVE  UnescapeStep(s, c) \in PlainStates
<1>1. s.text \in Seq(Alphabet) /\ Lettered(c) \in Alphabet /\ Escape \in Alphabet
  BY DEF PlainStates, Strings, Lettered, Alphabet
<1>2. <<Lettered(c)>> \in Seq(Alphabet) /\ <<Escape, c>> \in Seq(Alphabet)
  BY <1>1
<1>3. s.text \o <<Lettered(c)>> \in Strings /\ s.text \o <<Escape, c>> \in Strings
      /\ Append(s.text, c) \in Strings
  BY <1>1, <1>2, ConcatProperties, AppendProperties DEF Strings
<1>4. [s EXCEPT !.escaped = TRUE] \in PlainStates
  BY DEF PlainStates
<1>5. \A t \in Strings : [s EXCEPT !.text = t] \in PlainStates /\ [text |-> t, escaped |-> FALSE] \in PlainStates
  BY DEF PlainStates
<1>6. [s EXCEPT !.text = Append(s.text, c)] \in PlainStates
  BY <1>3, <1>5
<1>7. PICK e : e = IF c \in {Quote, Escape, "n"} THEN <<Lettered(c)>> ELSE <<Escape, c>>
  OBVIOUS
<1>8. s.text \o e \in Strings
  BY <1>3, <1>7
<1>9. [text |-> s.text \o e, escaped |-> FALSE] \in PlainStates
  BY <1>5, <1>8
<1>10. UnescapeStep(s, c) = IF s.escaped THEN [text |-> s.text \o e, escaped |-> FALSE]
                            ELSE IF c = Escape THEN [s EXCEPT !.escaped = TRUE]
                            ELSE [s EXCEPT !.text = Append(s.text, c)]
  BY <1>7, Zenon DEF UnescapeStep
<1> QED BY <1>4, <1>6, <1>9, <1>10, Zenon

\* Unescaped is the text such a run has collected.
LEMMA UnescapeRuns ==
  ASSUME NEW raw \in Strings
  PROVE  \E f : UnescapeRun(f, raw) /\ Unescaped(raw) = IF f[Len(raw)].escaped THEN Append(f[Len(raw)].text, Escape)
                                              ELSE f[Len(raw)].text
<1> DEFINE lo == 0
           hi == Len(raw)
           S == PlainStates
           start == [text |-> <<>>, escaped |-> FALSE]
           Step(s, n) == UnescapeStep(s, raw[n])
           g == [n \in (lo + 1)..hi |-> [s \in S |-> Step(s, n)]]
           after[n \in 0..Len(raw)] == IF n = 0 THEN start ELSE UnescapeStep(after[n - 1], raw[n])
<1>1. Unescaped(raw) = IF after[Len(raw)].escaped THEN Append(after[Len(raw)].text, Escape)
                                                    ELSE after[Len(raw)].text
  BY DEF Unescaped
<1>2. lo \in Nat /\ hi \in Nat /\ lo <= hi /\ lo + 1 = 1
  BY LenProperties DEF Strings
<1>3. \A n \in 1..hi : \A s \in S : Step(s, n) \in S
  <2>1. \A n \in 1..hi : raw[n] \in Alphabet
    BY ElementOfSeq DEF Strings
  <2> QED BY <2>1, UnescapeStepType
<1>4. start \in S
  <2>1. <<>> \in Strings
    BY EmptySeq DEF Strings
  <2> QED BY <2>1 DEF PlainStates
<1>5. PICK h : h = after
  OBVIOUS
<1> HIDE DEF start, Step, S
<1>6. \A n \in (lo + 1)..hi : g[n] \in [S -> S]
  BY <1>2, <1>3
<1>7. PICK f : Follows(f, lo, hi, start, g) /\ \A n \in lo..hi : f[n] \in S
  <2> HIDE DEF g, lo, hi
  <2> QED BY <1>2, <1>4, <1>6, Recursion
<1>8. \A n \in lo..hi : f[n] = IF n = lo THEN start ELSE Step(f[n - 1], n)
  <2> SUFFICES ASSUME NEW n \in lo..hi PROVE f[n] = IF n = lo THEN start ELSE Step(f[n - 1], n)
    OBVIOUS
  <2>1. f[n] = IF n = lo THEN start ELSE g[n][f[n - 1]]
    BY <1>7 DEF Follows
  <2>2. n # lo => n - 1 \in lo..hi /\ n \in (lo + 1)..hi
    BY <1>2
  <2>3. n # lo => g[n][f[n - 1]] = Step(f[n - 1], n)
    BY <1>7, <2>2
  <2> QED BY <2>1, <2>3
<1>9. f = [n \in lo..hi |-> IF n = lo THEN start ELSE Step(f[n - 1], n)]
  BY <1>7, <1>8 DEF Follows
<1>10. after = [n \in lo..hi |-> IF n = lo THEN start ELSE Step(after[n - 1], n)]
  <2>1. \E e : e = [n \in lo..hi |-> IF n = lo THEN start ELSE Step(e[n - 1], n)]
    BY <1>9
  <2> QED BY <2>1 DEF Step
<1> HIDE DEF after
<1>11. \A n \in lo..hi : h[n] = IF n = lo THEN start ELSE Step(h[n - 1], n)
  <2>1. h = [n \in lo..hi |-> IF n = lo THEN start ELSE Step(h[n - 1], n)]
    BY <1>5, <1>10, Zenon
  <2> QED BY ONLY <2>1
<1>12. \A n \in (lo + 1)..hi : h[n] = Step(h[n - 1], n)
  BY <1>2, <1>11
<1>13. h[lo] = start
  BY <1>2, <1>11
<1>14. \A n \in lo..hi : h[n] \in S
  <2>1. \A n \in (lo + 1)..hi : h[n - 1] \in S => h[n] \in S
    BY <1>2, <1>3, <1>12
  <2> HIDE DEF lo, hi
  <2> QED BY <1>2, <1>4, <1>13, <2>1, Typed
<1>15. UnescapeRun(h, raw)
  BY <1>2, <1>12, <1>13, <1>14 DEF UnescapeRun, start, Step, S
<1> QED BY <1>1, <1>5, <1>15

\* The writing of a string.
EscapedRun(f, raw) ==
  /\ f[0] = <<Quote>>
  /\ \A n \in 1..Len(raw) : f[n] = f[n - 1] \o EscapedCharacter(raw[n])
  /\ \A n \in 0..Len(raw) : f[n] \in Strings

\* What is written for a character is a text,
LEMMA EscapedType == ASSUME NEW c \in Alphabet PROVE EscapedCharacter(c) \in Strings
<1>1. Letter(c) \in Alphabet /\ Escape \in Alphabet
  BY DEF Letter, Alphabet
<1>2. <<c>> \in Strings /\ <<Escape, Letter(c)>> \in Strings
  BY <1>1 DEF Strings
<1> QED BY <1>2 DEF EscapedCharacter

\* and Escaped is what is written for all of them, in quotes.
LEMMA EscapedRuns ==
  ASSUME NEW raw \in Strings
  PROVE  \E f : EscapedRun(f, raw) /\ Escaped(raw) = Append(f[Len(raw)], Quote)
<1> DEFINE lo == 0
           hi == Len(raw)
           S == Strings
           start == <<Quote>>
           Step(s, n) == s \o EscapedCharacter(raw[n])
           g == [n \in (lo + 1)..hi |-> [s \in S |-> Step(s, n)]]
           written[n \in 0..Len(raw)] == IF n = 0 THEN start ELSE written[n - 1] \o EscapedCharacter(raw[n])
<1>1. Escaped(raw) = Append(written[Len(raw)], Quote)
  BY DEF Escaped
<1>2. lo \in Nat /\ hi \in Nat /\ lo <= hi /\ lo + 1 = 1
  BY LenProperties DEF Strings
<1>3. \A n \in 1..hi : \A s \in S : Step(s, n) \in S
  <2>1. \A n \in 1..hi : raw[n] \in Alphabet
    BY ElementOfSeq DEF Strings
  <2>2. \A n \in 1..hi : EscapedCharacter(raw[n]) \in Strings
    BY <2>1, EscapedType
  <2> QED BY <2>2, ConcatProperties DEF Strings
<1>4. start \in S
  <2>1. Quote \in Alphabet
    BY DEF Alphabet
  <2> QED BY <2>1 DEF Strings
<1>5. PICK h : h = written
  OBVIOUS
<1> HIDE DEF start, Step, S
<1>6. \A n \in (lo + 1)..hi : g[n] \in [S -> S]
  BY <1>2, <1>3
<1>7. PICK f : Follows(f, lo, hi, start, g) /\ \A n \in lo..hi : f[n] \in S
  <2> HIDE DEF g, lo, hi
  <2> QED BY <1>2, <1>4, <1>6, Recursion
<1>8. \A n \in lo..hi : f[n] = IF n = lo THEN start ELSE Step(f[n - 1], n)
  <2> SUFFICES ASSUME NEW n \in lo..hi PROVE f[n] = IF n = lo THEN start ELSE Step(f[n - 1], n)
    OBVIOUS
  <2>1. f[n] = IF n = lo THEN start ELSE g[n][f[n - 1]]
    BY <1>7 DEF Follows
  <2>2. n # lo => n - 1 \in lo..hi /\ n \in (lo + 1)..hi
    BY <1>2
  <2>3. n # lo => g[n][f[n - 1]] = Step(f[n - 1], n)
    BY <1>7, <2>2
  <2> QED BY <2>1, <2>3
<1>9. f = [n \in lo..hi |-> IF n = lo THEN start ELSE Step(f[n - 1], n)]
  BY <1>7, <1>8 DEF Follows
<1>10. written = [n \in lo..hi |-> IF n = lo THEN start ELSE Step(written[n - 1], n)]
  <2>1. \E e : e = [n \in lo..hi |-> IF n = lo THEN start ELSE Step(e[n - 1], n)]
    BY <1>9
  <2> QED BY <2>1 DEF Step
<1> HIDE DEF written
<1>11. \A n \in lo..hi : h[n] = IF n = lo THEN start ELSE Step(h[n - 1], n)
  <2>1. h = [n \in lo..hi |-> IF n = lo THEN start ELSE Step(h[n - 1], n)]
    BY <1>5, <1>10, Zenon
  <2> QED BY ONLY <2>1
<1>12. \A n \in (lo + 1)..hi : h[n] = Step(h[n - 1], n)
  BY <1>2, <1>11
<1>13. h[lo] = start
  BY <1>2, <1>11
<1>14. \A n \in lo..hi : h[n] \in S
  <2>1. \A n \in (lo + 1)..hi : h[n - 1] \in S => h[n] \in S
    BY <1>2, <1>3, <1>12
  <2> HIDE DEF lo, hi
  <2> QED BY <1>2, <1>4, <1>13, <2>1, Typed
<1>15. EscapedRun(h, raw)
  BY <1>2, <1>12, <1>13, <1>14 DEF EscapedRun, start, Step, S
<1> QED BY <1>1, <1>5, <1>15

\* The writing of the objects.
Separator(n) == IF n = 1 THEN <<>> ELSE <<Comma>>

JoinedRun(f, triggers) ==
  /\ f[0] = <<>>
  /\ \A n \in 1..Len(triggers) : f[n] = f[n - 1] \o Separator(n) \o Object(triggers[n])
  /\ \A n \in 0..Len(triggers) : f[n] \in Strings

\* What is written is text: a string,
LEMMA EscapedIsText == ASSUME NEW raw \in Strings PROVE Escaped(raw) \in Strings
<1>1. PICK f : EscapedRun(f, raw) /\ Escaped(raw) = Append(f[Len(raw)], Quote)
  BY EscapedRuns
<1>2. Len(raw) \in 0..Len(raw)
  BY LenProperties DEF Strings
<1>3. f[Len(raw)] \in Strings
  BY <1>1, <1>2 DEF EscapedRun
<1>4. Quote \in Alphabet
  BY Marks
<1> QED BY <1>1, <1>3, <1>4, AppendProperties DEF Strings

\* a key with its value,
LEMMA PairIsText ==
  ASSUME NEW key \in Strings, NEW value \in Strings
  PROVE  Pair(key, value) \in Strings
<1>1. <<Quote>> \in Strings /\ <<Quote, ":">> \in Strings
  BY Marks, Single, Pairs
<1>2. <<Quote>> \o key \in Strings
  BY <1>1, ConcatProperties DEF Strings
<1>3. <<Quote>> \o key \o <<Quote, ":">> \in Strings
  BY <1>1, <1>2, ConcatProperties DEF Strings
<1> QED BY <1>3, ConcatProperties DEF Strings, Pair

\* an object,
LEMMA ObjectIsText == ASSUME NEW trigger \in Strings PROVE Object(trigger) \in Strings
<1>1. Pair(MemberKey, Escaped(trigger)) \in Strings /\ <<LeftBrace>> \in Strings /\ <<RightBrace>> \in Strings
  <2>1. MemberKey \in Strings /\ Escaped(trigger) \in Strings
    BY Keys, EscapedIsText
  <2> QED BY <2>1, PairIsText, Marks, Single
<1>2. <<LeftBrace>> \o Pair(MemberKey, Escaped(trigger)) \in Strings
  BY <1>1, ConcatProperties DEF Strings
<1> QED BY <1>1, <1>2, ConcatProperties DEF Strings, Object

\* and the objects of a list.
LEMMA JoinedRuns ==
  ASSUME NEW triggers \in Seq(Strings)
  PROVE  \E f : JoinedRun(f, triggers) /\ Joined(triggers) = f[Len(triggers)]
<1> DEFINE lo == 0
           hi == Len(triggers)
           S == Strings
           start == <<>>
           Step(s, n) == s \o Separator(n) \o Object(triggers[n])
           g == [n \in (lo + 1)..hi |-> [s \in S |-> Step(s, n)]]
           written[n \in 0..Len(triggers)] == IF n = 0 THEN start ELSE written[n - 1] \o (IF n = 1 THEN <<>> ELSE <<Comma>>) \o Object(triggers[n])
<1>1. Joined(triggers) = written[Len(triggers)]
  BY DEF Joined
<1>2. lo \in Nat /\ hi \in Nat /\ lo <= hi /\ lo + 1 = 1
  BY LenProperties
<1>3. \A n \in 1..hi : \A s \in S : Step(s, n) \in S
  <2> SUFFICES ASSUME NEW n \in 1..hi, NEW s \in Strings PROVE s \o Separator(n) \o Object(triggers[n]) \in Strings
    OBVIOUS
  <2>1. Object(triggers[n]) \in Strings
    BY ElementOfSeq, ObjectIsText
  <2>2. Separator(n) \in Strings
    BY EmptySeq, Marks, Single DEF Separator, Strings
  <2>3. s \o Separator(n) \in Strings
    BY <2>2, ConcatProperties DEF Strings
  <2> QED BY <2>1, <2>3, ConcatProperties DEF Strings
<1>4. start \in S
  BY EmptySeq DEF Strings
<1>5. PICK h : h = written
  OBVIOUS
<1> HIDE DEF start, Step, S
<1>6. \A n \in (lo + 1)..hi : g[n] \in [S -> S]
  BY <1>2, <1>3
<1>7. PICK f : Follows(f, lo, hi, start, g) /\ \A n \in lo..hi : f[n] \in S
  <2> HIDE DEF g, lo, hi
  <2> QED BY <1>2, <1>4, <1>6, Recursion
<1>8. \A n \in lo..hi : f[n] = IF n = lo THEN start ELSE Step(f[n - 1], n)
  <2> SUFFICES ASSUME NEW n \in lo..hi PROVE f[n] = IF n = lo THEN start ELSE Step(f[n - 1], n)
    OBVIOUS
  <2>1. f[n] = IF n = lo THEN start ELSE g[n][f[n - 1]]
    BY <1>7 DEF Follows
  <2>2. n # lo => n - 1 \in lo..hi /\ n \in (lo + 1)..hi
    BY <1>2
  <2>3. n # lo => g[n][f[n - 1]] = Step(f[n - 1], n)
    BY <1>7, <2>2
  <2> QED BY <2>1, <2>3
<1>9. f = [n \in lo..hi |-> IF n = lo THEN start ELSE Step(f[n - 1], n)]
  BY <1>7, <1>8 DEF Follows
<1>10. written = [n \in lo..hi |-> IF n = lo THEN start ELSE Step(written[n - 1], n)]
  <2>1. \E e : e = [n \in lo..hi |-> IF n = lo THEN start ELSE Step(e[n - 1], n)]
    BY <1>9
  <2> QED BY <2>1 DEF Step, Separator
<1> HIDE DEF written
<1>11. \A n \in lo..hi : h[n] = IF n = lo THEN start ELSE Step(h[n - 1], n)
  <2>1. h = [n \in lo..hi |-> IF n = lo THEN start ELSE Step(h[n - 1], n)]
    BY <1>5, <1>10, Zenon
  <2> QED BY ONLY <2>1
<1>12. \A n \in (lo + 1)..hi : h[n] = Step(h[n - 1], n)
  BY <1>2, <1>11
<1>13. h[lo] = start
  BY <1>2, <1>11
<1>14. \A n \in lo..hi : h[n] \in S
  <2>1. \A n \in (lo + 1)..hi : h[n - 1] \in S => h[n] \in S
    BY <1>2, <1>3, <1>12
  <2> HIDE DEF lo, hi
  <2> QED BY <1>2, <1>4, <1>13, <2>1, Typed
<1>15. JoinedRun(h, triggers)
  BY <1>2, <1>12, <1>13, <1>14 DEF JoinedRun, start, Step, S
<1> QED BY <1>1, <1>5, <1>15

-----------------------------------------------------------------------------
\* Where the parts of a saved text are.

Special == {Quote, Escape, Newline}

\* The characters of raw between quotes, behind the p-th character of t: the n-th
\* of them ends at e[n].
Spelled(t, p, e, raw) ==
  /\ e[0] = p + 1 /\ t[p + 1] = Quote
  /\ \A n \in 1..Len(raw) :
       IF raw[n] \in Special
       THEN /\ e[n] = e[n - 1] + 2
            /\ t[e[n - 1] + 1] = Escape /\ t[e[n - 1] + 2] = Letter(raw[n])
       ELSE e[n] = e[n - 1] + 1 /\ t[e[n - 1] + 1] = raw[n]
  /\ \A n \in 0..Len(raw) : e[n] \in Nat /\ p < e[n] /\ e[n] <= e[Len(raw)]
  /\ t[e[Len(raw)] + 1] = Quote /\ e[Len(raw)] + 1 <= Len(t)

Quoted(t, p, q, raw) == \E e : Spelled(t, p, e, raw) /\ q = e[Len(raw)] + 1

\* A string that was written stands in the text between its quotes.
LEMMA EscapedAt ==
  ASSUME NEW t, Len(t) \in Nat, NEW p \in Nat, NEW raw \in Strings, At(t, p, Escaped(raw))
  PROVE  /\ Len(Escaped(raw)) \in Nat
         /\ Quoted(t, p, p + Len(Escaped(raw)), raw)
<1>1. PICK f : EscapedRun(f, raw) /\ Escaped(raw) = Append(f[Len(raw)], Quote)
  BY EscapedRuns
<1> DEFINE L == Len(raw)
           T == {j \in 0..L : At(t, p, f[L - j])}
<1>2. L \in Nat /\ L \in 0..L
  BY LenProperties DEF Strings
<1>3. \A n \in 0..L : f[n] \in Strings /\ Len(f[n]) \in Nat
  <2>1. \A n \in 0..L : f[n] \in Strings
    BY <1>1 DEF EscapedRun
  <2> QED BY <2>1, LenProperties DEF Strings
<1>4. At(t, p, f[L]) /\ At(t, p + Len(f[L]), <<Quote>>) /\ Len(Escaped(raw)) = Len(f[L]) + 1
  <2>1. Quote \in Alphabet
    BY Marks
  <2>2. <<Quote>> \in Strings /\ Len(<<Quote>>) = 1
    BY <2>1, Single
  <2>3. f[L] \in Strings
    BY <1>2, <1>3
  <2>4. Escaped(raw) = f[L] \o <<Quote>>
    BY <1>1, <2>1, <2>3, AppendIsConcat DEF Strings
  <2>5. At(t, p, f[L])
    BY <2>2, <2>3, <2>4, AtLeft
  <2>6. At(t, p + Len(f[L]), <<Quote>>)
    BY <2>2, <2>3, <2>4, AtRight
  <2>7. Len(Escaped(raw)) = Len(f[L]) + 1
    BY <2>2, <2>3, <2>4, Joins
  <2> QED BY <2>5, <2>6, <2>7
<1>5. \A n \in 1..L : /\ EscapedCharacter(raw[n]) \in Strings
                      /\ f[n] = f[n - 1] \o EscapedCharacter(raw[n])
  <2>1. \A n \in 1..L : raw[n] \in Alphabet
    BY ElementOfSeq DEF Strings
  <2> QED BY <1>1, <2>1, EscapedType DEF EscapedRun
<1>6. \A j \in 0..L : j \in T
  <2>1. 0 \in T
    BY <1>2, <1>4
  <2>2. ASSUME NEW j \in 0..(L - 1), j \in T PROVE j + 1 \in T
    <3>1. PICK m : m = L - j
      OBVIOUS
    <3>2. m \in 1..L /\ m - 1 = L - (j + 1) /\ j + 1 \in 0..L /\ m \in 0..L /\ m - 1 \in 0..L
      BY <1>2, <3>1
    <3>3. f[m] = f[m - 1] \o EscapedCharacter(raw[m]) /\ EscapedCharacter(raw[m]) \in Strings
      BY <1>5, <3>2
    <3>4. f[m - 1] \in Strings /\ At(t, p, f[m])
      BY <1>3, <2>2, <3>1, <3>2
    <3>5. At(t, p, f[m - 1])
      BY <3>3, <3>4, AtLeft
    <3> QED BY <3>2, <3>5
  <2> HIDE DEF T
  <2> QED BY <1>2, <2>1, <2>2, UpTo
<1>7. \A n \in 0..L : At(t, p, f[n])
  <2> SUFFICES ASSUME NEW n \in 0..L PROVE At(t, p, f[n])
    OBVIOUS
  <2>1. L - n \in 0..L /\ L - (L - n) = n
    BY <1>2
  <2>2. L - n \in T
    BY <1>6, <2>1
  <2> QED BY <2>1, <2>2
<1> DEFINE e == [n \in 0..L |-> p + Len(f[n])]
<1>8. f[0] = <<Quote>> /\ Len(f[0]) = 1 /\ e[0] = p + 1
  <2>1. f[0] = <<Quote>>
    BY <1>1 DEF EscapedRun
  <2>2. Len(<<Quote>>) = 1
    BY Marks, Single
  <2>3. Len(f[0]) = 1
    BY <2>1, <2>2
  <2>4. e[0] = p + Len(f[0])
    BY <1>2
  <2> QED BY <2>1, <2>3, <2>4
<1>9. t[p + 1] = Quote
  <2>1. At(t, p, f[0])
    BY <1>2, <1>7
  <2> QED BY <1>8, <2>1 DEF At
<1>10. ASSUME NEW n \in 1..L
       PROVE  /\ IF raw[n] \in Special
                 THEN /\ e[n] = e[n - 1] + 2
                      /\ t[e[n - 1] + 1] = Escape /\ t[e[n - 1] + 2] = Letter(raw[n])
                 ELSE e[n] = e[n - 1] + 1 /\ t[e[n - 1] + 1] = raw[n]
  <2>1. n \in 0..L /\ n - 1 \in 0..L
    BY <1>2
  <2>2. e[n] = p + Len(f[n]) /\ e[n - 1] = p + Len(f[n - 1])
    BY <2>1
  <2>3. f[n] = f[n - 1] \o EscapedCharacter(raw[n]) /\ At(t, p, f[n])
        /\ EscapedCharacter(raw[n]) \in Strings /\ f[n - 1] \in Strings
    BY <1>3, <1>5, <1>7, <2>1
  <2>4. /\ Len(f[n]) = Len(f[n - 1]) + Len(EscapedCharacter(raw[n]))
        /\ At(t, p + Len(f[n - 1]), EscapedCharacter(raw[n]))
    <3>1. Len(f[n]) = Len(f[n - 1]) + Len(EscapedCharacter(raw[n]))
      BY <2>3, Joins
    <3>2. At(t, p + Len(f[n - 1]), EscapedCharacter(raw[n]))
      BY <2>3, AtRight
    <3> QED BY <3>1, <3>2
  <2> HIDE DEF e
  <2>5. CASE raw[n] \in Special
    <3>1. EscapedCharacter(raw[n]) = <<Escape, Letter(raw[n])>>
      BY <2>5 DEF EscapedCharacter, Special
    <3>2. At(t, e[n - 1], <<Escape, Letter(raw[n])>>)
      BY <2>2, <2>4, <3>1
    <3>3. e[n - 1] \in Nat /\ e[n] = e[n - 1] + 2
      BY <1>3, <2>1, <2>2, <2>4, <3>1
    <3> QED BY <2>5, <3>2, <3>3 DEF At
  <2>6. CASE raw[n] \notin Special
    <3>1. EscapedCharacter(raw[n]) = <<raw[n]>>
      BY <2>6 DEF EscapedCharacter, Special
    <3>2. At(t, e[n - 1], <<raw[n]>>)
      BY <2>2, <2>4, <3>1
    <3>3. e[n - 1] \in Nat /\ e[n] = e[n - 1] + 1
      BY <1>3, <2>1, <2>2, <2>4, <3>1
    <3> QED BY <2>6, <3>2, <3>3 DEF At
  <2> QED BY <2>5, <2>6
<1>11. t[e[L] + 1] = Quote /\ e[L] + 1 <= Len(t) /\ e[L] + 1 = p + Len(Escaped(raw))
  <2>1. e[L] = p + Len(f[L]) /\ Len(f[L]) \in Nat
    BY <1>2, <1>3
  <2> HIDE DEF e
  <2>2. Len(<<Quote>>) = 1 /\ <<Quote>>[1] = Quote
    BY Marks, Single
  <2> QED BY <1>2, <1>4, <2>1, <2>2 DEF At
<1>12. \A n \in 0..L : e[n] \in Nat /\ p < e[n] /\ e[n] <= e[L]
  <2> DEFINE D == {n \in 0..L : p < e[n]}
             U == {j \in 0..L : e[L - j] <= e[L]}
  <2>1. \A n \in 0..L : e[n] \in Nat
    BY <1>3
  <2>2. \A n \in 1..L : e[n - 1] <= e[n]
    <3> SUFFICES ASSUME NEW n \in 1..L PROVE e[n - 1] <= e[n]
      OBVIOUS
    <3>1. n - 1 \in 0..L /\ e[n - 1] \in Nat
      BY <1>2, <2>1
    <3>2. e[n] = e[n - 1] + 2 \/ e[n] = e[n - 1] + 1
      BY <1>10
    <3> HIDE DEF e
    <3> QED BY <3>1, <3>2
  <2> HIDE DEF e
  <2>3. 0 \in D /\ 0 \in U
    BY <1>2, <1>8, <2>1
  <2>4. \A n \in 0..(L - 1) : n \in D => n + 1 \in D
    <3> SUFFICES ASSUME NEW n \in 0..(L - 1), n \in D PROVE n + 1 \in D
      OBVIOUS
    <3>1. n + 1 \in 1..L /\ (n + 1) - 1 = n /\ n \in 0..L /\ n + 1 \in 0..L
      BY <1>2
    <3>2. e[n] <= e[n + 1] /\ e[n] \in Nat /\ e[n + 1] \in Nat
      BY <2>1, <2>2, <3>1
    <3> QED BY <3>1, <3>2
  <2>5. \A j \in 0..(L - 1) : j \in U => j + 1 \in U
    <3> SUFFICES ASSUME NEW j \in 0..(L - 1), j \in U PROVE j + 1 \in U
      OBVIOUS
    <3>1. L - j \in 1..L /\ (L - j) - 1 = L - (j + 1) /\ L - j \in 0..L /\ L - (j + 1) \in 0..L /\ j + 1 \in 0..L
      BY <1>2
    <3>2. e[L - (j + 1)] <= e[L - j] /\ e[L - j] \in Nat /\ e[L - (j + 1)] \in Nat /\ e[L] \in Nat
      BY <1>2, <2>1, <2>2, <3>1
    <3> QED BY <3>1, <3>2
  <2>6. (\A n \in 0..L : n \in D) /\ (\A j \in 0..L : j \in U)
    <3> HIDE DEF D, U
    <3> QED BY <1>2, <2>3, <2>4, <2>5, UpTo
  <2>7. ASSUME NEW n \in 0..L PROVE e[n] <= e[L]
    <3>1. L - n \in 0..L /\ L - (L - n) = n
      BY <1>2
    <3>2. L - n \in U
      BY <2>6, <3>1
    <3> QED BY <3>1, <3>2
  <2> QED BY <2>1, <2>6, <2>7
<1>13. Spelled(t, p, e, raw)
  <2> HIDE DEF e
  <2> QED BY <1>8, <1>9, <1>10, <1>11, <1>12 DEF Spelled
<1>14. Len(Escaped(raw)) \in Nat
  BY <1>2, <1>3, <1>4
<1> HIDE DEF e
<1> QED BY <1>11, <1>13, <1>14 DEF Quoted

\* A text of one character, in another,
LEMMA At1 ==
  ASSUME NEW t, NEW p \in Nat, NEW c \in Alphabet, At(t, p, <<c>>)
  PROVE  t[p + 1] = c /\ p + 1 <= Len(t)
<1>1. Len(<<c>>) = 1 /\ <<c>>[1] = c
  BY Single
<1> QED BY <1>1 DEF At

\* and one of two.
LEMMA At2 ==
  ASSUME NEW t, NEW p \in Nat, NEW c \in Alphabet, NEW d \in Alphabet, At(t, p, <<c, d>>)
  PROVE  t[p + 1] = c /\ t[p + 2] = d /\ p + 2 <= Len(t)
<1>1. Len(<<c, d>>) = 2 /\ <<c, d>>[1] = c /\ <<c, d>>[2] = d
  BY Pairs
<1> QED BY <1>1 DEF At

\* A key of one character and its colon.
Labelled(t, p, c) ==
  t[p + 1] = Quote /\ t[p + 2] = c /\ t[p + 3] = Quote /\ t[p + 4] = ":" /\ p + 4 <= Len(t)

\* A pair stands in the text as its label and its value.
LEMMA PairAt ==
  ASSUME NEW t, NEW p \in Nat, NEW c \in Alphabet, NEW value \in Strings, Len(t) \in Nat,
         NEW v, v = Pair(<<c>>, value)
  PROVE  /\ v \in Strings /\ Len(v) = 4 + Len(value)
         /\ At(t, p, v) => Labelled(t, p, c) /\ At(t, p + 4, value)
<1>1. /\ <<Quote>> \in Strings /\ <<c>> \in Strings /\ <<Quote, ":">> \in Strings
      /\ Len(<<Quote>>) = 1 /\ Len(<<c>>) = 1 /\ Len(<<Quote, ":">>) = 2
      /\ Quote \in Alphabet /\ ":" \in Alphabet
  <2>1. Quote \in Alphabet /\ ":" \in Alphabet
    BY Marks
  <2> QED BY <2>1, Single, Pairs
<1>2. PICK u : u = <<Quote>> \o <<c>>
  OBVIOUS
<1>3. PICK w : w = u \o <<Quote, ":">>
  OBVIOUS
<1>4. v = w \o value
  BY <1>2, <1>3 DEF Pair
<1>5. u \in Strings /\ Len(u) = 2
  <2>1. u \in Strings /\ Len(u) = Len(<<Quote>>) + Len(<<c>>)
    BY <1>1, <1>2, Joins
  <2> QED BY <1>1, <2>1
<1>6. w \in Strings /\ Len(w) = 4
  <2>1. w \in Strings /\ Len(w) = Len(u) + Len(<<Quote, ":">>)
    BY <1>1, <1>3, <1>5, Joins
  <2> QED BY <1>1, <1>5, <2>1
<1>7. v \in Strings /\ Len(v) = 4 + Len(value)
  BY <1>4, <1>6, Joins
<1>8. ASSUME At(t, p, v) PROVE Labelled(t, p, c) /\ At(t, p + 4, value)
  <2>1. At(t, p, w)
    BY <1>4, <1>6, <1>8, AtLeft
  <2>2. At(t, p + Len(w), value)
    BY <1>4, <1>6, <1>8, AtRight
  <2>3. At(t, p, u)
    BY <1>1, <1>3, <1>5, <2>1, AtLeft
  <2>4. At(t, p + Len(u), <<Quote, ":">>)
    BY <1>1, <1>3, <1>5, <2>1, AtRight
  <2>5. At(t, p, <<Quote>>)
    BY <1>1, <1>2, <2>3, AtLeft
  <2>6. At(t, p + Len(<<Quote>>), <<c>>)
    BY <1>1, <1>2, <2>3, AtRight
  <2>7. t[p + 1] = Quote
    BY <1>1, <2>5, At1
  <2>8. t[(p + 1) + 1] = c
    BY <1>1, <2>6, At1
  <2>9. t[(p + 2) + 1] = Quote /\ t[(p + 2) + 2] = ":" /\ (p + 2) + 2 <= Len(t)
    <3>1. At(t, p + 2, <<Quote, ":">>) /\ p + 2 \in Nat
      BY <1>5, <2>4
    <3> QED BY <1>1, <3>1, At2
  <2>10. (p + 1) + 1 = p + 2 /\ (p + 2) + 1 = p + 3 /\ (p + 2) + 2 = p + 4
    OBVIOUS
  <2>11. Labelled(t, p, c)
    BY <2>7, <2>8, <2>9, <2>10 DEF Labelled
  <2> QED BY <1>6, <2>2, <2>11
<1> QED BY <1>7, <1>8

LEMMA PairType ==
  ASSUME NEW c \in Alphabet, NEW value \in Strings, NEW v, v = Pair(<<c>>, value)
  PROVE  v \in Strings /\ Len(v) = 4 + Len(value)
<1>1. PICK t, p : t = <<c>> /\ p = 0
  OBVIOUS
<1>2. p \in Nat /\ Len(t) \in Nat
  BY <1>1, Single
<1> QED BY <1>2, PairAt

\* An object from behind the p-th character up to the o-th.
ObjectAt(t, p, o, raw) ==
  /\ t[p + 1] = LeftBrace /\ Labelled(t, p + 1, "M") /\ Quoted(t, p + 5, o - 1, raw)
  /\ t[o] = RightBrace /\ o <= Len(t) /\ o \in Nat /\ p + 7 < o

\* Where a string begins and ends.
LEMMA QuotedOrder ==
  ASSUME NEW t, NEW p \in Nat, NEW q, NEW raw \in Strings, Len(t) \in Nat, Quoted(t, p, q, raw)
  PROVE  q \in Nat /\ p + 2 <= q /\ q <= Len(t) /\ t[p + 1] = Quote /\ t[q] = Quote
<1>1. PICK e : Spelled(t, p, e, raw) /\ q = e[Len(raw)] + 1
  BY DEF Quoted
<1>2. Len(raw) \in 0..Len(raw)
  BY LenProperties DEF Strings
<1>3. PICK x : x = e[Len(raw)]
  OBVIOUS
<1>4. x \in Nat /\ p < x /\ x + 1 <= Len(t) /\ t[x + 1] = Quote /\ t[p + 1] = Quote /\ q = x + 1
  BY <1>1, <1>2, <1>3 DEF Spelled
<1> QED BY <1>4

\* An object that was written stands in the text as one.
LEMMA ObjectFound ==
  ASSUME NEW t, NEW p \in Nat, NEW raw \in Strings, Len(t) \in Nat,
         NEW v, v = Object(raw)
  PROVE  /\ v \in Strings /\ Len(v) \in Nat
         /\ At(t, p, v) => ObjectAt(t, p, p + Len(v), raw)
<1>1. /\ LeftBrace \in Alphabet /\ RightBrace \in Alphabet /\ "M" \in Alphabet
      /\ <<LeftBrace>> \in Strings /\ <<RightBrace>> \in Strings
      /\ Len(<<LeftBrace>>) = 1 /\ Len(<<RightBrace>>) = 1
  <2>1. LeftBrace \in Alphabet /\ RightBrace \in Alphabet /\ "M" \in Alphabet
    BY Marks
  <2> QED BY <2>1, Single
<1>2. Escaped(raw) \in Strings /\ Len(Escaped(raw)) \in Nat
  BY EscapedIsText, LenProperties DEF Strings
<1>3. PICK m : m = Pair(<<"M">>, Escaped(raw))
  OBVIOUS
<1>4. PICK u : u = <<LeftBrace>> \o m
  OBVIOUS
<1>5. v = u \o <<RightBrace>>
  BY <1>3, <1>4 DEF Object, MemberKey
<1>6. m \in Strings /\ Len(m) = 4 + Len(Escaped(raw))
  <2>1. PICK c, w : c = "M" /\ w = Escaped(raw)
    OBVIOUS
  <2>2. c \in Alphabet /\ w \in Strings /\ Len(t) \in Nat /\ p \in Nat /\ m = Pair(<<c>>, w)
    BY <1>1, <1>2, <1>3, <2>1
  <2>3. m \in Strings /\ Len(m) = 4 + Len(w)
    BY ONLY <2>2, PairAt
  <2> QED BY <2>1, <2>3
<1>7. u \in Strings /\ Len(u) = 5 + Len(Escaped(raw))
  <2>1. u \in Strings /\ Len(u) = Len(<<LeftBrace>>) + Len(m)
    BY <1>1, <1>4, <1>6, Joins
  <2>2. PICK x : x = Len(Escaped(raw))
    OBVIOUS
  <2>3. x \in Nat /\ Len(m) = 4 + x /\ Len(u) = 1 + Len(m)
    BY <1>1, <1>2, <1>6, <2>1, <2>2
  <2>4. Len(u) = 5 + x
    BY ONLY <2>3
  <2> QED BY <2>1, <2>2, <2>4
<1>8. v \in Strings /\ Len(v) = 6 + Len(Escaped(raw)) /\ Len(v) \in Nat
  <2>1. v \in Strings /\ Len(v) = Len(u) + Len(<<RightBrace>>)
    BY <1>1, <1>5, <1>7, Joins
  <2>2. PICK x : x = Len(Escaped(raw))
    OBVIOUS
  <2>3. x \in Nat /\ Len(u) = 5 + x /\ Len(v) = Len(u) + 1
    BY <1>1, <1>2, <1>7, <2>1, <2>2
  <2>4. Len(v) = 6 + x /\ Len(v) \in Nat
    BY ONLY <2>3
  <2> QED BY <2>1, <2>2, <2>4
<1>9. ASSUME At(t, p, v) PROVE ObjectAt(t, p, p + Len(v), raw)
  <2>1. At(t, p, u) /\ At(t, p + Len(u), <<RightBrace>>)
    BY <1>1, <1>5, <1>7, <1>9, AtLeft, AtRight
  <2>2. At(t, p, <<LeftBrace>>)
    BY <1>1, <1>4, <1>6, <2>1, AtLeft
  <2>3. At(t, p + 1, m)
    BY <1>1, <1>4, <1>6, <2>1, AtRight
  <2>4. t[p + 1] = LeftBrace
    BY <1>1, <2>2, At1
  <2>5. Labelled(t, p + 1, "M") /\ At(t, (p + 1) + 4, Escaped(raw))
    <3>1. p + 1 \in Nat /\ At(t, p + 1, Pair(<<"M">>, Escaped(raw)))
      BY <1>3, <2>3
    <3> QED BY <1>1, <1>2, <3>1, PairAt
  <2>6. Quoted(t, p + 5, p + 5 + Len(Escaped(raw)), raw)
    <3>1. (p + 1) + 4 = p + 5 /\ p + 5 \in Nat
      OBVIOUS
    <3>2. At(t, p + 5, Escaped(raw))
      BY <2>5, <3>1
    <3> QED BY <3>1, <3>2, EscapedAt
  <2>7. t[(p + Len(u)) + 1] = RightBrace /\ (p + Len(u)) + 1 <= Len(t)
    <3>1. p + Len(u) \in Nat
      BY <1>2, <1>7
    <3> QED BY <1>1, <2>1, <3>1, At1
  <2>8. (p + Len(u)) + 1 = p + Len(v) /\ (p + Len(v)) - 1 = p + 5 + Len(Escaped(raw)) /\ p + Len(v) \in Nat
    BY <1>2, <1>7, <1>8
  <2>9. p + 5 + 2 <= p + 5 + Len(Escaped(raw))
    BY <2>6, QuotedOrder
  <2>10. p + 7 < p + Len(v)
    BY <1>2, <2>8, <2>9
  <2> QED BY <2>4, <2>5, <2>6, <2>7, <2>8, <2>10 DEF ObjectAt
<1> QED BY <1>8, <1>9

\* The objects behind the p-th character, with their commas: the n-th ends at o[n].
ObjectStart(o, n) == IF n = 1 THEN o[0] ELSE o[n - 1] + 1

Listed(t, p, o, triggers) ==
  /\ o[0] = p
  /\ \A n \in 0..Len(triggers) : o[n] \in Nat /\ p <= o[n] /\ o[n] <= Len(t)
  /\ \A n \in 1..Len(triggers) : /\ ObjectAt(t, ObjectStart(o, n), o[n], triggers[n])
                                 /\ n # 1 => t[o[n - 1] + 1] = Comma

\* And so do the objects of a list.
LEMMA JoinedAt ==
  ASSUME NEW t, Len(t) \in Nat, NEW p \in Nat, NEW triggers \in Seq(Strings),
         NEW v, v = Joined(triggers)
  PROVE  /\ v \in Strings /\ Len(v) \in Nat
         /\ At(t, p, v) => \E o : Listed(t, p, o, triggers) /\ o[Len(triggers)] = p + Len(v)
<1> DEFINE L == Len(triggers)
<1>1. PICK f : JoinedRun(f, triggers) /\ v = f[L]
  BY JoinedRuns
<1>2. L \in Nat /\ L \in 0..L /\ \A n \in 1..L : triggers[n] \in Strings
  BY LenProperties, ElementOfSeq
<1>3. \A n \in 0..L : f[n] \in Strings /\ Len(f[n]) \in Nat
  <2>1. \A n \in 0..L : f[n] \in Strings
    BY <1>1 DEF JoinedRun
  <2> QED BY <2>1, LenProperties DEF Strings
<1>4. \A n \in 1..L : Separator(n) \in Strings /\ Object(triggers[n]) \in Strings
  <2>1. Comma \in Alphabet
    BY Marks
  <2>2. \A n \in 1..L : Separator(n) \in Strings
    BY <2>1, EmptySeq, Single DEF Separator, Strings
  <2>3. \A n \in 1..L : Object(triggers[n]) \in Strings
    BY <1>2, ObjectIsText
  <2> QED BY <2>2, <2>3
<1>5. ASSUME At(t, p, v) PROVE \E o : Listed(t, p, o, triggers) /\ o[L] = p + Len(v)
  <2> DEFINE T == {j \in 0..L : At(t, p, f[L - j])}
             o == [n \in 0..L |-> p + Len(f[n])]
  <2>1. \A j \in 0..L : j \in T
    <3>1. 0 \in T
      BY <1>1, <1>2, <1>5
    <3>2. ASSUME NEW j \in 0..(L - 1), j \in T PROVE j + 1 \in T
      <4>1. PICK m : m = L - j
        OBVIOUS
      <4>2. m \in 1..L /\ m - 1 = L - (j + 1) /\ j + 1 \in 0..L /\ m \in 0..L /\ m - 1 \in 0..L
        BY <1>2, <4>1
      <4>3. PICK u : u = f[m - 1] \o Separator(m)
        OBVIOUS
      <4>4. f[m - 1] \in Strings /\ Separator(m) \in Strings /\ Object(triggers[m]) \in Strings
        BY <1>3, <1>4, <4>2
      <4>5. u \in Strings /\ f[m] = u \o Object(triggers[m])
        BY <1>1, <4>2, <4>3, <4>4, Joins DEF JoinedRun
      <4>6. At(t, p, f[m])
        BY <3>2, <4>1
      <4>7. At(t, p, u)
        BY <4>4, <4>5, <4>6, AtLeft
      <4>8. At(t, p, f[m - 1])
        <5>1. PICK w : w = f[m - 1]
          OBVIOUS
        <5>2. w \in Strings /\ u = w \o Separator(m)
          BY <4>3, <4>4, <5>1
        <5>3. At(t, p, w)
          BY <4>4, <4>7, <5>2, AtLeft
        <5> QED BY <5>1, <5>3
      <4> QED BY <4>2, <4>8
    <3> HIDE DEF T
    <3> QED BY <1>2, <3>1, <3>2, UpTo
  <2>2. \A n \in 0..L : At(t, p, f[n])
    <3> SUFFICES ASSUME NEW n \in 0..L PROVE At(t, p, f[n])
      OBVIOUS
    <3>1. L - n \in 0..L /\ L - (L - n) = n
      BY <1>2
    <3>2. L - n \in T
      BY <2>1, <3>1
    <3> QED BY <3>1, <3>2
  <2>3. \A n \in 0..L : o[n] \in Nat /\ p <= o[n] /\ o[n] <= Len(t) /\ o[n] = p + Len(f[n])
    BY <1>3, <2>2 DEF At
  <2>4. o[0] = p
    <3>1. Len(f[0]) = 0
      BY <1>1, EmptySeq DEF JoinedRun
    <3>2. o[0] = p + Len(f[0])
      BY <1>2
    <3> QED BY <3>1, <3>2
  <2> HIDE DEF o, T
  <2>5. ASSUME NEW n \in 1..L
        PROVE  ObjectAt(t, ObjectStart(o, n), o[n], triggers[n]) /\ (n # 1 => t[o[n - 1] + 1] = Comma)
    <3>1. n \in 0..L /\ n - 1 \in 0..L
      BY <1>2
    <3>2. PICK u : u = f[n - 1] \o Separator(n)
      OBVIOUS
    <3>3. f[n - 1] \in Strings /\ Separator(n) \in Strings /\ Object(triggers[n]) \in Strings
      BY <1>3, <1>4, <3>1
    <3>4. f[n] = u \o Object(triggers[n])
      BY <1>1, <3>2 DEF JoinedRun
    <3>5. u \in Strings /\ Len(u) = Len(f[n - 1]) + Len(Separator(n)) /\ Len(u) \in Nat
      BY <3>2, <3>3, Joins
    <3>6. At(t, p, u) /\ At(t, p + Len(u), Object(triggers[n]))
      <4>1. At(t, p, f[n])
        BY <2>2, <3>1
      <4> QED BY <3>3, <3>4, <3>5, <4>1, AtLeft, AtRight
    <3>7. p + Len(u) \in Nat /\ triggers[n] \in Strings
      BY <1>2, <3>5
    <3>8. ObjectAt(t, p + Len(u), (p + Len(u)) + Len(Object(triggers[n])), triggers[n])
      BY <3>6, <3>7, ObjectFound
    <3>9. Len(f[n]) = Len(u) + Len(Object(triggers[n])) /\ Len(Object(triggers[n])) \in Nat
      BY <3>3, <3>4, <3>5, Joins
    <3>10. o[n] = (p + Len(u)) + Len(Object(triggers[n]))
      <4>1. o[n] = p + Len(f[n])
        BY <2>3, <3>1
      <4>2. PICK x, y : x = Len(u) /\ y = Len(Object(triggers[n]))
        OBVIOUS
      <4>3. x \in Nat /\ y \in Nat /\ o[n] = p + (x + y)
        BY <3>5, <3>9, <4>1, <4>2
      <4>4. o[n] = (p + x) + y
        BY ONLY <4>3, p \in Nat
      <4> QED BY <4>2, <4>4
    <3>11. o[n - 1] = p + Len(f[n - 1]) /\ o[n - 1] \in Nat /\ Len(f[n - 1]) \in Nat
      BY <1>3, <2>3, <3>1
    <3>12. CASE n = 1
      <4>1. Len(Separator(n)) = 0
        BY <3>12, EmptySeq DEF Separator
      <4>2. ObjectStart(o, n) = p + Len(u)
        BY <3>5, <3>11, <3>12, <4>1 DEF ObjectStart
      <4> QED BY <3>8, <3>10, <3>12, <4>2
    <3>13. CASE n # 1
      <4>1. Comma \in Alphabet
        BY Marks
      <4>2. Separator(n) = <<Comma>> /\ Len(Separator(n)) = 1
        BY <3>13, <4>1, Single DEF Separator
      <4>3. ObjectStart(o, n) = p + Len(u)
        <5>1. ObjectStart(o, n) = o[n - 1] + 1
          BY <3>13 DEF ObjectStart
        <5>2. PICK x : x = Len(f[n - 1])
          OBVIOUS
        <5>3. Len(u) = x + 1 /\ ObjectStart(o, n) = (p + x) + 1 /\ x \in Nat
          BY <3>5, <3>11, <4>2, <5>1, <5>2
        <5> QED BY ONLY <5>3, p \in Nat
      <4>4. At(t, o[n - 1], <<Comma>>)
        BY <3>2, <3>3, <3>6, <3>11, <4>2, AtRight
      <4>5. t[o[n - 1] + 1] = Comma
        BY <3>11, <4>1, <4>4, At1
      <4> QED BY <3>8, <3>10, <4>3, <4>5
    <3> QED BY <3>12, <3>13
  <2>6. Listed(t, p, o, triggers)
    BY <2>3, <2>4, <2>5 DEF Listed
  <2> QED BY <1>1, <1>2, <2>3, <2>6
<1> QED BY <1>1, <1>2, <1>3, <1>5

LEMMA JoinedType ==
  ASSUME NEW triggers \in Seq(Strings), NEW v, v = Joined(triggers)
  PROVE  v \in Strings /\ Len(v) \in Nat
<1>1. PICK t, p : t = triggers /\ p = 0
  OBVIOUS
<1>2. p \in Nat /\ Len(t) \in Nat
  BY <1>1, LenProperties
<1> QED BY <1>2, JoinedAt

LEMMA JoinedPlaces ==
  ASSUME NEW t, Len(t) \in Nat, NEW p \in Nat, NEW triggers \in Seq(Strings),
         At(t, p, Joined(triggers))
  PROVE  \E o : Listed(t, p, o, triggers) /\ o[Len(triggers)] = p + Len(Joined(triggers))
BY JoinedAt

\* A value that is a list of triggers, and where its parts are in a text: the date
\* ends at d, the objects of the array at the places o.
Record(v) == v.date \in Strings /\ v.triggers \in Seq(Strings)

Layout(t, v, d, o) ==
  /\ t[1] = LeftBrace /\ Labelled(t, 1, "V") /\ t[6] = "2" /\ t[7] = Comma
  /\ Labelled(t, 7, "D") /\ Quoted(t, 11, d, v.date) /\ t[d + 1] = Comma
  /\ Labelled(t, d + 1, "T") /\ t[d + 6] = "["
  /\ Listed(t, d + 6, o, v.triggers)
  /\ t[o[Len(v.triggers)] + 1] = "]" /\ o[Len(v.triggers)] + 1 <= Len(t)

\* The list in its brackets is text,
LEMMA ArrayType ==
  ASSUME NEW triggers \in Seq(Strings), NEW v, v = <<"[">> \o Joined(triggers) \o <<"]">>
  PROVE  v \in Strings /\ Len(v) = Len(Joined(triggers)) + 2 /\ Len(Joined(triggers)) \in Nat
<1>1. PICK c, d, u : c = "[" /\ d = "]" /\ u = Joined(triggers)
  OBVIOUS
<1>2. c \in Alphabet /\ d \in Alphabet
  BY <1>1, Marks
<1>3. <<c>> \in Strings /\ <<d>> \in Strings /\ Len(<<c>>) = 1 /\ Len(<<d>>) = 1
  BY <1>2, Single
<1>4. u \in Strings /\ Len(u) \in Nat
  BY <1>1, JoinedType
<1>5. PICK w : w = <<c>> \o u
  OBVIOUS
<1>6. v = w \o <<d>>
  BY <1>1, <1>5
<1>7. w \in Strings /\ Len(w) = 1 + Len(u)
  <2>1. w \in Strings /\ Len(w) = Len(<<c>>) + Len(u)
    BY <1>3, <1>4, <1>5, Joins
  <2> QED BY <1>3, <2>1
<1>8. v \in Strings /\ Len(v) = Len(u) + 2
  <2>1. v \in Strings /\ Len(v) = Len(w) + Len(<<d>>)
    BY <1>3, <1>6, <1>7, Joins
  <2> QED BY <1>3, <1>4, <1>7, <2>1
<1> QED BY <1>1, <1>4, <1>8

\* and stands in the text as a list.
LEMMA ArrayAt ==
  ASSUME NEW t, Len(t) \in Nat, NEW p \in Nat, NEW triggers \in Seq(Strings),
         NEW v, v = <<"[">> \o Joined(triggers) \o <<"]">>, At(t, p, v)
  PROVE  /\ t[p + 1] = "["
         /\ \E o : /\ Listed(t, p + 1, o, triggers)
                   /\ o[Len(triggers)] = p + 1 + Len(Joined(triggers))
         /\ t[p + 1 + Len(Joined(triggers)) + 1] = "]"
         /\ p + 1 + Len(Joined(triggers)) + 1 <= Len(t)
<1>1. PICK c, d, u : c = "[" /\ d = "]" /\ u = Joined(triggers)
  OBVIOUS
<1>2. c \in Alphabet /\ d \in Alphabet
  BY <1>1, Marks
<1>3. <<c>> \in Strings /\ <<d>> \in Strings /\ Len(<<c>>) = 1 /\ Len(<<d>>) = 1
  BY <1>2, Single
<1>4. u \in Strings /\ Len(u) \in Nat
  BY <1>1, JoinedType
<1>5. PICK w : w = <<c>> \o u
  OBVIOUS
<1>6. v = w \o <<d>>
  BY <1>1, <1>5
<1>7. w \in Strings /\ Len(w) = 1 + Len(u)
  <2>1. w \in Strings /\ Len(w) = Len(<<c>>) + Len(u)
    BY <1>3, <1>4, <1>5, Joins
  <2> QED BY <1>3, <2>1
<1>8. At(t, p, w) /\ At(t, p + Len(w), <<d>>)
  BY <1>3, <1>6, <1>7, AtLeft, AtRight
<1>9. At(t, p, <<c>>)
  BY <1>3, <1>4, <1>5, <1>8, AtLeft
<1>10. At(t, p + Len(<<c>>), u)
  BY <1>3, <1>4, <1>5, <1>8, AtRight
<1>11. t[p + 1] = c
  BY <1>2, <1>9, At1
<1>12. \E o : Listed(t, p + 1, o, triggers) /\ o[Len(triggers)] = p + 1 + Len(u)
  <2>1. PICK q : q = p + 1
    OBVIOUS
  <2>2. At(t, q, u) /\ q \in Nat
    BY <1>3, <1>10, <2>1
  <2>3. \E o : Listed(t, q, o, triggers) /\ o[Len(triggers)] = q + Len(u)
    <3>1. At(t, q, Joined(triggers))
      BY <1>1, <2>2
    <3>2. \E o : Listed(t, q, o, triggers) /\ o[Len(triggers)] = q + Len(Joined(triggers))
      BY <2>2, <3>1, JoinedPlaces
    <3> QED BY <1>1, <3>2
  <2> QED BY <2>1, <2>3
<1>13. t[(p + Len(w)) + 1] = d /\ (p + Len(w)) + 1 <= Len(t)
  <2>1. p + Len(w) \in Nat
    BY <1>4, <1>7
  <2> QED BY <1>2, <1>8, <2>1, At1
<1>14. (p + Len(w)) + 1 = p + 1 + Len(u) + 1
  BY <1>4, <1>7
<1> QED BY <1>1, <1>11, <1>12, <1>13, <1>14

\* A text that begins like what was saved, up to the end of the list, has its layout.
LEMMA HeadAt ==
  ASSUME NEW v, Record(v)
  PROVE  \E h \in Strings :
           /\ CacheText(v) = h \o <<RightBrace>> /\ Len(h) \in Nat
           /\ \A t : Len(t) \in Nat /\ At(t, 0, h) =>
                \E d, o : Layout(t, v, d, o) /\ o[Len(v.triggers)] + 1 = Len(h)
<1> DEFINE date == Escaped(v.date)
           array == <<"[">> \o Joined(v.triggers) \o <<"]">>
<1>1. PICK x1, comma, x6, k1, k2, k3 :
        /\ x1 = <<LeftBrace>> /\ comma = <<Comma>>
        /\ k1 = Pair(<<"V">>, <<"2">>) /\ k2 = Pair(<<"D">>, date) /\ k3 = Pair(<<"T">>, array)
  OBVIOUS
<1>2. PICK x2 : x2 = x1 \o k1
  OBVIOUS
<1>3. PICK x3 : x3 = x2 \o comma
  OBVIOUS
<1>4. PICK x4 : x4 = x3 \o k2
  OBVIOUS
<1>5. PICK x5 : x5 = x4 \o comma
  OBVIOUS
<1>6. PICK h : h = x5 \o k3
  OBVIOUS
<1>7. CacheText(v) = h \o <<RightBrace>>
  BY <1>1, <1>2, <1>3, <1>4, <1>5, <1>6
     DEF CacheText, VersionKey, DateKey, TriggersKey, FormatVersion
<1>8. PICK D, J : D = Len(date) /\ J = Len(Joined(v.triggers))
  OBVIOUS
<1>9. date \in Strings /\ D \in Nat
  BY <1>8, EscapedIsText, LenProperties DEF Strings, Record
<1>10. /\ "V" \in Alphabet /\ "D" \in Alphabet /\ "T" \in Alphabet /\ "2" \in Alphabet
       /\ Comma \in Alphabet /\ LeftBrace \in Alphabet /\ RightBrace \in Alphabet
  BY Marks
<1>11. x1 \in Strings /\ Len(x1) = 1 /\ comma \in Strings /\ Len(comma) = 1
       /\ <<"2">> \in Strings /\ Len(<<"2">>) = 1
  BY <1>1, <1>10, Single
<1>12. array \in Strings /\ Len(array) = J + 2 /\ J \in Nat
  <2>1. v.triggers \in Seq(Strings)
    BY DEF Record
  <2> QED BY <1>8, <2>1, ArrayType
<1> HIDE DEF date, array
<1>13. k1 \in Strings /\ Len(k1) = 5
  <2>1. PICK c, w : c = "V" /\ w = <<"2">>
    OBVIOUS
  <2>2. c \in Alphabet /\ w \in Strings /\ k1 = Pair(<<c>>, w) /\ Len(w) = 1
    BY <1>1, <1>10, <1>11, <2>1
  <2>3. k1 \in Strings /\ Len(k1) = 4 + Len(w)
    BY ONLY <2>2, PairType
  <2> QED BY <2>2, <2>3
<1>14. k2 \in Strings /\ Len(k2) = 4 + D
  <2>1. PICK c : c = "D"
    OBVIOUS
  <2>2. c \in Alphabet /\ date \in Strings /\ k2 = Pair(<<c>>, date)
    BY <1>1, <1>8, <1>9, <1>10, <2>1
  <2>3. k2 \in Strings /\ Len(k2) = 4 + Len(date)
    BY ONLY <2>2, PairType
  <2> QED BY <1>8, <2>3
<1>15. k3 \in Strings /\ Len(k3) = 6 + J
  <2>1. PICK c : c = "T"
    OBVIOUS
  <2>2. c \in Alphabet /\ array \in Strings
    BY <1>10, <1>12, <2>1
  <2>4. k3 = Pair(<<c>>, array)
    BY <1>1, <2>1, Zenon
  <2>3. k3 \in Strings /\ Len(k3) = 4 + Len(array)
    BY ONLY <2>2, <2>4, PairType
  <2> QED BY <1>12, <2>3
<1>16. x2 \in Strings /\ Len(x2) = 6
  <2>1. x2 \in Strings /\ Len(x2) = Len(x1) + Len(k1)
    BY <1>2, <1>11, <1>13, Joins
  <2> QED BY <1>11, <1>13, <2>1
<1>17. x3 \in Strings /\ Len(x3) = 7
  <2>1. x3 \in Strings /\ Len(x3) = Len(x2) + Len(comma)
    BY <1>3, <1>11, <1>16, Joins
  <2> QED BY <1>11, <1>16, <2>1
<1>18. x4 \in Strings /\ Len(x4) = 11 + D
  <2>1. x4 \in Strings /\ Len(x4) = Len(x3) + Len(k2)
    BY <1>4, <1>14, <1>17, Joins
  <2> QED BY <1>9, <1>14, <1>17, <2>1
<1>19. x5 \in Strings /\ Len(x5) = 12 + D
  <2>1. x5 \in Strings /\ Len(x5) = Len(x4) + Len(comma)
    BY <1>5, <1>11, <1>18, Joins
  <2> QED BY <1>9, <1>11, <1>18, <2>1
<1>20. h \in Strings /\ Len(h) = 18 + D + J
  <2>1. h \in Strings /\ Len(h) = Len(x5) + Len(k3)
    BY <1>6, <1>15, <1>19, Joins
  <2> QED BY <1>9, <1>12, <1>15, <1>19, <2>1
<1>21. ASSUME NEW t, Len(t) \in Nat, At(t, 0, h)
       PROVE  \E d, o : Layout(t, v, d, o) /\ o[Len(v.triggers)] + 1 = Len(h)
  <2>1. PICK z : z = 0
    OBVIOUS
  <2>2. z \in Nat /\ At(t, z, h)
    BY <1>21, <2>1
  <2>3. At(t, z, x5)
    BY <1>6, <1>15, <1>19, <1>21, <2>2, AtLeft
  <2>4. At(t, z + Len(x5), k3)
    BY <1>6, <1>15, <1>19, <1>21, <2>2, AtRight
  <2>5. At(t, z, x4)
    BY <1>5, <1>11, <1>18, <1>21, <2>2, <2>3, AtLeft
  <2>6. At(t, z + Len(x4), comma)
    BY <1>5, <1>11, <1>18, <1>21, <2>2, <2>3, AtRight
  <2>7. At(t, z, x3)
    BY <1>4, <1>14, <1>17, <1>21, <2>2, <2>5, AtLeft
  <2>8. At(t, z + Len(x3), k2)
    BY <1>4, <1>14, <1>17, <1>21, <2>2, <2>5, AtRight
  <2>9. At(t, z, x2)
    BY <1>3, <1>11, <1>16, <1>21, <2>2, <2>7, AtLeft
  <2>10. At(t, z + Len(x2), comma)
    BY <1>3, <1>11, <1>16, <1>21, <2>2, <2>7, AtRight
  <2>11. At(t, z, x1)
    BY <1>2, <1>11, <1>13, <1>21, <2>2, <2>9, AtLeft
  <2>12. At(t, z + Len(x1), k1)
    BY <1>2, <1>11, <1>13, <1>21, <2>2, <2>9, AtRight
  <2>13. PICK d : d = 11 + D
    OBVIOUS
  <2>14. /\ z + Len(x1) = 1 /\ z + Len(x2) = 6 /\ z + Len(x3) = 7
         /\ z + Len(x4) = d /\ z + Len(x5) = d + 1 /\ d \in Nat /\ d = 11 + Len(date)
    BY <1>8, <1>9, <1>11, <1>16, <1>17, <1>18, <1>19, <2>1, <2>13
  <2>15. t[1] = LeftBrace
    <3>1. PICK c : c = LeftBrace
      OBVIOUS
    <3>2. c \in Alphabet /\ At(t, z, <<c>>)
      BY <1>1, <1>10, <2>11, <3>1
    <3>3. t[z + 1] = c
      BY <2>2, <3>2, At1
    <3> QED BY <2>1, <3>1, <3>3
  <2>16. Labelled(t, 1, "V") /\ t[6] = "2"
    <3>1. PICK c, w, e : c = "V" /\ w = <<"2">> /\ e = "2"
      OBVIOUS
    <3>2. c \in Alphabet /\ w \in Strings /\ Len(t) \in Nat /\ 1 \in Nat /\ k1 = Pair(<<c>>, w) /\ At(t, 1, k1)
      BY <1>1, <1>10, <1>11, <1>21, <2>12, <2>14, <3>1
    <3>3. Labelled(t, 1, c) /\ At(t, 1 + 4, w)
      BY ONLY <3>2, PairAt
    <3>4. 5 \in Nat /\ e \in Alphabet /\ At(t, 5, <<e>>)
      <4>1. At(t, 5, w)
        BY <3>3
      <4> QED BY <1>10, <3>1, <4>1
    <3>5. t[5 + 1] = e
      BY ONLY <3>4, At1
    <3> QED BY <3>1, <3>3, <3>5
  <2>17. t[7] = Comma /\ t[d + 1] = Comma
    <3>1. PICK c : c = Comma
      OBVIOUS
    <3>2. c \in Alphabet /\ 6 \in Nat /\ d \in Nat /\ At(t, 6, <<c>>) /\ At(t, d, <<c>>)
      BY <1>1, <1>10, <2>6, <2>10, <2>14, <3>1
    <3>3. t[6 + 1] = c
      BY ONLY <3>2, At1
    <3>4. t[d + 1] = c
      BY ONLY <3>2, At1
    <3> QED BY <3>1, <3>3, <3>4
  <2>18. Labelled(t, 7, "D") /\ Quoted(t, 11, d, v.date)
    <3>1. PICK c : c = "D"
      OBVIOUS
    <3>2. c \in Alphabet /\ date \in Strings /\ Len(t) \in Nat /\ 7 \in Nat /\ k2 = Pair(<<c>>, date) /\ At(t, 7, k2)
      BY <1>1, <1>9, <1>10, <1>21, <2>8, <2>14, <3>1
    <3>3. Labelled(t, 7, c) /\ At(t, 7 + 4, date)
      BY ONLY <3>2, PairAt
    <3>4. At(t, 11, Escaped(v.date)) /\ 11 \in Nat /\ v.date \in Strings
      BY <3>3 DEF date, Record
    <3>5. Quoted(t, 11, 11 + Len(Escaped(v.date)), v.date)
      BY <1>21, <3>4, EscapedAt
    <3> QED BY <2>14, <3>1, <3>3, <3>5 DEF date
  <2>19. Labelled(t, d + 1, "T") /\ At(t, (d + 1) + 4, array)
    <3>1. PICK c, p : c = "T" /\ p = d + 1
      OBVIOUS
    <3>4. c \in Alphabet /\ array \in Strings /\ p \in Nat
      BY <1>10, <1>12, <2>14, <3>1
    <3>5. k3 = Pair(<<c>>, array)
      BY <1>1, <3>1, Zenon
    <3>6. At(t, p, k3)
      BY <2>4, <2>14, <3>1
    <3>2. c \in Alphabet /\ array \in Strings /\ Len(t) \in Nat /\ p \in Nat /\ k3 = Pair(<<c>>, array) /\ At(t, p, k3)
      BY <1>21, <3>4, <3>5, <3>6
    <3>3. Labelled(t, p, c) /\ At(t, p + 4, array)
      BY ONLY <3>2, PairAt
    <3> QED BY <3>1, <3>3
  <2>20. /\ t[d + 6] = "["
         /\ \E o : Listed(t, d + 6, o, v.triggers) /\ o[Len(v.triggers)] = d + 6 + J
         /\ t[d + 6 + J + 1] = "]" /\ d + 6 + J + 1 <= Len(t)
    <3>1. PICK p : p = d + 5
      OBVIOUS
    <3>2. p \in Nat /\ At(t, p, array) /\ v.triggers \in Seq(Strings) /\ p + 1 = d + 6
      <4>1. (d + 1) + 4 = p
        BY <2>14, <3>1
      <4>2. p \in Nat /\ p + 1 = d + 6
        BY <2>14, <3>1
      <4> QED BY <2>19, <4>1, <4>2 DEF Record
    <3>3. /\ t[p + 1] = "["
          /\ \E o : Listed(t, p + 1, o, v.triggers) /\ o[Len(v.triggers)] = p + 1 + Len(Joined(v.triggers))
          /\ t[p + 1 + Len(Joined(v.triggers)) + 1] = "]" /\ p + 1 + Len(Joined(v.triggers)) + 1 <= Len(t)
      BY <1>21, <3>2, ArrayAt DEF array
    <3> QED BY <1>8, <3>2, <3>3
  <2>21. PICK o : Listed(t, d + 6, o, v.triggers) /\ o[Len(v.triggers)] = d + 6 + J
    BY <2>20
  <2>22. Layout(t, v, d, o)
    BY <2>15, <2>16, <2>17, <2>18, <2>19, <2>20, <2>21 DEF Layout
  <2>23. o[Len(v.triggers)] + 1 = Len(h)
    BY <1>9, <1>12, <1>20, <2>13, <2>21
  <2> QED BY <2>22, <2>23
<1>22. Len(h) \in Nat
  BY <1>9, <1>12, <1>20
<1> QED BY <1>7, <1>20, <1>21, <1>22

-----------------------------------------------------------------------------
\* Strings: their end, and what is read from them.

\* No two of the characters are the same, as far as it matters.
LEMMA Distinct ==
  /\ Quote # Escape /\ Quote # Newline /\ Escape # Newline
  /\ Quote \notin {LeftBrace, RightBrace, Comma, "[", "]", ":", "n", "2", "V", "D", "T", "M"}
  /\ Escape \notin {LeftBrace, RightBrace, Comma, "[", "]", ":", "n", "2", "V", "D", "T", "M"}
  /\ Newline \notin {LeftBrace, RightBrace, Comma, "[", "]", ":", "n", "2", "V", "D", "T", "M"}
  /\ LeftBrace \notin {RightBrace, Comma, "[", "]", ":", "2"}
  /\ RightBrace \notin {Comma, "[", "]", ":", "2"}
  /\ Comma \notin {"[", "]", ":", "2"}
BY Zenon DEF Quote, Escape, Newline, LeftBrace, RightBrace, Comma

\* A label of one plain character is a string.
LEMMA LabelQuoted ==
  ASSUME NEW t, Len(t) \in Nat, NEW p \in Nat, NEW c, c \notin Special, Labelled(t, p, c)
  PROVE  Quoted(t, p, p + 3, <<c>>)
<1> DEFINE e == [n \in 0..1 |-> p + 1 + n]
<1>1. e[0] = p + 1 /\ e[1] = p + 2
  OBVIOUS
<1>2. Len(<<c>>) = 1 /\ <<c>>[1] = c
  OBVIOUS
<1> HIDE DEF e
<1>3. \A n \in 1..Len(<<c>>) : /\ <<c>>[n] \notin Special
                               /\ e[n] = e[n - 1] + 1 /\ t[e[n - 1] + 1] = <<c>>[n]
  <2>1. \A n \in 1..Len(<<c>>) : n = 1 /\ n - 1 = 0
    BY <1>2
  <2>2. t[(p + 1) + 1] = c
    BY DEF Labelled
  <2> QED BY <1>1, <1>2, <2>1, <2>2
<1>4. \A n \in 0..Len(<<c>>) : e[n] \in Nat /\ p < e[n] /\ e[n] <= e[Len(<<c>>)]
  <2>1. \A n \in 0..Len(<<c>>) : n = 0 \/ n = 1
    BY <1>2
  <2> QED BY <1>1, <1>2, <2>1
<1>5. t[e[Len(<<c>>)] + 1] = Quote /\ e[Len(<<c>>)] + 1 <= Len(t) /\ e[Len(<<c>>)] + 1 = p + 3
  <2>1. (p + 2) + 1 = p + 3
    OBVIOUS
  <2> QED BY <1>1, <1>2, <2>1 DEF Labelled
<1>6. Spelled(t, p, e, <<c>>)
  BY <1>1, <1>3, <1>4, <1>5 DEF Spelled, Labelled
<1> QED BY <1>5, <1>6 DEF Quoted

\* A scanner that follows a string stays in it up to the closing quote.
LEMMA InsideString ==
  ASSUME NEW t, Len(t) \in Nat, NEW p \in Nat, NEW raw \in Strings, NEW q, Quoted(t, p, q, raw),
         NEW f, NEW G, f[p + 1] \in G, f[p + 1].string, ~f[p + 1].escaped,
         \A i \in (p + 2)..(q - 1) : f[i - 1] \in G /\ f[i - 1].string =>
            /\ f[i].string <=> (f[i - 1].escaped \/ t[i] # Quote)
            /\ f[i].escaped <=> (~f[i - 1].escaped /\ t[i] = Escape)
            /\ f[i].string => f[i] \in G
  PROVE  /\ \A i \in (p + 1)..(q - 1) : f[i].string /\ f[i] \in G
         /\ ~f[q - 1].escaped /\ f[q - 1].string /\ f[q - 1] \in G
<1>1. PICK e : Spelled(t, p, e, raw) /\ q = e[Len(raw)] + 1
  BY DEF Quoted
<1> DEFINE L == Len(raw)
           T == {n \in 0..L : /\ ~f[e[n]].escaped
                              /\ \A i \in (p + 1)..e[n] : f[i].string /\ f[i] \in G}
<1>2. L \in Nat
  BY LenProperties DEF Strings
<1>3. \A n \in 0..L : e[n] \in Nat /\ p + 1 <= e[n] /\ e[n] <= q - 1 /\ q \in Nat
  <2>1. PICK x : x = e[Len(raw)]
    OBVIOUS
  <2>2. q = x + 1 /\ x \in Nat /\ \A n \in 0..L : e[n] \in Nat /\ p < e[n] /\ e[n] <= x
    <3>1. L \in 0..L
      BY <1>2
    <3> QED BY <1>1, <2>1, <3>1 DEF Spelled
  <2> QED BY ONLY p \in Nat, <2>2
<1>4. 0 \in T
  <2>1. e[0] = p + 1
    BY <1>1 DEF Spelled
  <2>2. \A i \in (p + 1)..(p + 1) : i = p + 1
    OBVIOUS
  <2> QED BY <1>2, <2>1, <2>2
<1>5. ASSUME NEW n \in 0..(L - 1), n \in T PROVE n + 1 \in T
  <2>1. PICK m, a, b : m = n + 1 /\ a = e[n] /\ b = e[m]
    OBVIOUS
  <2>2. m \in 1..L /\ m - 1 = n /\ m \in 0..L /\ n \in 0..L
    BY <1>2, <2>1
  <2>3. /\ IF raw[m] \in Special
           THEN b = a + 2 /\ t[a + 1] = Escape /\ t[a + 2] = Letter(raw[m])
           ELSE b = a + 1 /\ t[a + 1] = raw[m]
        /\ a \in Nat /\ b \in Nat /\ p + 1 <= a /\ a <= q - 1 /\ b <= q - 1 /\ q \in Nat
    BY <1>1, <1>3, <2>1, <2>2 DEF Spelled
  <2>4. ~f[a].escaped /\ f[a].string /\ f[a] \in G /\ \A i \in (p + 1)..a : f[i].string /\ f[i] \in G
    <3>1. ~f[a].escaped /\ \A i \in (p + 1)..a : f[i].string /\ f[i] \in G
      BY <1>5, <2>1
    <3>2. a \in (p + 1)..a
      BY <2>3
    <3> QED BY <3>1, <3>2
  <2>5. ~f[b].escaped /\ \A i \in (p + 1)..b : f[i].string /\ f[i] \in G
    <3>1. CASE raw[m] \in Special
      <4>1. /\ a + 1 \in (p + 2)..(q - 1) /\ (a + 1) - 1 = a
            /\ a + 2 \in (p + 2)..(q - 1) /\ (a + 2) - 1 = a + 1 /\ b = a + 2
            /\ t[a + 1] = Escape
        BY <2>3, <3>1
      <4>2. f[a + 1].string /\ f[a + 1].escaped /\ f[a + 1] \in G
        BY <2>4, <4>1, Distinct
      <4>3. f[a + 2].string /\ ~f[a + 2].escaped /\ f[a + 2] \in G
        BY <4>1, <4>2
      <4>4. \A i \in (p + 1)..b : i \in (p + 1)..a \/ i = a + 1 \/ i = a + 2
        BY <2>3, <4>1
      <4> QED BY <2>4, <4>1, <4>2, <4>3, <4>4
    <3>2. CASE raw[m] \notin Special
      <4>1. /\ a + 1 \in (p + 2)..(q - 1) /\ (a + 1) - 1 = a /\ b = a + 1
            /\ t[a + 1] # Escape /\ t[a + 1] # Quote
        BY <2>3, <3>2 DEF Special
      <4>2. f[a + 1].string /\ ~f[a + 1].escaped /\ f[a + 1] \in G
        BY <2>4, <4>1
      <4>3. \A i \in (p + 1)..b : i \in (p + 1)..a \/ i = a + 1
        BY <2>3, <4>1
      <4> QED BY <2>4, <4>1, <4>2, <4>3
    <3> QED BY <3>1, <3>2
  <2> QED BY <2>1, <2>2, <2>5
<1>6. L \in T
  <2>1. \A n \in 0..L : n \in T
    <3> HIDE DEF T
    <3> QED BY <1>2, <1>4, <1>5, UpTo
  <2> QED BY <1>2, <2>1
<1>7. e[L] = q - 1 /\ q - 1 \in (p + 1)..(q - 1)
  <2>1. L \in 0..L
    BY <1>2
  <2>2. PICK x : x = e[L]
    OBVIOUS
  <2>3. x \in Nat /\ q = x + 1 /\ p + 1 <= x
    BY <1>1, <1>3, <2>1, <2>2
  <2> QED BY <2>2, <2>3
<1> QED BY <1>6, <1>7

\* StringEnd finds the closing quote.
LEMMA StringEndAt ==
  ASSUME NEW t, Len(t) \in Nat, NEW p \in Nat, NEW raw \in Strings, NEW q, Quoted(t, p, q, raw)
  PROVE  StringEnd(t, p + 2) = q
<1>1. q \in Nat /\ p + 2 <= q /\ q <= Len(t) /\ t[q] = Quote
  BY QuotedOrder
<1>2. PICK k : k = p + 2
  OBVIOUS
<1>3. k \in Nat \ {0} /\ k - 1 <= Len(t) /\ k - 1 = p + 1
  BY <1>1, <1>2
<1>4. PICK f : /\ StringRun(f, t, k)
               /\ StringEnd(t, k) = LET ends == {n \in k..Len(t) : ~f[n].string}
                                    IN IF ends = {} THEN Len(t) + 1 ELSE Min(ends)
  BY <1>3, StringRuns
<1>5. /\ f[p + 1] = [string |-> TRUE, escaped |-> FALSE]
      /\ \A n \in (p + 1)..Len(t) : f[n] \in Flags
      /\ \A n \in (p + 2)..Len(t) : f[n] = InString(f[n - 1], t[n])
  BY <1>2, <1>3, <1>4 DEF StringRun
<1>6. \A s \in Flags : \A c : /\ InString(s, c).string <=> (s.escaped \/ c # Quote)
                              /\ InString(s, c).escaped <=> (~s.escaped /\ c = Escape)
  BY DEF Flags, InString
<1>7. \A i \in (p + 2)..q : /\ f[i].string <=> (f[i - 1].escaped \/ t[i] # Quote)
                            /\ f[i].escaped <=> (~f[i - 1].escaped /\ t[i] = Escape)
                            /\ f[i] \in Flags
  <2> SUFFICES ASSUME NEW i \in (p + 2)..q
               PROVE  /\ f[i].string <=> (f[i - 1].escaped \/ t[i] # Quote)
                      /\ f[i].escaped <=> (~f[i - 1].escaped /\ t[i] = Escape)
                      /\ f[i] \in Flags
    OBVIOUS
  <2>1. i \in (p + 2)..Len(t) /\ i \in (p + 1)..Len(t) /\ i - 1 \in (p + 1)..Len(t)
    BY <1>1
  <2> QED BY <1>5, <1>6, <2>1
<1>8. (\A i \in (p + 1)..(q - 1) : f[i].string) /\ ~f[q - 1].escaped
  <2>1. f[p + 1] \in Flags /\ f[p + 1].string /\ ~f[p + 1].escaped
    BY <1>1, <1>5
  <2>2. \A i \in (p + 2)..(q - 1) : i \in (p + 2)..q
    BY <1>1
  <2>3. \A i \in (p + 2)..(q - 1) : f[i - 1] \in Flags /\ f[i - 1].string =>
            /\ f[i].string <=> (f[i - 1].escaped \/ t[i] # Quote)
            /\ f[i].escaped <=> (~f[i - 1].escaped /\ t[i] = Escape)
            /\ f[i].string => f[i] \in Flags
    BY <1>7, <2>2
  <2>4. /\ \A i \in (p + 1)..(q - 1) : f[i].string /\ f[i] \in Flags
        /\ ~f[q - 1].escaped /\ f[q - 1].string /\ f[q - 1] \in Flags
    BY <2>1, <2>3, InsideString
  <2> QED BY <2>4
<1>9. ~f[q].string
  <2>1. q \in (p + 2)..q
    BY <1>1
  <2> QED BY <1>1, <1>7, <1>8, <2>1
<1> DEFINE ends == {n \in k..Len(t) : ~f[n].string}
<1>10. q \in ends /\ ends \subseteq Nat
  BY <1>1, <1>2, <1>3, <1>9
<1>11. \A n \in ends : ~(n < q)
  BY <1>1, <1>2, <1>8
<1>12. StringEnd(t, k) = Min(ends)
  BY <1>4, <1>10
<1> HIDE DEF ends
<1>13. Min(ends) \in ends /\ Min(ends) <= q /\ Min(ends) \in Nat
  BY <1>10, LeastIn
<1> QED BY <1>1, <1>2, <1>11, <1>12, <1>13

\* What a step of the unescaping does with a character.
LEMMA UnescapeSteps ==
  ASSUME NEW s \in PlainStates, NEW c
  PROVE  LET next == UnescapeStep(s, c)
         IN  /\ ~s.escaped /\ c = Escape => next.escaped /\ next.text = s.text
             /\ ~s.escaped /\ c # Escape => ~next.escaped /\ next.text = Append(s.text, c)
             /\ s.escaped /\ c \in {Quote, Escape, "n"} =>
                  ~next.escaped /\ next.text = s.text \o <<Lettered(c)>>
<1>1. ASSUME ~s.escaped, c = Escape
      PROVE  UnescapeStep(s, c).escaped /\ UnescapeStep(s, c).text = s.text
  <2>1. UnescapeStep(s, c) = [s EXCEPT !.escaped = TRUE]
    BY <1>1 DEF UnescapeStep
  <2> QED BY <2>1 DEF PlainStates
<1>2. ASSUME ~s.escaped, c # Escape
      PROVE  ~UnescapeStep(s, c).escaped /\ UnescapeStep(s, c).text = Append(s.text, c)
  <2>1. PICK x : x = Append(s.text, c)
    OBVIOUS
  <2>2. UnescapeStep(s, c) = [s EXCEPT !.text = x]
    BY <1>2, <2>1 DEF UnescapeStep
  <2>3. [s EXCEPT !.text = x].escaped = s.escaped /\ [s EXCEPT !.text = x].text = x
    BY DEF PlainStates
  <2> QED BY <1>2, <2>1, <2>2, <2>3
<1>3. ASSUME s.escaped, c \in {Quote, Escape, "n"}
      PROVE  ~UnescapeStep(s, c).escaped /\ UnescapeStep(s, c).text = s.text \o <<Lettered(c)>>
  <2>1. PICK x : x = s.text \o <<Lettered(c)>>
    OBVIOUS
  <2>2. UnescapeStep(s, c) = [text |-> x, escaped |-> FALSE]
    BY <1>3, <2>1 DEF UnescapeStep
  <2> QED BY <2>1, <2>2
<1> QED BY <1>1, <1>2, <1>3

\* Unescaping gives back the string that was written.
LEMMA UnescapedAt ==
  ASSUME NEW t \in Strings, NEW p \in Nat, NEW raw \in Strings, NEW q, Quoted(t, p, q, raw)
  PROVE  Unescaped(SubSeq(t, p + 2, q - 1)) = raw
<1>1. Len(t) \in Nat /\ q \in Nat /\ p + 2 <= q /\ q <= Len(t)
  <2>1. Len(t) \in Nat
    BY LenProperties DEF Strings
  <2> QED BY <2>1, QuotedOrder
<1>2. PICK u : u = SubSeq(t, p + 2, q - 1)
  OBVIOUS
<1>3. /\ u \in Strings /\ Len(u) = q - p - 2
      /\ \A i \in 1..(q - p - 2) : u[i] = t[p + 1 + i]
  <2>1. \A i \in (p + 2)..(q - 1) : t[i] \in Alphabet
    BY <1>1, ElementOfSeq DEF Strings
  <2>2. /\ SubSeq(t, p + 2, q - 1) \in Seq(Alphabet)
        /\ Len(SubSeq(t, p + 2, q - 1)) = IF p + 2 <= q - 1 THEN (q - 1) - (p + 2) + 1 ELSE 0
        /\ \A i \in 1..((q - 1) - (p + 2) + 1) : SubSeq(t, p + 2, q - 1)[i] = t[(p + 2) + i - 1]
    BY <1>1, <2>1, SubSeqProperties
  <2>3. Len(u) = q - p - 2
    BY <1>1, <1>2, <2>2
  <2>4. ASSUME NEW i \in 1..(q - p - 2) PROVE u[i] = t[p + 1 + i]
    <3>1. i \in 1..((q - 1) - (p + 2) + 1) /\ (p + 2) + i - 1 = p + 1 + i
      BY <1>1
    <3> QED BY <1>2, <2>2, <3>1
  <2> QED BY <1>2, <2>2, <2>3, <2>4 DEF Strings
<1>4. PICK f : /\ UnescapeRun(f, u)
               /\ Unescaped(u) = IF f[Len(u)].escaped THEN Append(f[Len(u)].text, Escape)
                                 ELSE f[Len(u)].text
  BY <1>3, UnescapeRuns
<1>5. PICK e : Spelled(t, p, e, raw) /\ q = e[Len(raw)] + 1
  BY DEF Quoted
<1> DEFINE L == Len(raw)
           T == {n \in 0..L : /\ ~f[e[n] - (p + 1)].escaped
                              /\ f[e[n] - (p + 1)].text = SubSeq(raw, 1, n)}
<1>6. L \in Nat /\ \A n \in 1..L : raw[n] \in Alphabet
  BY LenProperties, ElementOfSeq DEF Strings
<1>7. \A n \in 0..L : SubSeq(raw, 1, n) \in Strings
  <2> SUFFICES ASSUME NEW n \in 0..L PROVE SubSeq(raw, 1, n) \in Strings
    OBVIOUS
  <2>1. \A i \in 1..n : raw[i] \in Alphabet
    BY <1>6
  <2>2. n \in Int /\ 1 \in Int
    OBVIOUS
  <2> QED BY <2>1, <2>2, SubSeqProperties DEF Strings
<1>8. \A n \in 0..L : e[n] \in Nat /\ p + 1 <= e[n] /\ e[n] <= q - 1
  <2>1. PICK x : x = e[Len(raw)]
    OBVIOUS
  <2>2. q = x + 1 /\ x \in Nat /\ \A n \in 0..L : e[n] \in Nat /\ p < e[n] /\ e[n] <= x
    <3>1. L \in 0..L
      BY <1>6
    <3> QED BY <1>5, <2>1, <3>1 DEF Spelled
  <2> QED BY ONLY p \in Nat, <2>2
<1>9. 0 \in T
  <2>1. e[0] - (p + 1) = 0
    BY <1>5 DEF Spelled
  <2>2. SubSeq(raw, 1, 0) = <<>>
    BY SubSeqEmpty
  <2>3. f[0] = [text |-> <<>>, escaped |-> FALSE]
    BY <1>4 DEF UnescapeRun
  <2>4. ~f[0].escaped /\ f[0].text = SubSeq(raw, 1, 0)
    BY <2>2, <2>3
  <2> QED BY <1>6, <2>1, <2>4
<1>10. ASSUME NEW n \in 0..(L - 1), n \in T PROVE n + 1 \in T
  <2>1. PICK m, a, b, c : m = n + 1 /\ a = e[n] - (p + 1) /\ b = e[m] - (p + 1) /\ c = raw[m]
    OBVIOUS
  <2>2. m \in 1..L /\ m - 1 = n /\ m \in 0..L /\ n \in 0..L
    BY <1>6, <2>1
  <2>3. e[n] = a + p + 1 /\ e[m] = b + p + 1 /\ a \in Nat /\ b \in Nat /\ b <= Len(u)
    <3>1. PICK x, y : x = e[n] /\ y = e[m]
      OBVIOUS
    <3>2. /\ x \in Nat /\ p + 1 <= x /\ x <= q - 1 /\ y \in Nat /\ p + 1 <= y /\ y <= q - 1
          /\ a = x - (p + 1) /\ b = y - (p + 1) /\ Len(u) = q - p - 2 /\ q \in Nat
      BY <1>1, <1>3, <1>8, <2>1, <2>2, <3>1
    <3>3. x = a + p + 1 /\ y = b + p + 1 /\ a \in Nat /\ b \in Nat /\ b <= Len(u)
      BY ONLY p \in Nat, <3>2
    <3> QED BY <3>1, <3>3
  <2>4. IF c \in Special
        THEN e[m] = e[n] + 2 /\ t[e[n] + 1] = Escape /\ t[e[n] + 2] = Letter(c)
        ELSE e[m] = e[n] + 1 /\ t[e[n] + 1] = c
    BY <1>5, <2>1, <2>2 DEF Spelled
  <2>5. ~f[a].escaped /\ f[a].text = SubSeq(raw, 1, n) /\ c \in Alphabet
    BY <1>6, <1>10, <2>1, <2>2
  <2>6. PICK w : w = SubSeq(raw, 1, n)
    OBVIOUS
  <2>7. w \in Strings /\ SubSeq(raw, 1, m) = w \o <<c>> /\ Append(w, c) = w \o <<c>>
    <3>1. 1 \in 1..L /\ m \in 1..L
      BY <2>2
    <3>2. SubSeq(raw, 1, m) = SubSeq(raw, 1, m - 1) \o <<raw[m]>>
      BY <3>1, SubSeqRecursiveSecond DEF Strings
    <3>3. w \in Strings
      BY <1>7, <2>2, <2>6
    <3>4. Append(w, c) = w \o <<c>>
      BY <2>5, <3>3, AppendIsConcat DEF Strings
    <3> QED BY <2>1, <2>2, <2>6, <3>2, <3>3, <3>4
  <2>8. ~f[a].escaped /\ f[a].text = w /\ \A i \in 0..Len(u) : f[i] \in PlainStates
    BY <1>4, <2>5, <2>6 DEF UnescapeRun
  <2>9. ~f[b].escaped /\ f[b].text = w \o <<c>>
    <3>1. CASE c \in Special
      <4>1. /\ a + 1 \in 1..Len(u) /\ a + 2 \in 1..Len(u) /\ b = a + 2
            /\ a \in 0..Len(u) /\ a + 1 \in 0..Len(u)
            /\ (a + 1) - 1 = a /\ (a + 2) - 1 = a + 1
            /\ p + 1 + (a + 1) = e[n] + 1 /\ p + 1 + (a + 2) = e[n] + 2
        BY <1>3, <1>1, <2>3, <2>4, <3>1
      <4>2. u[a + 1] = Escape /\ u[a + 2] = Letter(c)
        BY <1>3, <2>4, <3>1, <4>1
      <4>3. f[a + 1] = UnescapeStep(f[a], Escape) /\ f[a + 2] = UnescapeStep(f[a + 1], Letter(c))
        BY <1>4, <4>1, <4>2 DEF UnescapeRun
      <4>4. f[a + 1].escaped /\ f[a + 1].text = w
        <5>1. f[a] \in PlainStates /\ ~f[a].escaped
          BY <2>8, <4>1
        <5>2. UnescapeStep(f[a], Escape).escaped /\ UnescapeStep(f[a], Escape).text = f[a].text
          BY <5>1, UnescapeSteps
        <5> QED BY <2>8, <4>3, <5>2
      <4>5. Letter(c) \in {Quote, Escape, "n"} /\ Lettered(Letter(c)) = c
        BY <3>1, Distinct DEF Special, Letter, Lettered
      <4>6. ~f[a + 2].escaped /\ f[a + 2].text = w \o <<c>>
        <5>1. f[a + 1] \in PlainStates
          BY <2>8, <4>1
        <5>2. UnescapeStep(f[a + 1], Letter(c)).text = f[a + 1].text \o <<Lettered(Letter(c))>>
              /\ ~UnescapeStep(f[a + 1], Letter(c)).escaped
          BY <4>4, <4>5, <5>1, UnescapeSteps
        <5> QED BY <4>3, <4>4, <4>5, <5>2
      <4> QED BY <4>1, <4>6
    <3>2. CASE c \notin Special
      <4>1. /\ a + 1 \in 1..Len(u) /\ a \in 0..Len(u) /\ b = a + 1 /\ (a + 1) - 1 = a
            /\ p + 1 + (a + 1) = e[n] + 1
        BY <1>1, <1>3, <2>3, <2>4, <3>2
      <4>2. u[a + 1] = c
        BY <1>3, <2>4, <3>2, <4>1
      <4>3. f[a + 1] = UnescapeStep(f[a], c)
        BY <1>4, <4>1, <4>2 DEF UnescapeRun
      <4>4. ~f[a + 1].escaped /\ f[a + 1].text = Append(w, c)
        <5>1. c # Escape
          BY <3>2 DEF Special
        <5>2. f[a] \in PlainStates /\ ~f[a].escaped
          BY <2>8, <4>1
        <5>3. ~UnescapeStep(f[a], c).escaped /\ UnescapeStep(f[a], c).text = Append(f[a].text, c)
          BY <5>1, <5>2, UnescapeSteps
        <5> QED BY <2>8, <4>3, <5>3
      <4> QED BY <2>7, <4>1, <4>4
    <3> QED BY <3>1, <3>2
  <2>10. ~f[e[m] - (p + 1)].escaped /\ f[e[m] - (p + 1)].text = SubSeq(raw, 1, m)
    BY <2>1, <2>7, <2>9
  <2> QED BY <2>1, <2>2, <2>10
<1>11. \A n \in 0..L : n \in T
  <2> HIDE DEF T
  <2> QED BY <1>6, <1>9, <1>10, UpTo
<1>12. ~f[Len(u)].escaped /\ f[Len(u)].text = SubSeq(raw, 1, L)
  <2>1. L \in T /\ L \in 0..L
    BY <1>6, <1>11
  <2>2. PICK x : x = e[L]
    OBVIOUS
  <2>3. x \in Nat /\ q = x + 1
    BY <1>5, <1>8, <2>1, <2>2
  <2>4. x - (p + 1) = Len(u)
    BY <1>1, <1>3, <2>3
  <2> QED BY <2>1, <2>2, <2>4
<1>13. SubSeq(raw, 1, L) = raw
  BY SubSeqFull DEF Strings
<1> QED BY <1>2, <1>4, <1>12, <1>13

-----------------------------------------------------------------------------
\* The matcher on a saved text.

\* The matcher outside strings, inside d brackets of its kind.
Between(s, d) ==
  s \in MatchStates /\ s.depth = d /\ ~s.string /\ ~s.escaped /\ s.end = NotFound /\ ~s.refused

\* What a step of the matcher does outside strings.
LEMMA MatchMoves ==
  ASSUME NEW open \in Opening, NEW limit \in Nat, NEW d \in Int, NEW s, Between(s, d), NEW c,
         NEW n \in Nat
  PROVE  LET close == ClosingOf(open)
             next == MatchStep(open, close, limit, s, c, n)
         IN  /\ c \notin {Quote, open, close} => Between(next, d)
             /\ c = open /\ d < limit => Between(next, d + 1)
             /\ c = close /\ d # 1 => Between(next, d - 1)
             /\ c = close /\ d = 1 => next.end = n
             /\ c = Quote => /\ next \in MatchStates /\ next.depth = d /\ next.string
                             /\ ~next.escaped /\ next.end = NotFound /\ ~next.refused
<1>1. PICK close : close = ClosingOf(open)
  OBVIOUS
<1>2. open # close /\ Quote # open /\ Quote # close
  BY <1>1, Distinct, Zenon DEF ClosingOf, Opening
<1>3. PICK next : next = MatchStep(open, close, limit, s, c, n)
  OBVIOUS
<1>4. next \in MatchStates
  BY <1>3, MatchStepType DEF Between
<1>5. ASSUME c \notin {Quote, open, close} PROVE Between(next, d)
  BY <1>3, <1>5 DEF MatchStep, Between
<1>6. ASSUME c = open, d < limit PROVE Between(next, d + 1)
  <2>1. next = [s EXCEPT !.depth = s.depth + 1, !.refused = s.depth >= limit]
    BY <1>2, <1>3, <1>6, Zenon DEF MatchStep, Between
  <2>2. PICK e, r : e = s.depth + 1 /\ r = (s.depth >= limit)
    OBVIOUS
  <2>3. next = [s EXCEPT !.depth = e, !.refused = r]
    BY <2>1, <2>2, Zenon
  <2>4. next.depth = e /\ next.refused = r /\ next.string = s.string /\ next.escaped = s.escaped /\ next.end = s.end
    BY <2>3 DEF Between, MatchStates
  <2>5. e = d + 1 /\ ~r
    <3>1. s.depth = d /\ ~(s.depth >= limit)
      BY <1>6 DEF Between
    <3> QED BY <2>2, <3>1
  <2> QED BY <1>4, <2>4, <2>5 DEF Between
<1>7. ASSUME c = close
      PROVE  /\ d # 1 => Between(next, d - 1)
             /\ d = 1 => next.end = n
  <2>1. PICK g, e : g = s.depth - 1 /\ e = IF s.depth = 1 THEN n ELSE NotFound
    OBVIOUS
  <2>2. next = [s EXCEPT !.depth = g, !.end = e]
    <3>1. next = [s EXCEPT !.depth = s.depth - 1, !.end = IF s.depth = 1 THEN n ELSE NotFound]
      BY <1>2, <1>3, <1>7, Zenon DEF MatchStep, Between
    <3> QED BY <2>1, <3>1, Zenon
  <2>3. next.depth = g /\ next.end = e /\ next.string = s.string /\ next.escaped = s.escaped /\ next.refused = s.refused
    BY <2>2 DEF Between, MatchStates
  <2>4. d = s.depth /\ (d # 1 => g = d - 1 /\ e = NotFound) /\ (d = 1 => e = n)
    BY <2>1 DEF Between
  <2> QED BY <1>4, <2>3, <2>4 DEF Between
<1>8. ASSUME c = Quote
      PROVE  /\ next \in MatchStates /\ next.depth = d /\ next.string
             /\ ~next.escaped /\ next.end = NotFound /\ ~next.refused
  <2>1. next = [s EXCEPT !.string = TRUE]
    BY <1>2, <1>3, <1>8 DEF MatchStep, Between
  <2>2. next.depth = s.depth /\ next.string /\ next.escaped = s.escaped /\ next.end = s.end /\ next.refused = s.refused
    BY <2>1 DEF Between, MatchStates
  <2> QED BY <1>4, <2>2 DEF Between
<1> QED BY <1>1, <1>3, <1>5, <1>6, <1>7, <1>8

\* The matcher passes a string whatever brackets it contains,
LEMMA MatchString ==
  ASSUME NEW t, Len(t) \in Nat, NEW k \in 1..Len(t), t[k] \in Opening, NEW limit \in Nat,
         NEW f, MatchRun(f, t, k, limit), NEW d \in Int,
         NEW p \in Nat, k <= p, NEW raw \in Strings, NEW q, Quoted(t, p, q, raw), Between(f[p], d)
  PROVE  Between(f[q], d)
<1> DEFINE G == {s \in MatchStates : s.depth = d /\ s.end = NotFound /\ ~s.refused}
           open == t[k]
           close == ClosingOf(open)
<1>1. q \in Nat /\ p + 2 <= q /\ q <= Len(t) /\ t[p + 1] = Quote /\ t[q] = Quote
  BY QuotedOrder
<1>2. \A i \in (p + 1)..q : f[i] = MatchStep(open, close, limit, f[i - 1], t[i], i)
  <2> SUFFICES ASSUME NEW i \in (p + 1)..q PROVE f[i] = MatchStep(open, close, limit, f[i - 1], t[i], i)
    OBVIOUS
  <2>1. i \in (k + 1)..Len(t)
    BY <1>1
  <2> QED BY <2>1 DEF MatchRun
<1>3. f[p + 1] \in G /\ f[p + 1].string /\ ~f[p + 1].escaped
  <2>1. f[p + 1] = MatchStep(open, close, limit, f[p], Quote, p + 1)
    <3>1. p + 1 \in (p + 1)..q /\ (p + 1) - 1 = p
      BY <1>1
    <3> QED BY <1>1, <1>2, <3>1
  <2> HIDE DEF open
  <2>2. open \in Opening
    BY DEF open
  <2> QED BY <2>1, <2>2, MatchMoves
<1>4. \A s \in G : \A c, n : s.string =>
        /\ MatchStep(open, close, limit, s, c, n) = InString(s, c)
        /\ InString(s, c) \in G
        /\ InString(s, c).string <=> (s.escaped \/ c # Quote)
        /\ InString(s, c).escaped <=> (~s.escaped /\ c = Escape)
  <2> SUFFICES ASSUME NEW s \in G, NEW c, NEW n, s.string
               PROVE  /\ MatchStep(open, close, limit, s, c, n) = InString(s, c)
                      /\ InString(s, c) \in G
                      /\ InString(s, c).string <=> (s.escaped \/ c # Quote)
                      /\ InString(s, c).escaped <=> (~s.escaped /\ c = Escape)
    OBVIOUS
  <2>1. MatchStep(open, close, limit, s, c, n) = InString(s, c)
    BY DEF MatchStep
  <2>2. InString(s, c) \in G
    BY DEF InString, MatchStates
  <2>3. /\ InString(s, c).string <=> (s.escaped \/ c # Quote)
        /\ InString(s, c).escaped <=> (~s.escaped /\ c = Escape)
    BY DEF InString, MatchStates
  <2> QED BY <2>1, <2>2, <2>3
<1>5. \A i \in (p + 2)..q : f[i - 1] \in G /\ f[i - 1].string =>
        /\ f[i].string <=> (f[i - 1].escaped \/ t[i] # Quote)
        /\ f[i].escaped <=> (~f[i - 1].escaped /\ t[i] = Escape)
        /\ f[i] \in G
  <2> SUFFICES ASSUME NEW i \in (p + 2)..q, f[i - 1] \in G, f[i - 1].string
               PROVE  /\ f[i].string <=> (f[i - 1].escaped \/ t[i] # Quote)
                      /\ f[i].escaped <=> (~f[i - 1].escaped /\ t[i] = Escape)
                      /\ f[i] \in G
    OBVIOUS
  <2>1. f[i] = MatchStep(open, close, limit, f[i - 1], t[i], i)
    <3>1. i \in (p + 1)..q
      OBVIOUS
    <3> QED BY <1>2, <3>1
  <2> HIDE DEF G, open, close
  <2> QED BY <1>4, <2>1
<1>6. ~f[q - 1].escaped /\ f[q - 1].string /\ f[q - 1] \in G
  <2> HIDE DEF G
  <2>1. \A i \in (p + 2)..(q - 1) : i \in (p + 2)..q
    BY <1>1
  <2>2. \A i \in (p + 2)..(q - 1) : f[i - 1] \in G /\ f[i - 1].string =>
          /\ f[i].string <=> (f[i - 1].escaped \/ t[i] # Quote)
          /\ f[i].escaped <=> (~f[i - 1].escaped /\ t[i] = Escape)
          /\ f[i].string => f[i] \in G
    BY <1>5, <2>1
  <2>3. /\ \A i \in (p + 1)..(q - 1) : f[i].string /\ f[i] \in G
        /\ ~f[q - 1].escaped /\ f[q - 1].string /\ f[q - 1] \in G
    BY <1>3, <2>2, InsideString
  <2> QED BY <2>3
<1>7. f[q] \in G /\ ~f[q].string /\ ~f[q].escaped
  <2> HIDE DEF G
  <2>1. q \in (p + 2)..q
    BY <1>1
  <2> QED BY <1>1, <1>5, <1>6, <2>1, Distinct
<1> QED BY <1>7 DEF Between

\* One character further.
LEMMA MatchNext ==
  ASSUME NEW t, Len(t) \in Nat, NEW k \in 1..Len(t), t[k] \in Opening, NEW limit \in Nat,
         NEW f, MatchRun(f, t, k, limit), NEW d \in Int,
         NEW p \in Nat, k <= p, p + 1 <= Len(t), Between(f[p], d)
  PROVE  LET open == t[k]
             close == ClosingOf(open)
         IN  /\ t[p + 1] \notin {Quote, open, close} => Between(f[p + 1], d)
             /\ t[p + 1] = open /\ d < limit => Between(f[p + 1], d + 1)
             /\ t[p + 1] = close /\ d # 1 => Between(f[p + 1], d - 1)
             /\ t[p + 1] = close /\ d = 1 => f[p + 1].end = p + 1
<1>1. PICK open, c, s, n : open = t[k] /\ c = t[p + 1] /\ s = f[p] /\ n = p + 1
  OBVIOUS
<1>2. n \in (k + 1)..Len(t) /\ n - 1 = p /\ n \in Nat
  BY <1>1
<1>3. f[n] = MatchStep(open, ClosingOf(open), limit, s, c, n)
  BY <1>1, <1>2 DEF MatchRun
<1>4. open \in Opening /\ Between(s, d)
  BY <1>1
<1>5. /\ c \notin {Quote, open, ClosingOf(open)} => Between(f[n], d)
      /\ c = open /\ d < limit => Between(f[n], d + 1)
      /\ c = ClosingOf(open) /\ d # 1 => Between(f[n], d - 1)
      /\ c = ClosingOf(open) /\ d = 1 => f[n].end = n
  BY <1>2, <1>3, <1>4, MatchMoves
<1> QED BY <1>1, <1>5

\* Two of the four cases, on their own: one bracket deeper,
LEMMA MatchOpens ==
  ASSUME NEW t, Len(t) \in Nat, NEW k \in 1..Len(t), t[k] \in Opening, NEW limit \in Nat,
         NEW f, MatchRun(f, t, k, limit), NEW d \in Int,
         NEW p \in Nat, k <= p, p + 1 <= Len(t), Between(f[p], d), t[p + 1] = t[k], d < limit
  PROVE  Between(f[p + 1], d + 1)
<1>1. /\ Len(t) \in Nat /\ k \in 1..Len(t) /\ t[k] \in Opening /\ limit \in Nat
      /\ MatchRun(f, t, k, limit) /\ d \in Int
      /\ p \in Nat /\ k <= p /\ p + 1 <= Len(t) /\ Between(f[p], d)
  OBVIOUS
<1>2. t[p + 1] = t[k] /\ d < limit => Between(f[p + 1], d + 1)
  BY ONLY <1>1, MatchNext, ZenonT(30)
<1> QED BY <1>2

\* and the bracket that closes the first one.
LEMMA MatchCloses ==
  ASSUME NEW t, Len(t) \in Nat, NEW k \in 1..Len(t), t[k] \in Opening, NEW limit \in Nat,
         NEW f, MatchRun(f, t, k, limit),
         NEW p \in Nat, k <= p, p + 1 <= Len(t), Between(f[p], 1), t[p + 1] = ClosingOf(t[k])
  PROVE  f[p + 1].end = p + 1
<1>1. PICK open, c, s, n, d :
        open = t[k] /\ c = t[p + 1] /\ s = f[p] /\ n = p + 1 /\ d = 1
  OBVIOUS
<1>2. n \in (k + 1)..Len(t) /\ n - 1 = p /\ n \in Nat
  BY <1>1
<1>3. f[n] = MatchStep(open, ClosingOf(open), limit, s, c, n)
  BY <1>1, <1>2 DEF MatchRun
<1>4. open \in Opening /\ Between(s, d) /\ d \in Int /\ d = 1 /\ c = ClosingOf(open)
  BY <1>1
<1>5. c = ClosingOf(open) /\ d = 1 => f[n].end = n
  BY <1>2, <1>3, <1>4, MatchMoves
<1> QED BY <1>1, <1>4, <1>5

\* a label with its colon,
LEMMA MatchLabel ==
  ASSUME NEW t, Len(t) \in Nat, NEW k \in 1..Len(t), t[k] \in Opening, NEW limit \in Nat,
         NEW f, MatchRun(f, t, k, limit), NEW d \in Int,
         NEW p \in Nat, k <= p, NEW c \in Alphabet, c \notin Special, Labelled(t, p, c), Between(f[p], d)
  PROVE  Between(f[p + 4], d)
<1>1. Quoted(t, p, p + 3, <<c>>) /\ <<c>> \in Strings
  BY LabelQuoted, Single
<1>2. Between(f[p + 3], d)
  BY <1>1, MatchString
<1>3. ":" \notin {Quote, t[k], ClosingOf(t[k])}
  BY Distinct, Zenon DEF ClosingOf, Opening
<1>4. PICK n : n = p + 3
  OBVIOUS
<1>5. n \in Nat /\ k <= n /\ n + 1 = p + 4 /\ n + 1 <= Len(t) /\ t[n + 1] = ":" /\ Between(f[n], d)
  BY <1>2, <1>4 DEF Labelled
<1>6. Between(f[n + 1], d)
  BY <1>3, <1>5, MatchNext
<1> QED BY <1>5, <1>6

\* an object,
LEMMA MatchObject ==
  ASSUME NEW t, Len(t) \in Nat, NEW k \in 1..Len(t), t[k] \in Opening, NEW limit \in Nat,
         NEW f, MatchRun(f, t, k, limit), NEW d \in Nat \ {0}, t[k] = "[" \/ d < limit,
         NEW p \in Nat, k <= p, NEW o, NEW raw \in Strings, ObjectAt(t, p, o, raw), Between(f[p], d)
  PROVE  Between(f[o], d)
<1> DEFINE e == IF t[k] = "[" THEN d ELSE d + 1
<1>1. /\ t[p + 1] = LeftBrace /\ Labelled(t, p + 1, "M") /\ Quoted(t, p + 5, o - 1, raw)
      /\ t[o] = RightBrace /\ o <= Len(t) /\ o \in Nat /\ p + 7 < o
  BY DEF ObjectAt
<1>2. e \in Int /\ d \in Int /\ (e # 1 \/ t[k] = "[")
  OBVIOUS
<1>3. CASE t[k] = "["
  <2>1. ClosingOf(t[k]) = "]" /\ LeftBrace \notin {Quote, t[k], "]"} /\ RightBrace \notin {Quote, t[k], "]"}
    BY <1>3, Distinct, Zenon DEF ClosingOf
  <2>2. Between(f[p + 1], d)
    <3>1. p + 1 <= Len(t) /\ d \in Int
      BY <1>1
    <3>2. t[p + 1] \notin {Quote, t[k], ClosingOf(t[k])}
      BY <1>1, <2>1, Zenon
    <3> QED BY <3>1, <3>2, MatchNext
  <2>3. Between(f[o - 1], d)
    <3>1. PICK n : n = p + 1
      OBVIOUS
    <3>2. n \in Nat /\ k <= n /\ Labelled(t, n, "M") /\ Between(f[n], d) /\ n + 4 = p + 5
      BY <1>1, <2>2, <3>1
    <3>3. "M" \in Alphabet /\ "M" \notin Special
      BY Marks, Distinct, Zenon DEF Special
    <3>4. Between(f[n + 4], d)
      BY <3>2, <3>3, MatchLabel
    <3>5. p + 5 \in Nat /\ k <= p + 5 /\ Between(f[p + 5], d)
      BY <3>2, <3>4
    <3> QED BY <1>1, <3>5, MatchString
  <2>4. PICK n : n = o - 1
    OBVIOUS
  <2>5. n \in Nat /\ k <= n /\ n + 1 = o /\ n + 1 <= Len(t) /\ t[n + 1] = RightBrace /\ Between(f[n], d)
    BY <1>1, <2>3, <2>4
  <2>6. Between(f[n + 1], d)
    <3>1. t[n + 1] \notin {Quote, t[k], ClosingOf(t[k])}
      BY <2>1, <2>5
    <3> QED BY <1>2, <2>5, <3>1, MatchNext
  <2> QED BY <2>5, <2>6
<1>4. CASE t[k] # "["
  <2>1. t[k] = LeftBrace /\ ClosingOf(t[k]) = RightBrace
    BY <1>4, Zenon DEF ClosingOf, Opening
  <2>2. Between(f[p + 1], d + 1)
    <3>1. p + 1 <= Len(t) /\ d \in Int /\ d < limit
      BY <1>1, <1>4
    <3>2. t[p + 1] = t[k]
      BY <1>1, <2>1, Zenon
    <3> QED BY <3>1, <3>2, MatchOpens
  <2>3. Between(f[o - 1], d + 1)
    <3>1. PICK n : n = p + 1
      OBVIOUS
    <3>2. n \in Nat /\ k <= n /\ Labelled(t, n, "M") /\ Between(f[n], d + 1) /\ n + 4 = p + 5 /\ d + 1 \in Int
      BY <1>1, <2>2, <3>1
    <3>3. "M" \in Alphabet /\ "M" \notin Special
      BY Marks, Distinct, Zenon DEF Special
    <3>4. Between(f[n + 4], d + 1)
      BY <3>2, <3>3, MatchLabel
    <3>5. p + 5 \in Nat /\ k <= p + 5 /\ Between(f[p + 5], d + 1)
      BY <3>2, <3>4
    <3> QED BY <1>1, <3>2, <3>5, MatchString
  <2>4. PICK n, g : n = o - 1 /\ g = d + 1
    OBVIOUS
  <2>5. n \in Nat /\ k <= n /\ n + 1 = o /\ n + 1 <= Len(t) /\ t[n + 1] = RightBrace /\ Between(f[n], g)
        /\ g \in Int /\ g # 1 /\ g - 1 = d
    BY <1>1, <2>3, <2>4
  <2>6. Between(f[n + 1], g - 1)
    BY <2>1, <2>5, MatchNext
  <2> QED BY <2>5, <2>6
<1> QED BY <1>3, <1>4

\* and a list of them.
LEMMA MatchList ==
  ASSUME NEW t, Len(t) \in Nat, NEW k \in 1..Len(t), t[k] \in Opening, NEW limit \in Nat,
         NEW f, MatchRun(f, t, k, limit), NEW d \in Nat \ {0}, t[k] = "[" \/ d < limit,
         NEW p \in Nat, k <= p, NEW triggers \in Seq(Strings), NEW o, Listed(t, p, o, triggers),
         Between(f[p], d)
  PROVE  Between(f[o[Len(triggers)]], d)
<1> DEFINE L == Len(triggers)
           T == {n \in 0..L : Between(f[o[n]], d)}
<1>1. L \in Nat /\ \A n \in 1..L : triggers[n] \in Strings
  BY LenProperties, ElementOfSeq
<1>2. 0 \in T
  BY <1>1 DEF Listed
<1>3. Comma \notin {Quote, t[k], ClosingOf(t[k])}
  BY Distinct, Zenon DEF ClosingOf, Opening
<1>4. ASSUME NEW n \in 0..(L - 1), n \in T PROVE n + 1 \in T
  <2>1. PICK m, a : m = n + 1 /\ a = o[n]
    OBVIOUS
  <2>2. m \in 1..L /\ m - 1 = n /\ m \in 0..L /\ n \in 0..L /\ (m = 1 <=> n = 0)
    BY <1>1, <2>1
  <2>3. /\ a \in Nat /\ p <= a /\ a <= Len(t)
        /\ ObjectAt(t, ObjectStart(o, m), o[m], triggers[m])
        /\ m # 1 => t[a + 1] = Comma
    BY <2>1, <2>2 DEF Listed
  <2>4. Between(f[a], d)
    BY <1>4, <2>1
  <2>5. PICK b : b = ObjectStart(o, m)
    OBVIOUS
  <2>6. b \in Nat /\ k <= b /\ Between(f[b], d)
    <3>1. CASE m = 1
      <4>1. b = a
        BY <2>1, <2>2, <2>5, <3>1 DEF ObjectStart
      <4> QED BY <2>3, <2>4, <4>1
    <3>2. CASE m # 1
      <4>1. b = a + 1
        BY <2>1, <2>2, <2>5, <3>2 DEF ObjectStart
      <4>2. a + 1 <= Len(t)
        BY <2>3, <2>5, <4>1 DEF ObjectAt
      <4>3. Between(f[a + 1], d)
        <5>1. t[a + 1] \notin {Quote, t[k], ClosingOf(t[k])} /\ k <= a /\ d \in Int
          BY <1>3, <2>3, <3>2
        <5> QED BY <2>3, <2>4, <4>2, <5>1, MatchNext
      <4> QED BY <2>3, <4>1, <4>3
    <3> QED BY <3>1, <3>2
  <2>7. Between(f[o[m]], d)
    BY <1>1, <2>2, <2>3, <2>5, <2>6, MatchObject
  <2> QED BY <2>1, <2>2, <2>7
<1>5. \A n \in 0..L : n \in T
  <2> HIDE DEF T
  <2> QED BY <1>1, <1>2, <1>4, UpTo
<1> QED BY <1>1, <1>5

\* The bracket at k is closed where the matcher has ended.
LEMMA MatchFound ==
  ASSUME NEW t, Len(t) \in Nat, NEW k \in 1..Len(t), NEW limit \in Nat,
         NEW f, MatchRun(f, t, k, limit), NEW n \in k..Len(t), f[n].end = n
  PROVE  f[Len(t)].end = n
<1>1. f[n].end = Since(f[Len(t)].end, n)
  BY MatchEnds
<1>2. n \in Nat /\ n # NotFound
  BY DEF NotFound
<1> QED BY <1>1, <1>2 DEF Since

\* The matcher begins inside one bracket.
LEMMA MatchBegins ==
  ASSUME NEW t, NEW k, NEW limit, NEW f, MatchRun(f, t, k, limit), k \in 1..Len(t), Len(t) \in Nat
  PROVE  Between(f[k], 1)
<1>1. f[k] = Opened /\ f[k] \in MatchStates
  BY DEF MatchRun
<1> QED BY <1>1 DEF Between, Opened

\* It finds the end of an object,
LEMMA ObjectEnd ==
  ASSUME NEW t, Len(t) \in Nat, NEW p \in Nat, NEW o, NEW raw \in Strings, ObjectAt(t, p, o, raw),
         NEW limit \in Nat
  PROVE  FindMatching(t, p + 1, limit) = o
<1>1. PICK k : k = p + 1
  OBVIOUS
<1>2. /\ t[k] = LeftBrace /\ Labelled(t, k, "M") /\ Quoted(t, p + 5, o - 1, raw)
      /\ t[o] = RightBrace /\ o <= Len(t) /\ o \in Nat /\ p + 7 < o
  BY <1>1 DEF ObjectAt
<1>3. k \in 1..Len(t) /\ k \in Nat /\ k + 4 = p + 5 /\ p + 5 \in Nat /\ k <= p + 5
  BY <1>1, <1>2
<1>4. t[k] \in Opening /\ ClosingOf(t[k]) = RightBrace
  BY <1>2, Zenon DEF Opening, ClosingOf
<1>5. PICK f : MatchRun(f, t, k, limit) /\ FindMatching(t, k, limit) = f[Len(t)].end
  BY <1>3, Matches
<1>6. Between(f[k], 1)
  BY <1>3, <1>5, MatchBegins
<1>7. Between(f[k + 4], 1)
  <2>1. "M" \in Alphabet /\ "M" \notin Special
    BY Marks, Distinct, Zenon DEF Special
  <2>2. 1 \in Int /\ k <= k
    BY <1>3
  <2> QED BY <1>2, <1>3, <1>4, <1>5, <1>6, <2>1, <2>2, MatchLabel
<1>8. Between(f[o - 1], 1)
  <2>1. Between(f[p + 5], 1) /\ 1 \in Int
    BY <1>3, <1>7
  <2> QED BY <1>2, <1>3, <1>4, <1>5, <2>1, MatchString
<1>9. f[o].end = o
  <2>1. PICK n : n = o - 1
    OBVIOUS
  <2>2. n \in Nat /\ k <= n /\ n + 1 = o /\ n + 1 <= Len(t) /\ Between(f[n], 1) /\ 1 \in Int /\ t[n + 1] = ClosingOf(t[k])
    BY <1>1, <1>2, <1>4, <1>8, <2>1
  <2>3. /\ Len(t) \in Nat /\ k \in 1..Len(t) /\ t[k] \in Opening /\ limit \in Nat
        /\ MatchRun(f, t, k, limit) /\ n \in Nat /\ k <= n /\ n + 1 <= Len(t)
        /\ Between(f[n], 1) /\ t[n + 1] = ClosingOf(t[k])
    BY <1>3, <1>4, <1>5, <2>2
  <2>4. f[n + 1].end = n + 1
    BY ONLY <2>3, MatchCloses, ZenonT(30)
  <2> QED BY <2>2, <2>4
<1>10. o \in k..Len(t)
  BY <1>1, <1>2
<1>11. f[Len(t)].end = o
  BY <1>3, <1>5, <1>9, <1>10, MatchFound
<1> QED BY <1>1, <1>5, <1>11

\* and the end of a list.
LEMMA ArrayEnd ==
  ASSUME NEW t, Len(t) \in Nat, NEW k \in Nat \ {0}, NEW triggers \in Seq(Strings), NEW o,
         t[k] = "[", Listed(t, k, o, triggers),
         t[o[Len(triggers)] + 1] = "]", o[Len(triggers)] + 1 <= Len(t), NEW limit \in Nat
  PROVE  FindMatching(t, k, limit) = o[Len(triggers)] + 1
<1>1. PICK n : n = o[Len(triggers)]
  OBVIOUS
<1>2. n \in Nat /\ k <= n /\ t[n + 1] = "]" /\ n + 1 <= Len(t)
  <2>1. Len(triggers) \in 0..Len(triggers)
    BY LenProperties
  <2> QED BY <1>1, <2>1 DEF Listed
<1>3. k \in 1..Len(t) /\ k \in Nat
  BY <1>2
<1>4. t[k] \in Opening /\ ClosingOf(t[k]) = "]"
  BY Distinct, Zenon DEF Opening, ClosingOf
<1>5. PICK f : MatchRun(f, t, k, limit) /\ FindMatching(t, k, limit) = f[Len(t)].end
  BY <1>3, Matches
<1>6. Between(f[k], 1)
  BY <1>3, <1>5, MatchBegins
<1>7. Between(f[n], 1)
  <2>1. 1 \in Nat \ {0} /\ k <= k
    BY <1>3
  <2> QED BY <1>1, <1>3, <1>4, <1>5, <1>6, <2>1, MatchList
<1>8. f[n + 1].end = n + 1
  <2>1. t[n + 1] = ClosingOf(t[k])
    BY <1>2, <1>4
  <2> QED BY <1>2, <1>3, <1>4, <1>5, <1>7, <2>1, MatchCloses
<1>9. n + 1 \in k..Len(t)
  BY <1>2, <1>3
<1>10. f[Len(t)].end = n + 1
  BY <1>3, <1>5, <1>8, <1>9, MatchFound
<1> QED BY <1>1, <1>5, <1>10

\* The whole text is one object.
LEMMA WholeEnd ==
  ASSUME NEW t, Len(t) \in Nat, NEW v, Record(v), NEW d, NEW o, Layout(t, v, d, o),
         NEW n, n = o[Len(v.triggers)] + 1, n + 1 = Len(t), t[n + 1] = RightBrace,
         NEW limit \in Nat, 2 <= limit
  PROVE  FindMatching(t, 1, limit) = Len(t)
<1>1. /\ t[1] = LeftBrace /\ Labelled(t, 1, "V") /\ t[6] = "2" /\ t[7] = Comma
      /\ Labelled(t, 7, "D") /\ Quoted(t, 11, d, v.date) /\ t[d + 1] = Comma
      /\ Labelled(t, d + 1, "T") /\ t[d + 6] = "["
      /\ Listed(t, d + 6, o, v.triggers)
      /\ t[n] = "]" /\ n <= Len(t)
  BY DEF Layout
<1>2. v.date \in Strings /\ v.triggers \in Seq(Strings)
  BY DEF Record
<1>3. d \in Nat /\ 13 <= d
  <2>1. 11 \in Nat
    OBVIOUS
  <2> QED BY <1>1, <1>2, <2>1, QuotedOrder
<1>4. n \in Nat /\ d + 7 <= n
  <2>1. PICK m : m = o[Len(v.triggers)]
    OBVIOUS
  <2>2. Len(v.triggers) \in 0..Len(v.triggers)
    BY <1>2, LenProperties
  <2>3. m \in Nat /\ d + 6 <= m
    BY <1>1, <2>1, <2>2 DEF Listed
  <2>4. n = m + 1
    BY <2>1
  <2> QED BY ONLY <1>3, <2>3, <2>4
<1>5. 1 \in 1..Len(t)
  BY <1>3, <1>4
<1>6. t[1] \in Opening /\ ClosingOf(t[1]) = RightBrace
  BY <1>1, Zenon DEF Opening, ClosingOf
<1>7. {"2", Comma, "[", "]"} \cap {Quote, t[1], ClosingOf(t[1])} = {}
  BY <1>1, <1>6, Distinct, Zenon
<1>8. PICK f : MatchRun(f, t, 1, limit) /\ FindMatching(t, 1, limit) = f[Len(t)].end
  BY <1>5, Matches
<1>9. ASSUME NEW p \in Nat, NEW c \in Alphabet, c \notin Special, Labelled(t, p, c), 1 <= p, Between(f[p], 1)
      PROVE  Between(f[p + 4], 1)
  <2>1. 1 \in Int
    OBVIOUS
  <2> QED BY <1>5, <1>6, <1>8, <1>9, <2>1, MatchLabel
<1>10. ASSUME NEW p \in Nat, 1 <= p, p + 1 <= Len(t), Between(f[p], 1),
              t[p + 1] \in {"2", Comma, "[", "]"}
       PROVE  Between(f[p + 1], 1)
  <2>1. 1 \in Int
    OBVIOUS
  <2>2. t[p + 1] \notin {Quote, t[1], ClosingOf(t[1])}
    BY <1>7, <1>10, Zenon
  <2> QED BY <1>5, <1>6, <1>8, <1>10, <2>1, <2>2, MatchNext
<1>11. \A c \in {"V", "D", "T"} : c \in Alphabet /\ c \notin Special
  BY Marks, Distinct, Zenon DEF Special
<1>12. Between(f[5], 1)
  <2>1. Between(f[1], 1)
    BY <1>5, <1>8, MatchBegins
  <2>2. Between(f[1 + 4], 1)
    BY <1>1, <1>9, <1>11, <2>1
  <2> QED BY <2>2
<1>13. Between(f[6], 1)
  <2>1. 5 \in Nat /\ 1 <= 5 /\ 5 + 1 <= Len(t) /\ t[5 + 1] = "2" /\ 5 + 1 = 6
    BY <1>1, <1>3, <1>4
  <2>2. Between(f[5 + 1], 1)
    BY <1>10, <1>12, <2>1
  <2> QED BY <2>1, <2>2
<1>14. Between(f[7], 1)
  <2>1. 6 \in Nat /\ 1 <= 6 /\ 6 + 1 <= Len(t) /\ t[6 + 1] = Comma /\ 6 + 1 = 7
    BY <1>1, <1>3, <1>4
  <2>2. Between(f[6 + 1], 1)
    BY <1>10, <1>13, <2>1
  <2> QED BY <2>1, <2>2
<1>15. Between(f[11], 1)
  <2>1. 7 \in Nat /\ 1 <= 7 /\ 7 + 4 = 11
    OBVIOUS
  <2>2. Between(f[7 + 4], 1)
    BY <1>1, <1>9, <1>11, <1>14, <2>1
  <2> QED BY <2>1, <2>2
<1>16. Between(f[d], 1)
  <2>1. 11 \in Nat /\ 1 <= 11 /\ 1 \in Int
    OBVIOUS
  <2> QED BY <1>1, <1>2, <1>5, <1>6, <1>8, <1>15, <2>1, MatchString
<1>17. Between(f[d + 1], 1)
  <2>1. 1 <= d /\ d + 1 <= Len(t)
    BY <1>3, <1>4
  <2> QED BY <1>1, <1>3, <1>10, <1>16, <2>1
<1>18. Between(f[d + 5], 1)
  <2>1. d + 1 \in Nat /\ 1 <= d + 1 /\ (d + 1) + 4 = d + 5
    BY <1>3
  <2>2. Between(f[(d + 1) + 4], 1)
    BY <1>1, <1>9, <1>11, <1>17, <2>1
  <2> QED BY <2>1, <2>2
<1>19. Between(f[d + 6], 1)
  <2>1. d + 5 \in Nat /\ 1 <= d + 5 /\ (d + 5) + 1 = d + 6 /\ (d + 5) + 1 <= Len(t)
    BY <1>3, <1>4
  <2>2. Between(f[(d + 5) + 1], 1)
    BY <1>1, <1>10, <1>18, <2>1
  <2> QED BY <2>1, <2>2
<1>20. Between(f[n - 1], 1)
  <2>1. 1 \in Nat \ {0} /\ 1 < limit /\ d + 6 \in Nat /\ 1 <= d + 6 /\ n - 1 = o[Len(v.triggers)]
    <3>1. PICK m : m = o[Len(v.triggers)]
      OBVIOUS
    <3>2. Len(v.triggers) \in 0..Len(v.triggers)
      BY <1>2, LenProperties
    <3>3. m \in Nat /\ n = m + 1
      BY <1>1, <3>1, <3>2 DEF Listed
    <3> QED BY <1>3, <3>1, <3>3
  <2>2. Between(f[o[Len(v.triggers)]], 1)
    BY <1>1, <1>2, <1>5, <1>6, <1>8, <1>19, <2>1, MatchList
  <2> QED BY <2>1, <2>2
<1>21. Between(f[n], 1)
  <2>1. n - 1 \in Nat /\ 1 <= n - 1 /\ (n - 1) + 1 = n /\ (n - 1) + 1 <= Len(t)
    BY <1>3, <1>4
  <2>2. Between(f[(n - 1) + 1], 1)
    BY <1>1, <1>10, <1>20, <2>1
  <2> QED BY <2>1, <2>2
<1>22. f[n + 1].end = n + 1
  <2>1. 1 <= n /\ 1 \in Int /\ t[n + 1] = ClosingOf(t[1])
    BY <1>3, <1>4, <1>6
  <2>2. PICK k : k = 1
    OBVIOUS
  <2>3. /\ k \in 1..Len(t) /\ t[k] \in Opening /\ MatchRun(f, t, k, limit) /\ 1 \in Int
        /\ k <= n /\ n + 1 <= Len(t) /\ Between(f[n], 1) /\ n \in Nat /\ t[n + 1] = ClosingOf(t[k])
    BY <1>4, <1>5, <1>6, <1>8, <1>21, <2>1, <2>2
  <2>4. f[n + 1].end = n + 1
    BY ONLY <2>3, MatchNext, Len(t) \in Nat, limit \in Nat
  <2> QED BY <2>4
<1>23. n + 1 \in 1..Len(t)
  BY <1>4
<1>24. f[Len(t)].end = n + 1
  BY <1>5, <1>8, <1>22, <1>23, MatchFound
<1> QED BY <1>8, <1>24

-----------------------------------------------------------------------------
\* The search for a key in a saved text.

\* The search for a key outside strings, inside d brackets.
Scanning(s, d) ==
  s \in KeyStates /\ s.depth = d /\ ~s.string /\ ~s.escaped /\ s.at = NotFound /\ ~s.refused

\* And in a string that starts at the place start.
KeyInside(d, start) ==
  {s \in KeyStates : s.depth = d /\ s.start = start /\ s.at = NotFound /\ ~s.refused}

\* What a step of the search for a key does outside strings,
LEMMA KeyMoves ==
  ASSUME NEW key, NEW t, NEW d \in Int, NEW s, Scanning(s, d), NEW n \in Nat
  PROVE  LET next == KeyStep(key, t, s, n)
         IN  /\ t[n] \notin {Quote} \cup Opening \cup Closing => Scanning(next, d)
             /\ t[n] \in Opening /\ d < DepthLimit => Scanning(next, d + 1)
             /\ t[n] = Quote => next \in KeyInside(d, n) /\ next.string /\ ~next.escaped
<1>1. PICK c, next : c = t[n] /\ next = KeyStep(key, t, s, n)
  OBVIOUS
<1>2. next \in KeyStates
  BY <1>1, KeyStepType DEF Scanning
<1>3. Quote \notin Opening \cup Closing
  BY Distinct, Zenon DEF Opening, Closing
<1>4. s \in KeyStates /\ s.at = NotFound /\ ~s.refused /\ ~s.string /\ ~s.escaped /\ s.depth = d
  BY DEF Scanning
<1>5. ASSUME c \notin {Quote} \cup Opening \cup Closing PROVE Scanning(next, d)
  <2>1. next = s
    BY <1>1, <1>4, <1>5, Zenon DEF KeyStep
  <2> QED BY <2>1
<1>6. ASSUME c \in Opening, d < DepthLimit PROVE Scanning(next, d + 1)
  <2>1. PICK e, r : e = s.depth + 1 /\ r = (s.depth >= DepthLimit)
    OBVIOUS
  <2>2. c # Quote
    BY <1>3, <1>6
  <2>3. next = [s EXCEPT !.depth = s.depth + 1, !.refused = s.depth >= DepthLimit]
    BY <1>1, <1>4, <1>6, <2>2, Zenon DEF KeyStep
  <2>4. next = [s EXCEPT !.depth = e, !.refused = r]
    BY <2>1, <2>3, Zenon
  <2>5. next.depth = e /\ next.refused = r /\ next.string = s.string /\ next.escaped = s.escaped /\ next.at = s.at
    BY <1>4, <2>4 DEF KeyStates
  <2>6. e = d + 1 /\ ~r
    <3>1. s.depth = d /\ ~(s.depth >= DepthLimit)
      BY <1>4, <1>6, ScanAssumption
    <3> QED BY <2>1, <3>1
  <2> QED BY <1>2, <1>4, <2>5, <2>6 DEF Scanning
<1>7. ASSUME c = Quote PROVE next \in KeyInside(d, n) /\ next.string /\ ~next.escaped
  <2>1. next = [s EXCEPT !.string = TRUE, !.start = n]
    BY <1>1, <1>4, <1>7, Zenon DEF KeyStep
  <2>2. /\ next.string /\ next.start = n /\ next.depth = s.depth /\ next.escaped = s.escaped
        /\ next.at = s.at /\ next.refused = s.refused
    BY <1>4, <2>1 DEF KeyStates
  <2> QED BY <1>2, <1>4, <2>2 DEF KeyInside
<1> QED BY <1>1, <1>5, <1>6, <1>7

IsKey(key, t, d, start, n) ==
  d = 1 /\ n < Len(t) /\ t[n + 1] = ":" /\ SubSeq(t, start + 1, n - 1) = key

\* and inside one.
LEMMA KeyStays ==
  ASSUME NEW key, NEW t, NEW d \in Int, NEW start, NEW s \in KeyInside(d, start), s.string,
         NEW n \in Nat
  PROVE  LET next == KeyStep(key, t, s, n)
         IN  /\ s.escaped \/ t[n] # Quote =>
                  /\ next.string /\ next \in KeyInside(d, start)
                  /\ next.escaped <=> (~s.escaped /\ t[n] = Escape)
             /\ ~s.escaped /\ t[n] = Quote =>
                  /\ ~next.string /\ ~next.escaped
                  /\ IF IsKey(key, t, d, start, n) THEN next.at = n + 2 ELSE Scanning(next, d)
<1>1. PICK c, next, u : c = t[n] /\ next = KeyStep(key, t, s, n) /\ u = InString(s, c)
  OBVIOUS
<1>2. s \in KeyStates /\ s.at = NotFound /\ ~s.refused /\ s.depth = d /\ s.start = start
  BY DEF KeyInside
<1>3. /\ u \in KeyStates /\ u.depth = s.depth /\ u.start = s.start /\ u.at = s.at /\ u.refused = s.refused
      /\ u.string <=> (s.escaped \/ c # Quote)
      /\ u.escaped <=> (~s.escaped /\ c = Escape)
  BY <1>1, <1>2 DEF InString, KeyStates
<1>4. PICK isKey : isKey = (/\ ~u.string /\ s.depth = 1
                            /\ n < Len(t) /\ t[n + 1] = ":"
                            /\ SubSeq(t, s.start + 1, n - 1) = key)
  OBVIOUS
<1>5. next = IF isKey THEN [u EXCEPT !.at = n + 2] ELSE u
  BY <1>1, <1>2, <1>4, Zenon DEF KeyStep
<1>6. ASSUME s.escaped \/ c # Quote
      PROVE  /\ next.string /\ next \in KeyInside(d, start)
             /\ next.escaped <=> (~s.escaped /\ c = Escape)
  <2>1. u.string
    BY <1>3, <1>6
  <2>2. next = u
    BY <1>4, <1>5, <2>1, Zenon
  <2> QED BY <1>2, <1>3, <2>1, <2>2 DEF KeyInside
<1>7. ASSUME ~s.escaped, c = Quote
      PROVE  /\ ~next.string /\ ~next.escaped
             /\ IF IsKey(key, t, d, start, n) THEN next.at = n + 2 ELSE Scanning(next, d)
  <2>1. ~u.string /\ ~u.escaped
    BY <1>3, <1>7, Distinct
  <2>2. CASE IsKey(key, t, d, start, n)
    <3>1. isKey
      BY <1>2, <1>4, <2>1, <2>2, Zenon DEF IsKey
    <3>2. PICK m : m = n + 2
      OBVIOUS
    <3>3. next = [u EXCEPT !.at = m]
      BY <1>5, <3>1, <3>2, Zenon
    <3>4. next.at = m /\ next.string = u.string /\ next.escaped = u.escaped
      BY <1>3, <3>3 DEF KeyStates
    <3> QED BY <2>1, <2>2, <3>2, <3>4
  <2>3. CASE ~IsKey(key, t, d, start, n)
    <3>1. ~isKey
      BY <1>2, <1>4, <2>3, Zenon DEF IsKey
    <3>2. next = u
      BY <1>5, <3>1, Zenon
    <3> QED BY <1>2, <1>3, <2>1, <2>3, <3>2 DEF Scanning
  <2> QED BY <2>2, <2>3
<1> QED BY <1>1, <1>6, <1>7

\* A string is the key that is searched for, or it is passed.
LEMMA KeyString ==
  ASSUME NEW t, Len(t) \in Nat, NEW key, NEW f, KeyRun(f, key, t), NEW d \in Int,
         NEW p \in Nat, NEW raw \in Strings, NEW q, Quoted(t, p, q, raw), Scanning(f[p], d)
  PROVE  IF IsKey(key, t, d, p + 1, q) THEN f[q].at = q + 2 ELSE Scanning(f[q], d)
<1> DEFINE G == KeyInside(d, p + 1)
<1>1. q \in Nat /\ p + 2 <= q /\ q <= Len(t) /\ t[p + 1] = Quote /\ t[q] = Quote
  BY QuotedOrder
<1>2. \A i \in (p + 1)..q : f[i] = KeyStep(key, t, f[i - 1], i)
  <2> SUFFICES ASSUME NEW i \in (p + 1)..q PROVE f[i] = KeyStep(key, t, f[i - 1], i)
    OBVIOUS
  <2>1. i \in 1..Len(t)
    BY <1>1
  <2> QED BY <2>1 DEF KeyRun
<1>3. f[p + 1] \in G /\ f[p + 1].string /\ ~f[p + 1].escaped
  <2>1. PICK n : n = p + 1
    OBVIOUS
  <2>2. n \in (p + 1)..q /\ n - 1 = p /\ n \in Nat /\ t[n] = Quote
    BY <1>1, <2>1
  <2>3. f[n] = KeyStep(key, t, f[p], n)
    BY <1>2, <2>2
  <2>4. f[n] \in KeyInside(d, n) /\ f[n].string /\ ~f[n].escaped
    BY <2>2, <2>3, KeyMoves
  <2> QED BY <2>1, <2>4
<1> HIDE DEF G
<1>4. \A i \in (p + 2)..(q - 1) : f[i - 1] \in G /\ f[i - 1].string =>
        /\ f[i].string <=> (f[i - 1].escaped \/ t[i] # Quote)
        /\ f[i].escaped <=> (~f[i - 1].escaped /\ t[i] = Escape)
        /\ f[i].string => f[i] \in G
  <2> SUFFICES ASSUME NEW i \in (p + 2)..(q - 1), f[i - 1] \in G, f[i - 1].string
               PROVE  /\ f[i].string <=> (f[i - 1].escaped \/ t[i] # Quote)
                      /\ f[i].escaped <=> (~f[i - 1].escaped /\ t[i] = Escape)
                      /\ f[i].string => f[i] \in G
    OBVIOUS
  <2>1. f[i] = KeyStep(key, t, f[i - 1], i) /\ i \in Nat
    <3>1. i \in (p + 1)..q /\ i \in Nat
      BY <1>1
    <3> QED BY <1>2, <3>1
  <2>2. f[i - 1] \in KeyInside(d, p + 1)
    BY DEF G
  <2>3. CASE f[i - 1].escaped \/ t[i] # Quote
    <3>1. f[i].string /\ f[i] \in KeyInside(d, p + 1) /\ (f[i].escaped <=> (~f[i - 1].escaped /\ t[i] = Escape))
      BY <2>1, <2>2, <2>3, KeyStays
    <3>2. f[i] \in G
      BY <3>1 DEF G
    <3> QED BY ONLY <2>3, <3>1, <3>2
  <2>4. CASE ~f[i - 1].escaped /\ t[i] = Quote
    <3>1. ~f[i].string /\ ~f[i].escaped
      BY <2>1, <2>2, <2>4, KeyStays
    <3> QED BY <2>4, <3>1, Distinct
  <2> QED BY <2>3, <2>4
<1>5. /\ \A i \in (p + 1)..(q - 1) : f[i].string /\ f[i] \in G
      /\ ~f[q - 1].escaped /\ f[q - 1].string /\ f[q - 1] \in G
  BY <1>3, <1>4, InsideString
<1>6. f[q] = KeyStep(key, t, f[q - 1], q)
  <2>1. q \in (p + 1)..q
    BY <1>1
  <2> QED BY <1>2, <2>1
<1>7. f[q - 1] \in KeyInside(d, p + 1)
  BY <1>5 DEF G
<1>8. PICK s, start : s = f[q - 1] /\ start = p + 1
  OBVIOUS
<1>9. s \in KeyInside(d, start) /\ s.string /\ ~s.escaped
  BY <1>5, <1>7, <1>8
<1> QED BY <1>1, <1>6, <1>8, <1>9, KeyStays

\* The search begins outside the outer bracket.
LEMMA KeyBegins ==
  ASSUME NEW t, Len(t) \in Nat, NEW key, NEW f, KeyRun(f, key, t)
  PROVE  Scanning(f[0], 0)
<1>1. 0 \in 0..Len(t)
  OBVIOUS
<1>2. f[0] \in KeyStates
  BY <1>1 DEF KeyRun
<1>3. f[0] = [depth |-> 0, string |-> FALSE, escaped |-> FALSE, start |-> 0,
              at |-> NotFound, refused |-> FALSE]
  BY DEF KeyRun
<1> QED BY <1>2, <1>3 DEF Scanning

\* One character further, outside strings.
LEMMA KeyNext ==
  ASSUME NEW t, Len(t) \in Nat, NEW key, NEW f, KeyRun(f, key, t), NEW d \in Int,
         NEW p \in Nat, p + 1 <= Len(t), Scanning(f[p], d)
  PROVE  /\ t[p + 1] \notin {Quote} \cup Opening \cup Closing => Scanning(f[p + 1], d)
         /\ t[p + 1] \in Opening /\ d < DepthLimit => Scanning(f[p + 1], d + 1)
<1>1. PICK n, s, next : n = p + 1 /\ s = f[p] /\ next = f[n]
  OBVIOUS
<1>2. n \in 1..Len(t) /\ n - 1 = p /\ n \in Nat
  BY <1>1
<1>3. next = KeyStep(key, t, s, n)
  BY <1>1, <1>2 DEF KeyRun
<1>4. Scanning(s, d)
  BY <1>1
<1>5. /\ t[n] \notin {Quote} \cup Opening \cup Closing => Scanning(next, d)
      /\ t[n] \in Opening /\ d < DepthLimit => Scanning(next, d + 1)
  BY <1>2, <1>3, <1>4, KeyMoves
<1> QED BY <1>1, <1>5

\* The search ends with the first key.
LEMMA KeyEnds ==
  ASSUME NEW t, Len(t) \in Nat, NEW key, NEW f, KeyRun(f, key, t), NEW n \in 0..Len(t)
  PROVE  f[n].at # NotFound => f[Len(t)].at = f[n].at
<1> DEFINE T == {i \in n..Len(t) : f[i] = f[n]}
<1>1. SUFFICES ASSUME f[n].at # NotFound PROVE f[Len(t)].at = f[n].at
  OBVIOUS
<1>2. n \in Nat /\ Len(t) \in Nat /\ n \in T
  OBVIOUS
<1>3. ASSUME NEW i \in n..(Len(t) - 1), i \in T PROVE i + 1 \in T
  <2>1. PICK m : m = i + 1
    OBVIOUS
  <2>2. m \in 1..Len(t) /\ m - 1 = i /\ m \in n..Len(t) /\ f[i] = f[n]
    BY <1>3, <2>1
  <2>3. f[m] = KeyStep(key, t, f[i], m)
    BY <2>2 DEF KeyRun
  <2>4. f[m] = f[i]
    BY <1>1, <2>2, <2>3, Zenon DEF KeyStep
  <2> QED BY <2>1, <2>2, <2>4
<1>4. \A i \in n..Len(t) : i \in T
  <2> HIDE DEF T
  <2> QED BY <1>2, <1>3, UpTo
<1>5. Len(t) \in T
  BY <1>4
<1> QED BY <1>5

\* What a part of a text is.
LEMMA PartIs ==
  ASSUME NEW t, NEW m \in Int, NEW n \in Int
  PROVE  SubSeq(t, m, n) = [i \in 1..(n - m + 1) |-> t[m + i - 1]]
<1> DEFINE S == {t[i] : i \in m..n}
<1>1. \A i \in m..n : t[i] \in S
  OBVIOUS
<1>2. PICK u : u = SubSeq(t, m, n)
  OBVIOUS
<1>3. u \in Seq(S) /\ Len(u) = (IF m <= n THEN n - m + 1 ELSE 0)
      /\ \A i \in 1..(n - m + 1) : u[i] = t[m + i - 1]
  <2> HIDE DEF S
  <2> QED BY <1>1, <1>2, SubSeqProperties
<1>4. u = [i \in 1..Len(u) |-> u[i]]
  BY <1>3
<1>5. 1..Len(u) = 1..(n - m + 1)
  BY <1>3
<1>6. u = [i \in 1..(n - m + 1) |-> t[m + i - 1]]
  BY <1>3, <1>4, <1>5
<1> QED BY <1>2, <1>6

\* Texts that agree have the same parts.
LEMMA PartsAgree ==
  ASSUME NEW t, NEW u, NEW m \in Int, NEW n \in Int, \A i \in m..n : t[i] = u[i]
  PROVE  SubSeq(t, m, n) = SubSeq(u, m, n)
<1>1. \A i \in 1..(n - m + 1) : t[m + i - 1] = u[m + i - 1]
  <2> SUFFICES ASSUME NEW i \in 1..(n - m + 1) PROVE t[m + i - 1] = u[m + i - 1]
    OBVIOUS
  <2>1. m + i - 1 \in m..n
    OBVIOUS
  <2> QED BY <2>1
<1>2. [i \in 1..(n - m + 1) |-> t[m + i - 1]] = [i \in 1..(n - m + 1) |-> u[m + i - 1]]
  BY <1>1
<1>3. SubSeq(t, m, n) = [i \in 1..(n - m + 1) |-> t[m + i - 1]]
  BY PartIs, Zenon
<1>4. SubSeq(u, m, n) = [i \in 1..(n - m + 1) |-> u[m + i - 1]]
  BY PartIs, Zenon
<1> QED BY <1>2, <1>3, <1>4, Zenon

\* A key of one character: found, or passed with its colon.
LEMMA KeyLabel ==
  ASSUME NEW t \in Strings, NEW k, NEW f, KeyRun(f, <<k>>, t),
         NEW p \in Nat, NEW c \in Alphabet, c \notin Special, Labelled(t, p, c), Scanning(f[p], 1)
  PROVE  /\ k = c => f[Len(t)].at = p + 5
         /\ k # c => Scanning(f[p + 4], 1)
<1>1. Len(t) \in Nat
  BY LenProperties DEF Strings
<1>2. Quoted(t, p, p + 3, <<c>>) /\ <<c>> \in Strings
  BY <1>1, LabelQuoted, Single
<1>3. PICK q, start : q = p + 3 /\ start = p + 1
  OBVIOUS
<1>4. q \in Nat /\ q < Len(t) /\ t[q + 1] = ":" /\ q + 1 = p + 4
  BY <1>1, <1>3 DEF Labelled
<1>5. SubSeq(t, start + 1, q - 1) = <<c>>
  <2>1. start + 1 = p + 2 /\ q - 1 = p + 2 /\ p + 2 \in 1..Len(t)
    BY <1>1, <1>3, <1>4
  <2>2. t[p + 2] = c
    BY DEF Labelled
  <2>3. PICK u, m : m = p + 2 /\ u = SubSeq(t, m, m)
    OBVIOUS
  <2>4. m \in Int /\ t[m] = c /\ m - m + 1 = 1 /\ m + 1 - 1 = m /\ start + 1 = m /\ q - 1 = m
    BY <2>1, <2>2, <2>3
  <2>5. u = [i \in 1..(m - m + 1) |-> t[m + i - 1]]
    BY <2>3, <2>4, PartIs
  <2>6. u = <<c>>
    BY <2>4, <2>5
  <2> QED BY <2>3, <2>4, <2>6
<1>6. IF IsKey(<<k>>, t, 1, start, q) THEN f[q].at = q + 2 ELSE Scanning(f[q], 1)
  <2>1. 1 \in Int
    OBVIOUS
  <2> QED BY <1>1, <1>2, <1>3, <2>1, KeyString
<1>7. IsKey(<<k>>, t, 1, start, q) <=> k = c
  BY <1>4, <1>5 DEF IsKey
<1>8. ASSUME k = c PROVE f[Len(t)].at = p + 5
  <2>1. f[q].at = q + 2 /\ q \in 0..Len(t) /\ f[q].at # NotFound
    BY <1>1, <1>4, <1>6, <1>7, <1>8 DEF NotFound
  <2>2. f[Len(t)].at = q + 2
    BY <1>1, <2>1, KeyEnds
  <2> QED BY <1>3, <2>2
<1>9. ASSUME k # c PROVE Scanning(f[p + 4], 1)
  <2>1. ":" \notin {Quote} \cup Opening \cup Closing
    BY Distinct, Zenon DEF Opening, Closing
  <2>2. Scanning(f[q], 1) /\ q + 1 <= Len(t) /\ 1 \in Int
    BY <1>1, <1>4, <1>6, <1>7, <1>9
  <2>3. Scanning(f[q + 1], 1)
    BY <1>1, <1>4, <2>1, <2>2, KeyNext
  <2> QED BY <1>4, <2>3
<1> QED BY <1>8, <1>9

\* The order of the places in a saved text.
LEMMA LayoutPlaces ==
  ASSUME NEW t \in Strings, NEW v, Record(v), NEW d, NEW o, Layout(t, v, d, o)
  PROVE  /\ Len(t) \in Nat /\ d \in Nat /\ 13 <= d
         /\ o[Len(v.triggers)] \in Nat /\ d + 6 <= o[Len(v.triggers)]
         /\ o[Len(v.triggers)] + 1 <= Len(t)
<1>1. Len(t) \in Nat
  BY LenProperties DEF Strings
<1>2. v.date \in Strings /\ v.triggers \in Seq(Strings)
  BY DEF Record
<1>3. d \in Nat /\ 13 <= d
  <2>1. 11 \in Nat /\ Quoted(t, 11, d, v.date)
    BY DEF Layout
  <2> QED BY <1>1, <1>2, <2>1, QuotedOrder
<1>4. Len(v.triggers) \in 0..Len(v.triggers)
  BY <1>2, LenProperties
<1>5. Listed(t, d + 6, o, v.triggers) /\ o[Len(v.triggers)] + 1 <= Len(t)
  BY DEF Layout
<1> QED BY <1>1, <1>3, <1>4, <1>5 DEF Listed

\* The search for any key has come as far as the value of the first pair.
LEMMA KeysPassed ==
  ASSUME NEW t \in Strings, NEW v, Record(v), NEW d, NEW o, Layout(t, v, d, o),
         NEW k, NEW f, KeyRun(f, <<k>>, t)
  PROVE  /\ k = "V" => f[Len(t)].at = 6
         /\ k = "D" => f[Len(t)].at = 12
         /\ k = "T" => f[Len(t)].at = d + 6
<1>1. /\ t[1] = LeftBrace /\ Labelled(t, 1, "V") /\ t[6] = "2" /\ t[7] = Comma
      /\ Labelled(t, 7, "D") /\ Quoted(t, 11, d, v.date) /\ t[d + 1] = Comma
      /\ Labelled(t, d + 1, "T")
  BY DEF Layout
<1>2. Len(t) \in Nat /\ d \in Nat /\ 13 <= d /\ d + 7 <= Len(t)
  BY LayoutPlaces
<1>3. \A c \in {"V", "D", "T"} : c \in Alphabet /\ c \notin Special
  BY Marks, Distinct, Zenon DEF Special
<1>4. {"2", Comma} \cap ({Quote} \cup Opening \cup Closing) = {} /\ LeftBrace \in Opening
  BY Distinct, Zenon DEF Opening, Closing
<1>5. Scanning(f[1], 1)
  <2>1. Scanning(f[0], 0)
    BY <1>2, KeyBegins
  <2>2. 0 \in Int /\ 0 \in Nat /\ 0 + 1 <= Len(t) /\ 0 + 1 = 1 /\ t[0 + 1] \in Opening /\ 0 < DepthLimit
    BY <1>1, <1>2, <1>4, ScanAssumption
  <2>3. Scanning(f[0 + 1], 0 + 1)
    BY <1>2, <2>1, <2>2, KeyNext
  <2> QED BY <2>2, <2>3
<1>6. ASSUME NEW p \in Nat, NEW c \in {"V", "D", "T"}, Labelled(t, p, c), Scanning(f[p], 1)
      PROVE  /\ k = c => f[Len(t)].at = p + 5
             /\ k # c => Scanning(f[p + 4], 1)
  BY <1>3, <1>6, KeyLabel
<1>7. ASSUME NEW p \in Nat, p + 1 <= Len(t), t[p + 1] \in {"2", Comma}, Scanning(f[p], 1)
      PROVE  Scanning(f[p + 1], 1)
  <2>1. t[p + 1] \notin {Quote} \cup Opening \cup Closing
    BY <1>4, <1>7, Zenon
  <2>2. 1 \in Int
    OBVIOUS
  <2> QED BY <1>2, <1>7, <2>1, <2>2, KeyNext
<1>8. /\ k = "V" => f[Len(t)].at = 6
      /\ k # "V" => Scanning(f[5], 1)
  <2>1. 1 \in Nat /\ 1 + 5 = 6 /\ 1 + 4 = 5
    OBVIOUS
  <2>2. /\ k = "V" => f[Len(t)].at = 1 + 5
        /\ k # "V" => Scanning(f[1 + 4], 1)
    BY <1>1, <1>5, <1>6, <2>1
  <2> QED BY <2>1, <2>2
<1>9. k # "V" => Scanning(f[7], 1)
  <2>1. 5 \in Nat /\ 6 \in Nat /\ 5 + 1 = 6 /\ 6 + 1 = 7 /\ 5 + 1 <= Len(t) /\ 6 + 1 <= Len(t)
    BY <1>2
  <2>2. k # "V" => Scanning(f[5 + 1], 1)
    BY <1>1, <1>7, <1>8, <2>1
  <2>3. k # "V" => Scanning(f[6 + 1], 1)
    BY <1>1, <1>7, <2>1, <2>2
  <2> QED BY <2>1, <2>3
<1>10. /\ k = "D" => f[Len(t)].at = 12
       /\ k \notin {"V", "D"} => Scanning(f[11], 1)
  <2>1. 7 \in Nat /\ 7 + 5 = 12 /\ 7 + 4 = 11 /\ "V" # "D"
    OBVIOUS
  <2>2. k # "V" =>
        /\ k = "D" => f[Len(t)].at = 7 + 5
        /\ k # "D" => Scanning(f[7 + 4], 1)
    BY <1>1, <1>6, <1>9, <2>1
  <2> QED BY <2>1, <2>2
<1>11. ASSUME k = "T" PROVE f[Len(t)].at = d + 6
  <2>1. Scanning(f[11], 1)
    BY <1>10, <1>11
  <2>2. IF IsKey(<<k>>, t, 1, 11 + 1, d) THEN f[d].at = d + 2 ELSE Scanning(f[d], 1)
    <3>1. 1 \in Int /\ 11 \in Nat /\ v.date \in Strings
      BY DEF Record
    <3> QED BY <1>1, <1>2, <2>1, <3>1, KeyString
  <2>3. ~IsKey(<<k>>, t, 1, 11 + 1, d)
    <3>1. Comma # ":"
      BY Distinct
    <3> QED BY <1>1, <3>1 DEF IsKey
  <2>4. Scanning(f[d], 1)
    BY <2>2, <2>3
  <2>5. Scanning(f[d + 1], 1) /\ d + 1 \in Nat /\ (d + 1) + 5 = d + 6
    BY <1>1, <1>2, <1>7, <2>4
  <2>6. f[Len(t)].at = (d + 1) + 5
    BY <1>1, <1>6, <1>11, <2>5
  <2> QED BY <2>5, <2>6
<1> QED BY <1>8, <1>10, <1>11

\* The three keys of a saved text are found.
LEMMA KeysFound ==
  ASSUME NEW t \in Strings, NEW v, Record(v), NEW d, NEW o, Layout(t, v, d, o)
  PROVE  FindKey(VersionKey, t) = 6 /\ FindKey(DateKey, t) = 12 /\ FindKey(TriggersKey, t) = d + 6
<1>1. Len(t) \in Nat
  BY LayoutPlaces
<1>2. \A k : \E f : KeyRun(f, <<k>>, t) /\ FindKey(<<k>>, t) = f[Len(t)].at
  BY <1>1, KeyRuns
<1>3. FindKey(<<"V">>, t) = 6
  BY <1>2, KeysPassed
<1>4. FindKey(<<"D">>, t) = 12
  BY <1>2, KeysPassed
<1>5. FindKey(<<"T">>, t) = d + 6
  BY <1>2, KeysPassed
<1> QED BY <1>3, <1>4, <1>5, Zenon DEF VersionKey, DateKey, TriggersKey

\* A string where a value is expected.
LEMMA StringValue ==
  ASSUME NEW t \in Strings, NEW p \in Nat, NEW q, NEW raw \in Strings, Quoted(t, p, q, raw)
  PROVE  ExtractValue(t, p + 1) = Found(raw)
<1>1. Len(t) \in Nat
  BY LenProperties DEF Strings
<1>2. q \in Nat /\ p + 2 <= q /\ q <= Len(t) /\ t[p + 1] = Quote
  BY <1>1, QuotedOrder
<1>3. PICK k : k = p + 1
  OBVIOUS
<1>4. StringEnd(t, k + 1) = q /\ Unescaped(SubSeq(t, k + 1, q - 1)) = raw
  <2>1. k + 1 = p + 2
    BY <1>3
  <2>2. StringEnd(t, p + 2) = q
    BY <1>1, StringEndAt
  <2>3. Unescaped(SubSeq(t, p + 2, q - 1)) = raw
    BY UnescapedAt
  <2> QED BY <2>1, <2>2, <2>3
<1>5. t[k] = Quote /\ ~(k > Len(t))
  BY <1>1, <1>2, <1>3
<1>6. ExtractValue(t, k) = Found(raw)
  BY <1>4, <1>5, Zenon DEF ExtractValue
<1> QED BY <1>3, <1>6

\* The key of an object, with its string.
LEMMA MemberFound ==
  ASSUME NEW t \in Strings, NEW o, NEW raw \in Strings, ObjectAt(t, 0, o, raw)
  PROVE  GetValue(MemberKey, t) = Found(raw)
<1>1. /\ t[1] = LeftBrace /\ Labelled(t, 1, "M") /\ Quoted(t, 5, o - 1, raw)
      /\ o <= Len(t) /\ o \in Nat /\ 7 < o
  BY DEF ObjectAt
<1>2. Len(t) \in Nat
  BY LenProperties DEF Strings
<1>3. PICK f : KeyRun(f, <<"M">>, t) /\ FindKey(<<"M">>, t) = f[Len(t)].at
  BY <1>2, KeyRuns
<1>4. Scanning(f[1], 1)
  <2>1. Scanning(f[0], 0)
    BY <1>2, <1>3, KeyBegins
  <2>2. LeftBrace \in Opening
    BY Zenon DEF Opening
  <2>3. 0 \in Int /\ 0 \in Nat /\ 0 + 1 <= Len(t) /\ 0 + 1 = 1 /\ t[0 + 1] \in Opening /\ 0 < DepthLimit
    BY <1>1, <1>2, <2>2, ScanAssumption
  <2>4. Scanning(f[0 + 1], 0 + 1)
    BY <1>2, <1>3, <2>1, <2>3, KeyNext
  <2> QED BY <2>3, <2>4
<1>5. FindKey(MemberKey, t) = 6
  <2>1. "M" \in Alphabet /\ "M" \notin Special /\ 1 \in Nat
    BY Marks, Distinct, Zenon DEF Special
  <2>2. f[Len(t)].at = 1 + 5
    BY <1>1, <1>3, <1>4, <2>1, KeyLabel
  <2> QED BY <1>3, <2>2 DEF MemberKey
<1>6. ExtractValue(t, 6) = Found(raw)
  <2>1. 5 \in Nat /\ 5 + 1 = 6
    OBVIOUS
  <2>2. ExtractValue(t, 5 + 1) = Found(raw)
    BY <1>1, <2>1, StringValue
  <2> QED BY <2>1, <2>2
<1>7. 6 # NotFound
  BY DEF NotFound
<1> QED BY <1>5, <1>6, <1>7, Zenon DEF GetValue

\* A part of one character.
LEMMA OneCharacter ==
  ASSUME NEW t, NEW m \in Int
  PROVE  SubSeq(t, m, m) = <<t[m]>>
<1>1. PICK u, c, n : u = SubSeq(t, m, m) /\ c = t[m] /\ n = m - m + 1
  OBVIOUS
<1>2. n = 1 /\ m + 1 - 1 = m
  BY <1>1
<1>3. u = [i \in 1..n |-> t[m + i - 1]]
  BY <1>1, PartIs
<1>4. u = <<c>>
  BY <1>1, <1>2, <1>3
<1> QED BY <1>1, <1>4

\* The values of the three keys: the version,
LEMMA VersionFound ==
  ASSUME NEW t \in Strings, NEW v, Record(v), NEW d, NEW o, Layout(t, v, d, o)
  PROVE  GetValue(VersionKey, t) = Found(FormatVersion)
<1>1. Len(t) \in Nat /\ 20 <= Len(t)
  BY LayoutPlaces
<1>2. t[6] = "2" /\ t[7] = Comma
  BY DEF Layout
<1>3. "2" \notin Opening \cup Closing \cup {Comma} /\ "2" # Quote
  BY Distinct, Zenon DEF Opening, Closing
<1> DEFINE ends == {n \in 6..Len(t) : t[n] \in Closing \cup {Comma}}
<1>4. 7 \in ends /\ 6 \notin ends /\ ends \subseteq 6..Len(t)
  <2>1. 7 \in 6..Len(t) /\ 6 \in 6..Len(t)
    BY <1>1
  <2>2. t[7] \in Closing \cup {Comma} /\ t[6] \notin Closing \cup {Comma}
    BY <1>2, <1>3
  <2> QED BY <2>1, <2>2
<1> HIDE DEF ends
<1>5. Min(ends) = 7
  <2>1. ends \subseteq Nat /\ ends # {}
    BY <1>1, <1>4
  <2>2. Min(ends) \in ends /\ \A k \in ends : Min(ends) <= k
    BY <2>1, LeastIn
  <2>3. Min(ends) \in 6..Len(t) /\ Min(ends) <= 7 /\ Min(ends) # 6
    BY <1>4, <2>2
  <2> QED BY <1>1, <2>3
<1>6. ExtractValue(t, 6) = Found(SubSeq(t, 6, 7 - 1))
  <2>1. ~(6 > Len(t)) /\ t[6] # Quote /\ t[6] \notin Opening /\ ends # {}
    BY <1>1, <1>2, <1>3, <1>4
  <2>2. ExtractValue(t, 6) =
          LET end == IF ends = {} THEN Len(t) + 1 ELSE Min(ends) IN Found(SubSeq(t, 6, end - 1))
    BY <2>1, Zenon DEF ExtractValue, ends
  <2> QED BY <1>5, <2>1, <2>2, Zenon
<1>7. SubSeq(t, 6, 7 - 1) = FormatVersion
  <2>1. 7 - 1 = 6 /\ 6 \in Int
    OBVIOUS
  <2>2. SubSeq(t, 6, 6) = <<t[6]>>
    BY <2>1, OneCharacter
  <2> QED BY <1>2, <2>1, <2>2 DEF FormatVersion
<1>8. FindKey(VersionKey, t) = 6 /\ 6 # NotFound
  BY KeysFound DEF NotFound
<1> QED BY <1>6, <1>7, <1>8, Zenon DEF GetValue

\* the date,
LEMMA DateFound ==
  ASSUME NEW t \in Strings, NEW v, Record(v), NEW d, NEW o, Layout(t, v, d, o)
  PROVE  GetValue(DateKey, t) = Found(v.date)
<1>1. Quoted(t, 11, d, v.date) /\ v.date \in Strings
  BY DEF Layout, Record
<1>2. 11 \in Nat /\ 11 + 1 = 12
  OBVIOUS
<1>3. ExtractValue(t, 11 + 1) = Found(v.date)
  BY <1>1, <1>2, StringValue
<1>4. FindKey(DateKey, t) = 12 /\ 12 # NotFound
  BY KeysFound DEF NotFound
<1> QED BY <1>2, <1>3, <1>4, Zenon DEF GetValue

\* and the list, up to its closing bracket.
LEMMA ArrayFound ==
  ASSUME NEW t \in Strings, NEW v, Record(v), NEW d, NEW o, Layout(t, v, d, o)
  PROVE  /\ FindMatching(t, d + 6, DepthLimit) = o[Len(v.triggers)] + 1
         /\ GetValue(TriggersKey, t) = Found(SubSeq(t, d + 6, o[Len(v.triggers)] + 1))
<1>1. PICK n, k : n = o[Len(v.triggers)] + 1 /\ k = d + 6
  OBVIOUS
<1>2. Len(t) \in Nat /\ d \in Nat /\ k \in Nat \ {0} /\ n \in Nat \ {0} /\ k < n /\ n <= Len(t)
  <2>1. PICK m : m = o[Len(v.triggers)]
    OBVIOUS
  <2>2. m \in Nat /\ d + 6 <= m /\ m + 1 <= Len(t) /\ Len(t) \in Nat /\ d \in Nat
    BY <2>1, LayoutPlaces
  <2> QED BY ONLY <1>1, <2>1, <2>2
<1>3. t[k] = "[" /\ Listed(t, k, o, v.triggers) /\ t[n] = "]"
  BY <1>1 DEF Layout
<1>4. FindMatching(t, k, DepthLimit) = n
  BY <1>1, <1>2, <1>3, ScanAssumption, ArrayEnd DEF Record
<1>5. "[" \in Opening /\ "[" # Quote
  BY Distinct, Zenon DEF Opening
<1>6. ExtractValue(t, k) = Found(SubSeq(t, k, n))
  <2>1. ~(k > Len(t)) /\ n # NotFound
    BY <1>2 DEF NotFound
  <2> QED BY <1>3, <1>4, <1>5, <2>1, Zenon DEF ExtractValue
<1>7. FindKey(TriggersKey, t) = k /\ k # NotFound
  BY <1>1, <1>2, KeysFound DEF NotFound
<1> QED BY <1>1, <1>4, <1>6, <1>7, Zenon DEF GetValue

-----------------------------------------------------------------------------
\* The list in its array.

\* u is the text t from the character behind b to e.
Part(u, t, b, e) ==
  u \in Strings /\ Len(u) = e - b /\ \A i \in 1..Len(u) : u[i] = t[b + i]

\* SubSeq takes such a part.
LEMMA PartOf ==
  ASSUME NEW t \in Strings, NEW b \in Nat, NEW e \in Nat, b <= e, e <= Len(t),
         NEW u, u = SubSeq(t, b + 1, e)
  PROVE  Part(u, t, b, e)
<1>1. Len(t) \in Nat
  BY LenProperties DEF Strings
<1>2. \A i \in (b + 1)..e : t[i] \in Alphabet
  <2> SUFFICES ASSUME NEW i \in (b + 1)..e PROVE t[i] \in Alphabet
    OBVIOUS
  <2>1. i \in 1..Len(t)
    BY <1>1
  <2> QED BY <2>1, ElementOfSeq DEF Strings
<1>3. PICK m : m = b + 1
  OBVIOUS
<1>4. m \in Int /\ e \in Int /\ e - m + 1 = e - b /\ \A i : i \in Int => m + i - 1 = b + i
  BY <1>3
<1>5. /\ u \in Seq(Alphabet)
      /\ Len(u) = (IF m <= e THEN e - m + 1 ELSE 0)
      /\ \A i \in 1..(e - m + 1) : u[i] = t[m + i - 1]
  BY <1>2, <1>3, <1>4, SubSeqProperties
<1>6. Len(u) = e - b
  BY <1>3, <1>5
<1>7. ASSUME NEW i \in 1..Len(u) PROVE u[i] = t[b + i]
  <2>1. i \in 1..(e - m + 1) /\ m + i - 1 = b + i
    BY <1>4, <1>6, <1>7
  <2> QED BY <1>5, <2>1
<1> QED BY <1>5, <1>6, <1>7 DEF Part, Strings

\* A string that is in the part is a string of it,
LEMMA QuotedPart ==
  ASSUME NEW t, Len(t) \in Nat, NEW b \in Nat, NEW e \in Nat, e <= Len(t), NEW u, Part(u, t, b, e),
         NEW p \in Nat, NEW s \in Nat, s = b + p, NEW raw \in Strings, NEW q, Quoted(t, s, q, raw), q <= e
  PROVE  Quoted(u, p, q - b, raw)
<1>1. PICK a : Spelled(t, s, a, raw) /\ q = a[Len(raw)] + 1
  BY DEF Quoted
<1> DEFINE L == Len(raw)
           c == [n \in 0..L |-> a[n] - b]
<1>2. L \in Nat
  BY LenProperties DEF Strings
<1>3. \A n \in 0..L : a[n] \in Nat /\ s < a[n] /\ a[n] <= a[L]
  BY <1>1 DEF Spelled
<1>4. L \in 0..L /\ 0 \in 0..L
  BY <1>2
<1>5. PICK z : z = a[L]
  OBVIOUS
<1>6. z \in Nat /\ s < z /\ z + 1 <= e /\ q = z + 1 /\ t[z + 1] = Quote
  BY <1>1, <1>3, <1>4, <1>5 DEF Spelled
<1>7. Len(u) = e - b /\ \A i \in 1..Len(u) : u[i] = t[b + i]
  BY DEF Part
<1>8. \A i \in Nat : s < i /\ i <= e => u[i - b] = t[i]
  <2> SUFFICES ASSUME NEW i \in Nat, s < i, i <= e PROVE u[i - b] = t[i]
    OBVIOUS
  <2>1. i - b \in 1..Len(u) /\ b + (i - b) = i
    BY <1>7
  <2> QED BY <1>7, <2>1
<1>9. \A n \in 0..L : c[n] \in Nat /\ p < c[n] /\ c[n] <= c[L] /\ c[n] = a[n] - b
  <2> SUFFICES ASSUME NEW n \in 0..L PROVE c[n] \in Nat /\ p < c[n] /\ c[n] <= c[L] /\ c[n] = a[n] - b
    OBVIOUS
  <2>1. PICK x : x = a[n]
    OBVIOUS
  <2>2. x \in Nat /\ s < x /\ x <= z
    BY <1>3, <1>5, <2>1
  <2>3. c[n] = x - b /\ c[L] = z - b
    BY <1>4, <1>5, <2>1
  <2>4. x - b \in Nat /\ p < x - b /\ x - b <= z - b
    BY ONLY <1>6, <2>2, b \in Nat, s \in Nat, p \in Nat, s = b + p
  <2> HIDE DEF c
  <2> QED BY <2>1, <2>3, <2>4, Zenon
<1>10. ASSUME NEW n \in 1..L
       PROVE  IF raw[n] \in Special
              THEN /\ c[n] = c[n - 1] + 2
                   /\ u[c[n - 1] + 1] = Escape /\ u[c[n - 1] + 2] = Letter(raw[n])
              ELSE c[n] = c[n - 1] + 1 /\ u[c[n - 1] + 1] = raw[n]
  <2>1. PICK x, y, g : x = a[n - 1] /\ y = a[n] /\ g = c[n - 1]
    OBVIOUS
  <2>2. n - 1 \in 0..L /\ n \in 0..L
    BY <1>2
  <2>3. x \in Nat /\ s < x /\ y \in Nat /\ y <= z /\ g = x - b /\ c[n] = y - b
    BY <1>3, <1>5, <2>1, <2>2
  <2>4. IF raw[n] \in Special
        THEN y = x + 2 /\ t[x + 1] = Escape /\ t[x + 2] = Letter(raw[n])
        ELSE y = x + 1 /\ t[x + 1] = raw[n]
    BY <1>1, <2>1 DEF Spelled
  <2>5. CASE raw[n] \in Special
    <3>1. y = x + 2 /\ t[x + 1] = Escape /\ t[x + 2] = Letter(raw[n])
      BY <2>4, <2>5
    <3>2. x + 1 \in Nat /\ s < x + 1 /\ x + 1 <= e /\ x + 2 \in Nat /\ s < x + 2 /\ x + 2 <= e
          /\ (x + 1) - b = g + 1 /\ (x + 2) - b = g + 2
          /\ c[n] = g + 2
      <4>1. x \in Nat /\ s < x /\ y \in Nat /\ y <= z /\ g = x - b /\ y = x + 2
            /\ z \in Nat /\ z + 1 <= e
        BY <1>6, <2>3, <3>1
      <4>2. x + 1 \in Nat /\ s < x + 1 /\ x + 1 <= e /\ x + 2 \in Nat /\ s < x + 2 /\ x + 2 <= e
            /\ (x + 1) - b = g + 1 /\ (x + 2) - b = g + 2 /\ y - b = g + 2
        BY ONLY <4>1, b \in Nat, s \in Nat, e \in Nat
      <4>3. c[n] = y - b
        BY <2>3
      <4> HIDE DEF c
      <4> QED BY <4>2, <4>3, Zenon
    <3>3. u[(x + 1) - b] = t[x + 1] /\ u[(x + 2) - b] = t[x + 2]
      <4>1. PICK i, j : i = x + 1 /\ j = x + 2
        OBVIOUS
      <4>2. u[i - b] = t[i] /\ u[j - b] = t[j]
        BY <1>8, <3>2, <4>1
      <4> QED BY <4>1, <4>2, Zenon
    <3>4. u[g + 1] = Escape /\ u[g + 2] = Letter(raw[n])
      BY <3>1, <3>2, <3>3, Zenon
    <3> HIDE DEF c
    <3> QED BY <2>1, <2>5, <3>2, <3>4, Zenon
  <2>6. CASE raw[n] \notin Special
    <3>1. y = x + 1 /\ t[x + 1] = raw[n]
      BY <2>4, <2>6
    <3>2. x + 1 \in Nat /\ s < x + 1 /\ x + 1 <= e /\ (x + 1) - b = g + 1 /\ c[n] = g + 1
      <4>1. x \in Nat /\ s < x /\ y \in Nat /\ y <= z /\ g = x - b /\ y = x + 1
            /\ z \in Nat /\ z + 1 <= e
        BY <1>6, <2>3, <3>1
      <4>2. x + 1 \in Nat /\ s < x + 1 /\ x + 1 <= e /\ (x + 1) - b = g + 1 /\ y - b = g + 1
        BY ONLY <4>1, b \in Nat, s \in Nat, e \in Nat
      <4>3. c[n] = y - b
        BY <2>3
      <4> HIDE DEF c
      <4> QED BY <4>2, <4>3, Zenon
    <3>3. u[(x + 1) - b] = t[x + 1]
      <4>1. PICK i : i = x + 1
        OBVIOUS
      <4>2. u[i - b] = t[i]
        BY <1>8, <3>2, <4>1
      <4> QED BY <4>1, <4>2, Zenon
    <3>4. u[g + 1] = raw[n]
      BY <3>1, <3>2, <3>3, Zenon
    <3> HIDE DEF c
    <3> QED BY <2>1, <2>6, <3>2, <3>4, Zenon
  <2> QED BY <2>5, <2>6
<1>11. c[0] = p + 1 /\ u[p + 1] = Quote
  <2>1. a[0] = s + 1 /\ t[s + 1] = Quote
    BY <1>1 DEF Spelled
  <2>2. c[0] = (s + 1) - b
    BY <1>4, <2>1
  <2>3. (s + 1) - b = p + 1 /\ s + 1 \in Nat /\ s < s + 1 /\ s + 1 <= e
    BY <1>6
  <2>4. u[(s + 1) - b] = t[s + 1]
    BY <1>8, <2>3
  <2> HIDE DEF c
  <2> QED BY <2>1, <2>2, <2>3, <2>4, Zenon
<1>12. q - b = c[L] + 1 /\ u[c[L] + 1] = Quote /\ c[L] + 1 <= Len(u)
  <2>1. c[L] = z - b
    BY <1>4, <1>5
  <2>2. (z + 1) - b = c[L] + 1 /\ z + 1 \in Nat /\ s < z + 1 /\ z + 1 <= e /\ q - b = c[L] + 1 /\ c[L] + 1 <= e - b
    <3>1. PICK g : g = z - b
      OBVIOUS
    <3>2. (z + 1) - b = g + 1 /\ z + 1 \in Nat /\ s < z + 1 /\ z + 1 <= e /\ q - b = g + 1
          /\ g + 1 <= e - b
      BY ONLY <1>6, <3>1, b \in Nat, e \in Nat, s \in Nat
    <3> HIDE DEF c
    <3> QED BY <2>1, <3>1, <3>2, Zenon
  <2>3. u[(z + 1) - b] = t[z + 1]
    <3>1. PICK i : i = z + 1
      OBVIOUS
    <3>2. u[i - b] = t[i]
      BY <1>8, <2>2, <3>1
    <3> QED BY <3>1, <3>2, Zenon
  <2> HIDE DEF c
  <2>4. u[c[L] + 1] = Quote
    BY <1>6, <2>2, <2>3, Zenon
  <2> QED BY <1>7, <2>2, <2>4
<1>13. Spelled(u, p, c, raw)
  <2> HIDE DEF c
  <2> QED BY <1>9, <1>10, <1>11, <1>12 DEF Spelled
<1> HIDE DEF c
<1> QED BY <1>12, <1>13 DEF Quoted

\* an object is an object of it,
LEMMA ObjectPart ==
  ASSUME NEW t, Len(t) \in Nat, NEW b \in Nat, NEW e \in Nat, e <= Len(t), NEW u, Part(u, t, b, e),
         NEW p \in Nat, NEW s \in Nat, s = b + p, NEW raw \in Strings, NEW o, ObjectAt(t, s, o, raw), o <= e
  PROVE  ObjectAt(u, p, o - b, raw)
<1>1. /\ t[s + 1] = LeftBrace /\ Quoted(t, s + 5, o - 1, raw)
      /\ t[o] = RightBrace /\ o \in Nat /\ s + 7 < o
      /\ t[s + 1 + 1] = Quote /\ t[s + 1 + 2] = "M" /\ t[s + 1 + 3] = Quote /\ t[s + 1 + 4] = ":"
  BY DEF ObjectAt, Labelled
<1>2. Len(u) = e - b /\ \A i \in 1..Len(u) : u[i] = t[b + i]
  BY DEF Part
<1>3. \A i \in Nat : s < i /\ i <= e => u[i - b] = t[i]
  <2> SUFFICES ASSUME NEW i \in Nat, s < i, i <= e PROVE u[i - b] = t[i]
    OBVIOUS
  <2>1. i - b \in 1..Len(u) /\ b + (i - b) = i
    BY <1>2
  <2> QED BY <1>2, <2>1
<1>4. u[p + 1] = LeftBrace
  <2>1. s + 1 \in Nat /\ s < s + 1 /\ s + 1 <= e /\ (s + 1) - b = p + 1
    BY <1>1
  <2>2. u[(s + 1) - b] = t[s + 1]
    BY <1>3, <2>1
  <2> QED BY <1>1, <2>1, <2>2, Zenon
<1>5. u[o - b] = RightBrace /\ o - b <= Len(u) /\ o - b \in Nat /\ p + 7 < o - b
  <2>1. s < o /\ o - b <= Len(u) /\ o - b \in Nat /\ p + 7 < o - b
    BY <1>1, <1>2
  <2>2. u[o - b] = t[o]
    BY <1>1, <1>3, <2>1
  <2> QED BY <1>1, <2>1, <2>2
<1>6. Labelled(u, p + 1, "M")
  <2>1. \A j \in 1..4 : u[p + 1 + j] = t[s + 1 + j]
    <3> SUFFICES ASSUME NEW j \in 1..4 PROVE u[p + 1 + j] = t[s + 1 + j]
      OBVIOUS
    <3>1. s + 1 + j \in Nat /\ s < s + 1 + j /\ s + 1 + j <= e /\ (s + 1 + j) - b = p + 1 + j
      BY <1>1
    <3>2. u[(s + 1 + j) - b] = t[s + 1 + j]
      BY <1>3, <3>1
    <3> QED BY <3>1, <3>2, Zenon
  <2>2. u[p + 1 + 1] = t[s + 1 + 1] /\ u[p + 1 + 2] = t[s + 1 + 2] /\ u[p + 1 + 3] = t[s + 1 + 3] /\ u[p + 1 + 4] = t[s + 1 + 4]
    <3>1. 1 \in 1..4 /\ 2 \in 1..4 /\ 3 \in 1..4 /\ 4 \in 1..4
      OBVIOUS
    <3> QED BY <2>1, <3>1, Zenon
  <2>3. p + 1 + 4 <= Len(u)
    BY <1>5
  <2> QED BY <1>1, <2>2, <2>3, Zenon DEF Labelled
<1>7. Quoted(u, p + 5, o - b - 1, raw)
  <2>1. PICK q : q = o - 1
    OBVIOUS
  <2>2. q <= e /\ p + 5 \in Nat /\ s + 5 \in Nat /\ s + 5 = b + (p + 5) /\ q - b = o - b - 1 /\ Quoted(t, s + 5, q, raw)
    BY <1>1, <2>1
  <2>3. Quoted(u, p + 5, q - b, raw)
    BY <2>2, QuotedPart
  <2> QED BY <2>2, <2>3
<1> QED BY <1>4, <1>5, <1>6, <1>7 DEF ObjectAt

\* (the objects of a list follow each other)
LEMMA ListedOrder ==
  ASSUME NEW t, NEW p, NEW triggers \in Seq(Strings), NEW o, Listed(t, p, o, triggers),
         NEW m \in 0..Len(triggers)
  PROVE  \A n \in m..Len(triggers) : o[m] <= o[n]
<1> DEFINE L == Len(triggers)
           T == {n \in m..L : o[m] <= o[n]}
<1>1. L \in Nat /\ m \in Nat
  BY LenProperties
<1>2. \A n \in 0..L : o[n] \in Nat
  BY DEF Listed
<1>3. m \in T
  BY <1>1, <1>2
<1>4. ASSUME NEW n \in m..(L - 1), n \in T PROVE n + 1 \in T
  <2>1. PICK i, x, y, z : i = n + 1 /\ x = o[m] /\ y = o[n] /\ z = o[i]
    OBVIOUS
  <2>2. i \in 1..L /\ i - 1 = n /\ i \in m..L /\ i \in 0..L /\ n \in 0..L
    BY <1>1, <2>1
  <2>3. ObjectAt(t, ObjectStart(o, i), o[i], triggers[i])
    BY <2>2 DEF Listed
  <2>4. y <= ObjectStart(o, i) /\ ObjectStart(o, i) \in Nat
    <3>1. CASE i = 1
      <4>1. n = 0
        BY <2>2, <3>1
      <4> QED BY <1>2, <2>1, <2>2, <3>1, <4>1 DEF ObjectStart
    <3>2. CASE i # 1
      BY <1>2, <2>1, <2>2, <3>2 DEF ObjectStart
    <3> QED BY <3>1, <3>2
  <2>5. ObjectStart(o, i) + 7 < z /\ z \in Nat /\ x \in Nat /\ y \in Nat /\ x <= y
    BY <1>2, <1>4, <2>1, <2>2, <2>3 DEF ObjectAt
  <2>6. PICK w : w = ObjectStart(o, i)
    OBVIOUS
  <2>7. x <= z
    BY ONLY <2>4, <2>5, <2>6
  <2> QED BY <2>1, <2>2, <2>7
<1>5. \A n \in m..L : n \in T
  <2> HIDE DEF T
  <2> QED BY <1>1, <1>3, <1>4, UpTo
<1> QED BY <1>5

\* and a list is a list of it.
LEMMA ListedPart ==
  ASSUME NEW t, Len(t) \in Nat, NEW b \in Nat, NEW e \in Nat, e <= Len(t), NEW u, Part(u, t, b, e),
         NEW p \in Nat, NEW s \in Nat, s = b + p, NEW triggers \in Seq(Strings), NEW o, Listed(t, s, o, triggers),
         o[Len(triggers)] <= e
  PROVE  \E c : Listed(u, p, c, triggers) /\ c[Len(triggers)] = o[Len(triggers)] - b
<1> DEFINE L == Len(triggers)
           c == [n \in 0..L |-> o[n] - b]
<1>1. L \in Nat /\ \A n \in 1..L : triggers[n] \in Strings
  BY LenProperties, ElementOfSeq
<1>2. \A n \in 0..L : o[n] \in Nat /\ s <= o[n] /\ o[n] <= o[L]
  <2> SUFFICES ASSUME NEW n \in 0..L PROVE o[n] \in Nat /\ s <= o[n] /\ o[n] <= o[L]
    OBVIOUS
  <2>1. L \in n..L
    BY <1>1
  <2>2. o[n] <= o[L]
    BY <2>1, ListedOrder
  <2> QED BY <2>2 DEF Listed
<1>3. Len(u) = e - b /\ \A i \in 1..Len(u) : u[i] = t[b + i]
  BY DEF Part
<1>4. L \in 0..L /\ 0 \in 0..L
  BY <1>1
<1>5. PICK z : z = o[L]
  OBVIOUS
<1>6. z \in Nat /\ z <= e /\ c[L] = z - b
  BY <1>2, <1>4, <1>5
<1>7. ASSUME NEW n \in 0..L PROVE c[n] = o[n] - b /\ c[n] \in Nat /\ p <= c[n] /\ c[n] <= Len(u)
  <2>1. PICK x : x = o[n]
    OBVIOUS
  <2>2. x \in Nat /\ s <= x /\ x <= z /\ c[n] = x - b
    BY <1>2, <1>5, <2>1
  <2>3. PICK l : l = Len(u)
    OBVIOUS
  <2>4. x - b \in Nat /\ p <= x - b /\ x - b <= l
    <3>1. l = e - b
      BY <1>3, <2>3
    <3>2. z \in Nat /\ z <= e
      BY <1>6
    <3> QED BY ONLY <2>2, <3>1, <3>2, b \in Nat, s \in Nat, p \in Nat, s = b + p, e \in Nat
  <2> HIDE DEF c
  <2> QED BY <2>1, <2>2, <2>3, <2>4, Zenon
<1>8. c[0] = p
  <2>1. o[0] = s
    BY DEF Listed
  <2>2. c[0] = s - b
    BY <1>4, <2>1
  <2> QED BY <2>2
<1>9. ASSUME NEW n \in 1..L
      PROVE  /\ ObjectAt(u, ObjectStart(c, n), c[n], triggers[n])
             /\ n # 1 => u[c[n - 1] + 1] = Comma
  <2>1. PICK x, y, w : x = o[n - 1] /\ y = o[n] /\ w = ObjectStart(o, n)
    OBVIOUS
  <2>2. n - 1 \in 0..L /\ n \in 0..L
    BY <1>1
  <2>3. x \in Nat /\ s <= x /\ y \in Nat /\ y <= z /\ c[n - 1] = x - b /\ c[n] = y - b
    BY <1>2, <1>5, <1>7, <2>1, <2>2
  <2>4. ObjectAt(t, w, y, triggers[n]) /\ (n # 1 => t[x + 1] = Comma)
    BY <2>1 DEF Listed
  <2>5. w = (IF n = 1 THEN x ELSE x + 1)
    <3>1. CASE n = 1
      <4>1. n - 1 = 0
        BY <3>1
      <4> QED BY <2>1, <3>1, <4>1 DEF ObjectStart
    <3>2. CASE n # 1
      BY <2>1, <3>2 DEF ObjectStart
    <3> QED BY <3>1, <3>2
  <2>6. ObjectStart(c, n) = w - b
    <3>1. CASE n = 1
      <4>1. n - 1 = 0 /\ c[0] = x - b /\ w = x
        BY <2>3, <2>5, <3>1
      <4> HIDE DEF c
      <4> QED BY <3>1, <4>1 DEF ObjectStart
    <3>2. CASE n # 1
      <4>1. w = x + 1 /\ x - b + 1 = (x + 1) - b
        BY <2>3, <2>5, <3>2
      <4> HIDE DEF c
      <4> QED BY <2>3, <3>2, <4>1 DEF ObjectStart
    <3> QED BY <3>1, <3>2
  <2>7. w \in Nat /\ w - b \in Nat /\ w = b + (w - b) /\ y <= e
    BY <1>6, <2>3, <2>5
  <2>8. ObjectAt(u, w - b, y - b, triggers[n])
    BY <1>1, <2>4, <2>7, ObjectPart
  <2>9. ASSUME n # 1 PROVE u[c[n - 1] + 1] = Comma
    <3>1. t[x + 1] = Comma /\ w = x + 1
      BY <2>4, <2>5, <2>9
    <3>2. w + 7 < y
      BY <2>4 DEF ObjectAt
    <3>3. x - b + 1 \in 1..Len(u) /\ b + (x - b + 1) = x + 1
      <4>1. PICK l : l = Len(u)
        OBVIOUS
      <4>2. l = e - b
        BY <1>3, <4>1
      <4>3. x \in Nat /\ s <= x /\ y <= z /\ z <= e /\ x + 8 < y /\ y \in Nat /\ z \in Nat
        BY <1>6, <2>3, <3>1, <3>2
      <4>4. x - b + 1 \in 1..l /\ b + (x - b + 1) = x + 1
        BY ONLY <4>2, <4>3, b \in Nat, s \in Nat, p \in Nat, s = b + p, e \in Nat
      <4> QED BY <4>1, <4>4, Zenon
    <3>4. u[x - b + 1] = t[b + (x - b + 1)]
      BY <1>3, <3>3
    <3> HIDE DEF c
    <3> QED BY <2>3, <3>1, <3>3, <3>4, Zenon
  <2> HIDE DEF c
  <2> QED BY <2>3, <2>6, <2>8, <2>9
<1>10. Listed(u, p, c, triggers)
  <2> HIDE DEF c
  <2> QED BY <1>7, <1>8, <1>9 DEF Listed
<1> HIDE DEF c
<1> QED BY <1>5, <1>6, <1>10

\* A state of the loop that reads the array.
Reading(a, l) == [at |-> a, list |-> l, ok |-> TRUE, ended |-> FALSE]

\* A turn that meets an object.
LEMMA TurnReads ==
  ASSUME NEW u \in Strings, NEW b \in Nat, NEW e, NEW raw \in Strings, ObjectAt(u, b, e, raw),
         e < Len(u), u[e + 1] \in {Comma, "]"}, NEW l
  PROVE  NextItem(u, Reading(b + 1, l)) =
           Reading(IF u[e + 1] = Comma THEN e + 2 ELSE e + 1, Append(l, raw))
<1>1. Len(u) \in Nat
  BY LenProperties DEF Strings
<1>2. u[b + 1] = LeftBrace /\ e \in Nat /\ b + 7 < e
  BY DEF ObjectAt
<1>3. PICK a, s, end, w : /\ a = b + 1 /\ s = Reading(a, l)
                          /\ end = FindMatching(u, a, Len(u)) /\ w = SubSeq(u, a, e)
  OBVIOUS
<1>4. a \in Nat /\ a < e /\ a <= Len(u) /\ u[a] = LeftBrace
  BY <1>1, <1>2, <1>3
<1>5. end = e
  <2>1. FindMatching(u, b + 1, Len(u)) = e
    BY <1>1, ObjectEnd
  <2> QED BY <1>3, <2>1
<1>6. GetValue(MemberKey, w) = Found(raw)
  <2>1. w = SubSeq(u, b + 1, e) /\ b <= e /\ e <= Len(u)
    BY <1>1, <1>2, <1>3
  <2>2. Part(w, u, b, e)
    BY <1>2, <2>1, PartOf
  <2>3. PICK x, z : z = 0 /\ x = b + z
    OBVIOUS
  <2>4. ObjectAt(w, 0, e - b, raw)
    <3>1. x \in Nat /\ z \in Nat /\ ObjectAt(u, x, e, raw)
      BY <2>3
    <3>2. PICK o : o = e
      OBVIOUS
    <3>3. /\ Len(u) \in Nat /\ b \in Nat /\ e \in Nat /\ e <= Len(u) /\ Part(w, u, b, e)
          /\ z \in Nat /\ x \in Nat /\ x = b + z /\ raw \in Strings /\ ObjectAt(u, x, o, raw) /\ o <= e
      BY <1>1, <1>2, <2>1, <2>2, <2>3, <3>1, <3>2
    <3>4. ObjectAt(w, z, o - b, raw)
      BY ONLY <3>3, ObjectPart
    <3> QED BY <2>3, <3>2, <3>4
  <2>5. w \in Strings
    BY <2>2 DEF Part
  <2> QED BY <2>4, <2>5, MemberFound
<1> DEFINE opens == {m \in a..Len(u) : u[m] = LeftBrace}
<1>7. opens # {} /\ Min(opens) = a
  <2>1. a \in opens /\ opens \subseteq Nat /\ \A m \in opens : a <= m
    BY <1>1, <1>4
  <2> HIDE DEF opens
  <2>2. Min(opens) \in opens /\ \A k \in opens : Min(opens) <= k
    BY <2>1, LeastIn
  <2>3. Min(opens) <= a /\ a <= Min(opens) /\ Min(opens) \in Nat
    BY <2>1, <2>2
  <2> QED BY <1>4, <2>1, <2>3
<1>8. s.at = a /\ s.list = l /\ s.ok /\ ~s.ended
  BY <1>3 DEF Reading
<1>9. PICK g, i : g = (IF u[e + 1] = Comma THEN e + 2 ELSE e + 1) /\ i = Append(l, raw)
  OBVIOUS
<1>10. NextItem(u, s) = [s EXCEPT !.at = g, !.list = i]
  <2>1. ~(s.ended \/ a > Len(u)) /\ u[a] # "]" /\ end # NotFound /\ end # Len(u)
    BY <1>1, <1>2, <1>4, <1>5, <1>8, Distinct DEF NotFound
  <2>2. Found(raw).found /\ Found(raw).text = raw
    BY DEF Found
  <2>3. s.at = a
    BY <1>8
  <2>4. NextItem(u, s) =
          LET end1 == FindMatching(u, a, Len(u))
              value == GetValue(MemberKey, SubSeq(u, a, end1))
          IN IF s.ended \/ a > Len(u) THEN s
             ELSE IF u[a] = "]" \/ opens = {} \/ end1 = NotFound THEN [s EXCEPT !.ended = TRUE]
             ELSE IF ~value.found \/ end1 = Len(u) THEN [s EXCEPT !.ended = TRUE, !.ok = FALSE]
             ELSE IF u[end1 + 1] \notin {Comma, "]"} THEN [s EXCEPT !.ended = TRUE, !.ok = FALSE]
             ELSE [s EXCEPT !.at = IF u[end1 + 1] = Comma THEN end1 + 2 ELSE end1 + 1,
                            !.list = Append(s.list, value.text)]
    BY <1>7, <2>3, Zenon DEF NextItem, opens
  <2> HIDE DEF opens
  <2>5. NextItem(u, s) =
          LET value == Found(raw)
          IN IF s.ended \/ a > Len(u) THEN s
             ELSE IF u[a] = "]" \/ opens = {} \/ e = NotFound THEN [s EXCEPT !.ended = TRUE]
             ELSE IF ~value.found \/ e = Len(u) THEN [s EXCEPT !.ended = TRUE, !.ok = FALSE]
             ELSE IF u[e + 1] \notin {Comma, "]"} THEN [s EXCEPT !.ended = TRUE, !.ok = FALSE]
             ELSE [s EXCEPT !.at = IF u[e + 1] = Comma THEN e + 2 ELSE e + 1,
                            !.list = Append(s.list, value.text)]
    <3>1. FindMatching(u, a, Len(u)) = e /\ GetValue(MemberKey, SubSeq(u, a, e)) = Found(raw)
      BY <1>3, <1>5, <1>6
    <3> QED BY ONLY <2>4, <3>1
  <2>6. NextItem(u, s) = [s EXCEPT !.at = IF u[e + 1] = Comma THEN e + 2 ELSE e + 1,
                                   !.list = Append(s.list, raw)]
    BY <1>5, <1>7, <2>1, <2>2, <2>5, Zenon
  <2> QED BY <1>8, <1>9, <2>6, Zenon
<1>11. [s EXCEPT !.at = g, !.list = i] = Reading(g, i)
  <2>1. s = [at |-> a, list |-> l, ok |-> TRUE, ended |-> FALSE]
    BY <1>3 DEF Reading
  <2>2. [s EXCEPT !.at = g, !.list = i] = [at |-> g, list |-> i, ok |-> TRUE, ended |-> FALSE]
    <3>1. PICK y, n : y = TRUE /\ n = FALSE
      OBVIOUS
    <3>2. s = [at |-> a, list |-> l, ok |-> y, ended |-> n]
      BY <2>1, <3>1, Zenon
    <3>3. PICK r : r = [s EXCEPT !.at = g, !.list = i]
      OBVIOUS
    <3>4. r \in [at : {a, g}, list : {l, i}, ok : {y}, ended : {n}]
      BY ONLY <3>2, <3>3
    <3>5. r.at = g /\ r.list = i /\ r.ok = y /\ r.ended = n
      BY ONLY <3>2, <3>3
    <3>6. r = [at |-> g, list |-> i, ok |-> y, ended |-> n]
      BY ONLY <3>4, <3>5
    <3> QED BY <3>1, <3>3, <3>6, Zenon
  <2> QED BY <2>2 DEF Reading
<1> QED BY <1>3, <1>9, <1>10, <1>11, Zenon

\* And one that meets the end of the array.
LEMMA TurnEnds ==
  ASSUME NEW u, NEW a \in Nat, ~(a > Len(u)), u[a] = "]", NEW l
  PROVE  \A e \in BOOLEAN : NextItem(u, [at |-> a, list |-> l, ok |-> TRUE, ended |-> e]) =
                               [at |-> a, list |-> l, ok |-> TRUE, ended |-> TRUE]
<1> SUFFICES ASSUME NEW e \in BOOLEAN, NEW s, s = [at |-> a, list |-> l, ok |-> TRUE, ended |-> e]
             PROVE  NextItem(u, s) = [at |-> a, list |-> l, ok |-> TRUE, ended |-> TRUE]
  OBVIOUS
<1>1. s.at = a /\ s.ended = e
  OBVIOUS
<1>2. CASE e
  <2>1. NextItem(u, s) = s
    BY <1>1, <1>2, Zenon DEF NextItem
  <2> QED BY <1>2, <2>1
<1>3. CASE ~e
  <2>1. NextItem(u, s) = [s EXCEPT !.ended = TRUE]
    BY <1>1, <1>3, Zenon DEF NextItem
  <2> QED BY <2>1
<1> QED BY <1>2, <1>3

\* The first items of a list, one at a time.
LEMMA FirstItems ==
  ASSUME NEW triggers \in Seq(Strings)
  PROVE  /\ SubSeq(triggers, 1, 0) = <<>>
         /\ SubSeq(triggers, 1, Len(triggers)) = triggers
         /\ \A n \in 1..Len(triggers) :
              SubSeq(triggers, 1, n) = Append(SubSeq(triggers, 1, n - 1), triggers[n])
<1>1. Len(triggers) \in Nat /\ \A i \in 1..Len(triggers) : triggers[i] \in Strings
  BY LenProperties, ElementOfSeq
<1>2. ASSUME NEW n \in 0..Len(triggers)
      PROVE  LET s == SubSeq(triggers, 1, n)
             IN  s \in Seq(Strings) /\ Len(s) = n /\ \A i \in 1..n : s[i] = triggers[i]
  <2>1. PICK s, m : s = SubSeq(triggers, m, n) /\ m = 1
    OBVIOUS
  <2>2. m \in Int /\ n \in Int /\ \A i \in m..n : triggers[i] \in Strings
    BY <1>1, <2>1
  <2>3. /\ s \in Seq(Strings)
        /\ Len(s) = (IF m <= n THEN n - m + 1 ELSE 0)
        /\ \A i \in 1..(n - m + 1) : s[i] = triggers[m + i - 1]
    BY <2>1, <2>2, SubSeqProperties
  <2>4. Len(s) = n
    BY <1>1, <2>1, <2>3
  <2>5. ASSUME NEW i \in 1..n PROVE s[i] = triggers[i]
    <3>1. i \in 1..(n - m + 1) /\ m + i - 1 = i
      BY <1>1, <2>1, <2>5
    <3> QED BY <2>3, <3>1
  <2> QED BY <2>1, <2>3, <2>4, <2>5
<1>3. SubSeq(triggers, 1, 0) = <<>>
  <2>1. 0 < 1 /\ 0 \in Int /\ 1 \in Int
    OBVIOUS
  <2> QED BY <2>1, SubSeqEmpty
<1>4. SubSeq(triggers, 1, Len(triggers)) = triggers
  <2>1. PICK s : s = SubSeq(triggers, 1, Len(triggers))
    OBVIOUS
  <2>2. s \in Seq(Strings) /\ Len(s) = Len(triggers) /\ \A i \in 1..Len(s) : s[i] = triggers[i]
    BY <1>1, <1>2, <2>1
  <2> QED BY <2>1, <2>2, SeqEqual
<1>5. ASSUME NEW n \in 1..Len(triggers)
      PROVE  SubSeq(triggers, 1, n) = Append(SubSeq(triggers, 1, n - 1), triggers[n])
  <2>1. PICK s, r, w, c, m : /\ s = SubSeq(triggers, 1, n) /\ m = n - 1 /\ r = SubSeq(triggers, 1, m)
                             /\ c = triggers[n] /\ w = Append(r, c)
    OBVIOUS
  <2>2. m \in 0..Len(triggers) /\ n \in 0..Len(triggers) /\ n = m + 1 /\ m \in Nat
    BY <1>1, <2>1
  <2>3. s \in Seq(Strings) /\ Len(s) = n /\ \A i \in 1..n : s[i] = triggers[i]
    BY <1>2, <2>1, <2>2
  <2>4. r \in Seq(Strings) /\ Len(r) = m /\ \A i \in 1..m : r[i] = triggers[i]
    BY <1>2, <2>1, <2>2
  <2>5. c \in Strings
    BY <1>1, <2>1
  <2>6. w \in Seq(Strings) /\ Len(w) = m + 1 /\ \A i \in 1..Len(r) : w[i] = r[i]
        /\ w[Len(r) + 1] = c
    BY <2>1, <2>4, <2>5, AppendProperties
  <2>7. ASSUME NEW i \in 1..Len(s) PROVE s[i] = w[i]
    <3>1. CASE i = n
      BY <2>1, <2>2, <2>3, <2>4, <2>6, <3>1
    <3>2. CASE i # n
      <4>1. i \in 1..m
        BY <2>2, <2>3, <3>2
      <4> QED BY <2>2, <2>3, <2>4, <2>6, <4>1
    <3> QED BY <3>1, <3>2
  <2>8. s = w
    BY <2>2, <2>3, <2>6, <2>7, SeqEqual
  <2> QED BY <2>1, <2>8
<1> QED BY <1>3, <1>4, <1>5

\* Where the loop is after n turns.
Place(o, count, n) == IF n < count THEN ObjectStart(o, n + 1) + 1 ELSE o[count] + 1

ItemsAfter(o, triggers, n) ==
  IF n <= Len(triggers) THEN Reading(Place(o, Len(triggers), n), SubSeq(triggers, 1, n))
  ELSE [at |-> o[Len(triggers)] + 1, list |-> triggers, ok |-> TRUE, ended |-> TRUE]

\* Each turn reads the next item; behind the last one the loop has ended.
LEMMA TurnOnList ==
  ASSUME NEW u \in Strings, NEW triggers \in Seq(Strings), NEW o, Listed(u, 1, o, triggers),
         u[o[Len(triggers)] + 1] = "]", Len(u) = o[Len(triggers)] + 1,
         NEW n \in Nat \ {0}
  PROVE  ItemsAfter(o, triggers, n) = NextItem(u, ItemsAfter(o, triggers, n - 1))
<1> DEFINE L == Len(triggers)
<1>1. L \in Nat /\ Len(u) \in Nat
  BY LenProperties DEF Strings
<1>2. PICK z : z = o[L]
  OBVIOUS
<1>3. z \in Nat /\ Len(u) = z + 1 /\ u[z + 1] = "]"
  <2>1. L \in 0..L
    BY <1>1
  <2> QED BY <1>2, <2>1 DEF Listed
<1>4. CASE n <= L
  <2>1. PICK m, b, e, raw, l : /\ m = n - 1 /\ b = ObjectStart(o, n) /\ e = o[n]
                               /\ raw = triggers[n] /\ l = SubSeq(triggers, 1, m)
    OBVIOUS
  <2>2. m \in Nat /\ m < L /\ m + 1 = n /\ n \in 1..L /\ n \in 0..L /\ m \in 0..L
    BY <1>1, <1>4, <2>1
  <2>3. ItemsAfter(o, triggers, m) = Reading(b + 1, l)
    <3>1. m <= L /\ Place(o, L, m) = b + 1
      BY <1>1, <2>1, <2>2 DEF Place
    <3> QED BY <2>1, <3>1, Zenon DEF ItemsAfter
  <2>4. ObjectAt(u, b, e, raw) /\ raw \in Strings
    BY <2>1, <2>2, ElementOfSeq DEF Listed
  <2>5. b \in Nat
    <3>1. CASE n = 1
      <4>1. b = o[0] /\ 0 \in 0..L
        BY <1>1, <2>1, <3>1 DEF ObjectStart
      <4> QED BY <4>1 DEF Listed
    <3>2. CASE n # 1
      <4>1. b = o[m] + 1
        BY <2>1, <3>2 DEF ObjectStart
      <4> QED BY <2>2, <4>1 DEF Listed
    <3> QED BY <3>1, <3>2
  <2>6. e \in Nat /\ e <= z
    <3>1. L \in n..L
      BY <1>1, <2>2
    <3>2. o[n] <= o[L]
      BY <2>2, <3>1, ListedOrder
    <3> QED BY <1>2, <2>1, <2>2, <3>2 DEF Listed
  <2>7. /\ n = L => e = z /\ u[e + 1] = "]"
        /\ n # L => u[e + 1] = Comma
    <3>1. CASE n = L
      BY <1>2, <1>3, <2>1, <3>1
    <3>2. CASE n # L
      <4>1. PICK i : i = n + 1
        OBVIOUS
      <4>2. i \in 1..L /\ i # 1 /\ i - 1 = n
        BY <1>1, <2>2, <3>2, <4>1
      <4>3. u[o[i - 1] + 1] = Comma
        BY <4>2 DEF Listed
      <4> QED BY <2>1, <3>2, <4>2, <4>3
    <3> QED BY <3>1, <3>2
  <2>8. e < Len(u) /\ u[e + 1] \in {Comma, "]"}
    BY <1>3, <2>6, <2>7
  <2>9. NextItem(u, Reading(b + 1, l)) =
          Reading(IF u[e + 1] = Comma THEN e + 2 ELSE e + 1, Append(l, raw))
    BY <2>4, <2>5, <2>8, TurnReads
  <2>10. (IF u[e + 1] = Comma THEN e + 2 ELSE e + 1) = Place(o, L, n)
    <3>1. CASE n = L
      <4>1. Place(o, L, n) = e + 1
        BY <1>1, <2>1, <3>1 DEF Place
      <4> QED BY <2>7, <3>1, <4>1, Distinct
    <3>2. CASE n # L
      <4>1. PICK i : i = n + 1
        OBVIOUS
      <4>2. n < L /\ i # 1 /\ i - 1 = n
        BY <1>1, <2>2, <3>2, <4>1
      <4>3. ObjectStart(o, i) = e + 1
        BY <2>1, <4>2 DEF ObjectStart
      <4>4. Place(o, L, n) = e + 1 + 1
        BY <4>1, <4>2, <4>3 DEF Place
      <4> QED BY <2>6, <2>7, <3>2, <4>4
    <3> QED BY <3>1, <3>2
  <2>11. Append(l, raw) = SubSeq(triggers, 1, n)
    BY <2>1, <2>2, FirstItems
  <2>12. ItemsAfter(o, triggers, n) = Reading(Place(o, L, n), SubSeq(triggers, 1, n))
    BY <1>4, Zenon DEF ItemsAfter
  <2> QED BY <2>1, <2>3, <2>9, <2>10, <2>11, <2>12, Zenon
<1>5. CASE ~(n <= L)
  <2>1. PICK m, a, s, e : m = n - 1 /\ a = z + 1 /\ s = ItemsAfter(o, triggers, m) /\ e = ~(m <= L)
    OBVIOUS
  <2>2. m \in Nat /\ L <= m /\ (m <= L => m = L)
    BY <1>1, <1>5, <2>1
  <2>3. s = [at |-> a, list |-> triggers, ok |-> TRUE, ended |-> e]
    <3>1. CASE m <= L
      <4>1. m = L /\ Place(o, L, m) = a
        BY <1>1, <1>2, <2>1, <2>2, <3>1 DEF Place
      <4>2. s = Reading(a, SubSeq(triggers, 1, L))
        BY <2>1, <3>1, <4>1, Zenon DEF ItemsAfter
      <4>3. s = Reading(a, triggers) /\ e = FALSE
        BY <2>1, <3>1, <4>2, FirstItems
      <4> QED BY <4>3, Zenon DEF Reading
    <3>2. CASE ~(m <= L)
      <4>1. s = [at |-> a, list |-> triggers, ok |-> TRUE, ended |-> TRUE] /\ e = TRUE
        BY <1>2, <2>1, <3>2, Zenon DEF ItemsAfter
      <4> QED BY <4>1, Zenon
    <3> QED BY <3>1, <3>2
  <2>4. a \in Nat /\ ~(a > Len(u)) /\ u[a] = "]" /\ e \in BOOLEAN
    BY <1>3, <2>1
  <2>5. NextItem(u, s) = [at |-> a, list |-> triggers, ok |-> TRUE, ended |-> TRUE]
    <3>1. \A x \in BOOLEAN : NextItem(u, [at |-> a, list |-> triggers, ok |-> TRUE, ended |-> x]) =
                               [at |-> a, list |-> triggers, ok |-> TRUE, ended |-> TRUE]
      BY <2>4, TurnEnds
    <3>2. NextItem(u, [at |-> a, list |-> triggers, ok |-> TRUE, ended |-> e]) =
            [at |-> a, list |-> triggers, ok |-> TRUE, ended |-> TRUE]
      BY <2>4, <3>1, Zenon
    <3> QED BY <2>3, <3>2, Zenon
  <2>6. ItemsAfter(o, triggers, n) = [at |-> a, list |-> triggers, ok |-> TRUE, ended |-> TRUE]
    BY <1>2, <1>5, <2>1, Zenon DEF ItemsAfter
  <2> QED BY <2>1, <2>5, <2>6, Zenon
<1> QED BY <1>4, <1>5

\* The loop reads the list that was written.
LEMMA ItemsRead ==
  ASSUME NEW u \in Strings, NEW triggers \in Seq(Strings), NEW o, Listed(u, 1, o, triggers),
         u[o[Len(triggers)] + 1] = "]", Len(u) = o[Len(triggers)] + 1, Len(triggers) <= MaxItems
  PROVE  Items(u).ok /\ Items(u).list = triggers
<1> DEFINE L == Len(triggers)
           start == [at |-> 2, list |-> <<>>, ok |-> TRUE, ended |-> FALSE]
           Step(s) == NextItem(u, s)
           after[n \in 0..MaxItems] == IF n = 0 THEN start ELSE Step(after[n - 1])
           st == [n \in 0..MaxItems |-> ItemsAfter(o, triggers, n)]
<1>1. Items(u) = after[MaxItems]
  BY DEF Items
<1>2. L \in Nat /\ MaxItems \in Nat \ {0}
  BY LenProperties, ScanAssumption
<1>3. ItemsAfter(o, triggers, 0) = start
  <2>1. o[0] = 1 /\ 0 \in 0..L
    BY <1>2 DEF Listed
  <2>2. Place(o, L, 0) = 2
    <3>1. CASE L = 0
      BY <2>1, <3>1 DEF Place
    <3>2. CASE L # 0
      <4>1. ObjectStart(o, 0 + 1) = 1 /\ 0 < L
        BY <1>2, <2>1, <3>2 DEF ObjectStart
      <4> QED BY <4>1 DEF Place
    <3> QED BY <3>1, <3>2
  <2>3. 0 <= L /\ SubSeq(triggers, 1, 0) = <<>>
    BY <1>2, FirstItems
  <2> QED BY <2>2, <2>3, Zenon DEF ItemsAfter, Reading
<1>4. PICK h : h = after
  OBVIOUS
<1> HIDE DEF start, Step
<1>5. \A n \in 0..MaxItems : st[n] = IF n = 0 THEN start ELSE Step(st[n - 1])
  <2> SUFFICES ASSUME NEW n \in 0..MaxItems PROVE st[n] = IF n = 0 THEN start ELSE Step(st[n - 1])
    OBVIOUS
  <2>1. CASE n = 0
    BY <1>2, <1>3, <2>1
  <2>2. CASE n # 0
    <3>1. n \in Nat \ {0} /\ n - 1 \in 0..MaxItems
      BY <1>2, <2>2
    <3>2. ItemsAfter(o, triggers, n) = NextItem(u, ItemsAfter(o, triggers, n - 1))
      BY <3>1, TurnOnList
    <3>3. st[n] = ItemsAfter(o, triggers, n) /\ st[n - 1] = ItemsAfter(o, triggers, n - 1)
      BY <3>1
    <3> HIDE DEF st
    <3> QED BY <2>2, <3>2, <3>3, Zenon DEF Step
  <2> QED BY <2>1, <2>2
<1>6. after = [n \in 0..MaxItems |-> IF n = 0 THEN start ELSE Step(after[n - 1])]
  <2>1. st = [n \in 0..MaxItems |-> IF n = 0 THEN start ELSE Step(st[n - 1])]
    <3>1. st = [n \in 0..MaxItems |-> st[n]]
      OBVIOUS
    <3> HIDE DEF st
    <3> QED BY <1>5, <3>1
  <2>2. \E e : e = [n \in 0..MaxItems |-> IF n = 0 THEN start ELSE Step(e[n - 1])]
    <3> HIDE DEF st
    <3> QED BY <2>1
  <2> QED BY <2>2
<1> HIDE DEF after, st
<1>7. \A n \in 0..MaxItems : h[n] = IF n = 0 THEN start ELSE Step(h[n - 1])
  <2>1. h = [n \in 0..MaxItems |-> IF n = 0 THEN start ELSE Step(h[n - 1])]
    BY <1>4, <1>6, Zenon
  <2> QED BY ONLY <2>1
<1> DEFINE T == {n \in 0..MaxItems : h[n] = st[n]}
<1>8. 0 \in T
  BY <1>2, <1>5, <1>7
<1>9. ASSUME NEW n \in 0..(MaxItems - 1), n \in T PROVE n + 1 \in T
  <2>1. PICK m : m = n + 1
    OBVIOUS
  <2>2. m \in 0..MaxItems /\ m # 0 /\ m - 1 = n /\ h[n] = st[n]
    BY <1>2, <1>9, <2>1
  <2>3. h[m] = Step(h[n]) /\ st[m] = Step(st[n])
    BY <1>5, <1>7, <2>2
  <2> QED BY <2>1, <2>2, <2>3
<1>10. \A n \in 0..MaxItems : n \in T
  <2> HIDE DEF T
  <2>1. 0 \in Nat /\ MaxItems \in Nat
    BY <1>2
  <2> QED BY <1>8, <1>9, <2>1, UpTo
<1>11. Items(u) = ItemsAfter(o, triggers, MaxItems)
  <2>1. MaxItems \in 0..MaxItems
    BY <1>2
  <2>2. h[MaxItems] = st[MaxItems]
    BY <1>10, <2>1
  <2>3. st[MaxItems] = ItemsAfter(o, triggers, MaxItems)
    BY <2>1 DEF st
  <2> QED BY <1>1, <1>4, <2>2, <2>3, Zenon
<1>12. CASE MaxItems <= L
  <2>1. MaxItems = L
    BY <1>2, <1>12
  <2>2. ItemsAfter(o, triggers, MaxItems) = Reading(Place(o, L, L), SubSeq(triggers, 1, L))
    BY <1>12, <2>1, Zenon DEF ItemsAfter
  <2>3. Items(u) = Reading(Place(o, L, L), triggers)
    BY <1>11, <2>2, FirstItems
  <2> QED BY <2>3 DEF Reading
<1>13. CASE ~(MaxItems <= L)
  <2>1. Items(u) = [at |-> o[L] + 1, list |-> triggers, ok |-> TRUE, ended |-> TRUE]
    BY <1>11, <1>13, Zenon DEF ItemsAfter
  <2> QED BY <2>1
<1> QED BY <1>12, <1>13

-----------------------------------------------------------------------------
\* The verdict of the loaders.

\* cache_load finds in a text that begins like a saved one what was saved.
LEMMA LoadsBack ==
  ASSUME NEW t \in Strings, NEW v, Record(v), Len(v.triggers) <= MaxItems,
         NEW d, NEW o, Layout(t, v, d, o)
  PROVE  CacheLoad(t) = [ok |-> TRUE, date |-> v.date, triggers |-> v.triggers]
<1>1. GetValue(VersionKey, t) = Found(FormatVersion)
  BY VersionFound
<1>2. GetValue(DateKey, t) = Found(v.date)
  BY DateFound
<1>3. PICK b, n, e, u : /\ b = d + 5 /\ n = o[Len(v.triggers)] /\ e = n + 1
                        /\ u = SubSeq(t, d + 6, n + 1)
  OBVIOUS
<1>4. GetValue(TriggersKey, t) = Found(u)
  BY <1>3, ArrayFound
<1>5. v.triggers \in Seq(Strings)
  BY DEF Record
<1>6. /\ Len(t) \in Nat /\ b \in Nat /\ n \in Nat /\ b < n /\ e \in Nat /\ e <= Len(t)
      /\ d + 6 = b + 1 /\ e = n + 1 /\ b <= e /\ n <= e
  <2>1. d \in Nat /\ n \in Nat /\ d + 6 <= n /\ n + 1 <= Len(t) /\ Len(t) \in Nat
    BY <1>3, LayoutPlaces
  <2>2. b = d + 5 /\ e = n + 1
    BY <1>3
  <2> QED BY ONLY <2>1, <2>2
<1>7. Part(u, t, b, e)
  <2>1. u = SubSeq(t, b + 1, e)
    BY <1>3, <1>6, Zenon
  <2> QED BY <1>6, <2>1, PartOf
<1>8. u \in Strings /\ Len(u) = e - b /\ \A i \in 1..Len(u) : u[i] = t[b + i]
  BY <1>7 DEF Part
<1>9. t[d + 6] = "[" /\ Listed(t, d + 6, o, v.triggers) /\ t[n + 1] = "]"
  BY <1>3 DEF Layout
<1>10. PICK c : Listed(u, 1, c, v.triggers) /\ c[Len(v.triggers)] = n - b
  <2>1. Listed(t, b + 1, o, v.triggers)
    BY <1>6, <1>9, Zenon
  <2>2. PICK s : s = b + 1
    OBVIOUS
  <2>3. 1 \in Nat /\ s \in Nat
    BY <1>6, <2>2
  <2>4. \E c : Listed(u, 1, c, v.triggers) /\ c[Len(v.triggers)] = o[Len(v.triggers)] - b
    <3>1. Listed(t, s, o, v.triggers) /\ o[Len(v.triggers)] <= e
      BY <1>3, <1>6, <2>1, <2>2, Zenon
    <3>2. PICK p : p = 1
      OBVIOUS
    <3>3. p \in Nat /\ s = b + p
      BY <2>2, <3>2
    <3>4. PICK list : list = v.triggers
      OBVIOUS
    <3>5. /\ Len(t) \in Nat /\ b \in Nat /\ e \in Nat /\ e <= Len(t) /\ Part(u, t, b, e)
          /\ p \in Nat /\ s \in Nat /\ s = b + p /\ list \in Seq(Strings)
          /\ Listed(t, s, o, list) /\ o[Len(list)] <= e
      BY <1>5, <1>6, <1>7, <2>3, <3>1, <3>3, <3>4, Zenon
    <3>6. \E c : Listed(u, p, c, list) /\ c[Len(list)] = o[Len(list)] - b
      BY ONLY <3>5, ListedPart
    <3> QED BY <3>2, <3>4, <3>6
  <2> QED BY <1>3, <2>4
<1>11. Items(u).ok /\ Items(u).list = v.triggers
  <2>1. PICK m : m = n - b
    OBVIOUS
  <2>2. m \in Nat /\ m + 1 = e - b /\ m + 1 \in 1..Len(u) /\ b + (m + 1) = n + 1
    <3>1. PICK x : x = Len(u)
      OBVIOUS
    <3>2. b \in Nat /\ n \in Nat /\ b < n /\ e = n + 1 /\ x = e - b
      BY <1>6, <1>8, <3>1, Zenon
    <3>3. m \in Nat /\ m + 1 = e - b /\ m + 1 \in 1..x /\ b + (m + 1) = n + 1
      BY ONLY <2>1, <3>2
    <3> QED BY <3>1, <3>3, Zenon
  <2>3. u[m + 1] = "]" /\ Len(u) = m + 1
    BY <1>8, <1>9, <2>2
  <2>4. u[c[Len(v.triggers)] + 1] = "]" /\ Len(u) = c[Len(v.triggers)] + 1
    BY <1>10, <2>1, <2>3, Zenon
  <2> QED BY <1>5, <1>8, <1>10, <2>4, ItemsRead
<1>12. u # <<>> /\ u[1] = "["
  <2>1. 1 \in 1..Len(u)
    <3>1. PICK x : x = Len(u)
      OBVIOUS
    <3>2. b \in Nat /\ n \in Nat /\ b < n /\ e = n + 1 /\ x = e - b
      BY <1>6, <1>8, <3>1, Zenon
    <3>3. 1 \in 1..x
      BY ONLY <3>2
    <3> QED BY <3>1, <3>3, Zenon
  <2>2. u[1] = t[b + 1]
    BY <1>8, <2>1
  <2>3. Len(u) # 0
    BY <2>1
  <2> QED BY <1>6, <1>9, <2>2, <2>3
<1>13. \A x : Found(x).found /\ Found(x).text = x
  BY DEF Found
<1> QED BY <1>1, <1>2, <1>4, <1>11, <1>12, <1>13, Zenon DEF CacheLoad

\* And refuses a text whose list is missing or cut off.
LEMMA RefusesWithoutList ==
  ASSUME NEW t, \/ FindKey(TriggersKey, t) = NotFound
                \/ FindKey(TriggersKey, t) > Len(t)
                \/ /\ t[FindKey(TriggersKey, t)] = "["
                   /\ FindMatching(t, FindKey(TriggersKey, t), DepthLimit) = NotFound,
         NEW k \in Nat, k = FindKey(TriggersKey, t), Len(t) \in Nat
  PROVE  ~CacheLoad(t).ok
<1>1. ~GetValue(TriggersKey, t).found \/ GetValue(TriggersKey, t).text = <<>>
  <2>1. CASE k = NotFound
    <3>1. GetValue(TriggersKey, t) = NoValue
      BY <2>1, Zenon DEF GetValue
    <3> QED BY <3>1 DEF NoValue
  <2>2. CASE k # NotFound /\ k > Len(t)
    <3>1. GetValue(TriggersKey, t) = Found(<<>>)
      BY <2>2, Zenon DEF GetValue, ExtractValue
    <3> QED BY <3>1 DEF Found
  <2>3. CASE k # NotFound /\ ~(k > Len(t))
    <3>1. t[k] = "[" /\ FindMatching(t, k, DepthLimit) = NotFound
      BY <2>3
    <3>2. t[k] # Quote /\ t[k] \in Opening
      BY <3>1, Distinct, Zenon DEF Opening
    <3>3. GetValue(TriggersKey, t) = NoValue
      BY <2>3, <3>1, <3>2, Zenon DEF GetValue, ExtractValue
    <3> QED BY <3>3 DEF NoValue
  <2> QED BY <2>1, <2>2, <2>3
<1>2. CacheLoad(t) = Refused
  BY <1>1, Zenon DEF CacheLoad
<1> QED BY <1>2 DEF Refused

\* At the last character of a cut text no key ends.
LEMMA CutStep ==
  ASSUME NEW key, NEW t, NEW text, NEW s \in KeyStates, NEW n \in Nat, t[n] = text[n], ~(n < Len(t))
  PROVE  KeyStep(key, t, s, n).at \in {NotFound, KeyStep(key, text, s, n).at}
<1>1. CASE s.at # NotFound \/ s.refused
  <2>1. KeyStep(key, t, s, n) = s /\ KeyStep(key, text, s, n) = s
    BY <1>1, Zenon DEF KeyStep
  <2> QED BY <2>1
<1>2. CASE ~(s.at # NotFound \/ s.refused) /\ s.string
  <2>1. PICK u : u = InString(s, t[n])
    OBVIOUS
  <2>2. KeyStep(key, t, s, n) = u
    BY <1>2, <2>1, Zenon DEF KeyStep
  <2>3. u.at = s.at
    BY <2>1 DEF InString, KeyStates
  <2> QED BY <1>2, <2>2, <2>3
<1>3. CASE ~(s.at # NotFound \/ s.refused) /\ ~s.string
  <2>1. KeyStep(key, t, s, n) = KeyStep(key, text, s, n)
    BY <1>3, Zenon DEF KeyStep
  <2> QED BY <2>1
<1> QED BY <1>1, <1>2, <1>3

\* The search for a key in a text that was cut off finds the key of the whole
\* text, or none.
LEMMA CutKey ==
  ASSUME NEW text, Len(text) \in Nat, NEW n \in 0..Len(text), NEW t, Cut(t, text, n), NEW key
  PROVE  FindKey(key, t) \in {NotFound, FindKey(key, text)}
<1>1. PICK f : KeyRun(f, key, text) /\ FindKey(key, text) = f[Len(text)].at
  BY KeyRuns
<1>2. Len(t) = n /\ n \in Nat /\ \A i \in 1..n : t[i] = text[i]
  BY DEF Cut
<1>3. PICK g : KeyRun(g, key, t) /\ FindKey(key, t) = g[n].at
  BY <1>2, KeyRuns
<1> DEFINE T == {i \in 0..n : i < n => g[i] = f[i]}
<1>4. \A i \in 1..n : /\ f[i] = KeyStep(key, text, f[i - 1], i) /\ f[i - 1] \in KeyStates
                      /\ g[i] = KeyStep(key, t, g[i - 1], i) /\ g[i - 1] \in KeyStates
  <2> SUFFICES ASSUME NEW i \in 1..n
               PROVE  /\ f[i] = KeyStep(key, text, f[i - 1], i) /\ f[i - 1] \in KeyStates
                      /\ g[i] = KeyStep(key, t, g[i - 1], i) /\ g[i - 1] \in KeyStates
    OBVIOUS
  <2>1. i \in 1..Len(text) /\ i - 1 \in 0..Len(text) /\ i \in 1..Len(t) /\ i - 1 \in 0..Len(t)
    BY <1>2
  <2> QED BY <1>1, <1>3, <2>1 DEF KeyRun
<1>5. ASSUME NEW s \in KeyStates, NEW i \in 1..n, i < n
      PROVE  KeyStep(key, t, s, i) = KeyStep(key, text, s, i)
  <2>1. t[i] = text[i] /\ t[i + 1] = text[i + 1] /\ i < Len(t) /\ i < Len(text)
    BY <1>2, <1>5
  <2>2. SubSeq(t, s.start + 1, i - 1) = SubSeq(text, s.start + 1, i - 1)
    <3>1. s.start \in Nat
      BY DEF KeyStates
    <3>2. PICK a, b : a = s.start + 1 /\ b = i - 1
      OBVIOUS
    <3>3. a \in Int /\ b \in Int /\ \A j \in a..b : t[j] = text[j]
      BY <1>2, <1>5, <3>1, <3>2
    <3>4. SubSeq(t, a, b) = SubSeq(text, a, b)
      BY ONLY <3>3, PartsAgree
    <3> QED BY <3>2, <3>4, Zenon
  <2> QED BY <2>1, <2>2, Zenon DEF KeyStep
<1>6. g[0] = f[0]
  BY <1>1, <1>3, Zenon DEF KeyRun
<1>7. ASSUME NEW i \in 0..(n - 1), i \in T PROVE i + 1 \in T
  <2>1. PICK m : m = i + 1
    OBVIOUS
  <2>2. m \in 0..n /\ m \in 1..n /\ m - 1 = i /\ i < n
    BY <1>2, <1>7, <2>1
  <2>3. m < n => g[m] = f[m]
    BY <1>4, <1>5, <1>7, <2>2
  <2> QED BY <2>1, <2>2, <2>3
<1>8. \A i \in 0..n : i \in T
  <2>1. 0 \in Nat /\ 0 \in T
    BY <1>2, <1>6
  <2> HIDE DEF T
  <2> QED BY <1>2, <1>7, <2>1, UpTo
<1>9. g[n].at \in {NotFound, f[n].at}
  <2>1. CASE n = 0
    BY <1>6, <2>1
  <2>2. CASE n # 0
    <3>1. PICK m : m = n - 1
      OBVIOUS
    <3>2. n \in 1..n /\ m \in 0..n /\ m < n /\ n - 1 = m
      BY <1>2, <2>2, <3>1
    <3>3. PICK s : s = f[m]
      OBVIOUS
    <3>4. g[m] = s
      BY <1>8, <3>2, <3>3
    <3>5. g[n] = KeyStep(key, t, s, n) /\ f[n] = KeyStep(key, text, s, n) /\ s \in KeyStates
      BY <1>4, <3>2, <3>3, <3>4
    <3>6. t[n] = text[n] /\ ~(n < Len(t))
      BY <1>2, <3>2
    <3> QED BY <3>5, <3>6, CutStep
  <2> QED BY <2>1, <2>2
<1>10. f[n].at \in {NotFound, f[Len(text)].at}
  BY <1>1, KeyEnds
<1> QED BY <1>1, <1>3, <1>9, <1>10

\* A value that cache_save can write and cache_load has room for.
Storable(v) == Record(v) /\ Len(v.triggers) <= MaxItems

(***************************************************************************)
(* What cache_save writes (src/core/cache.c) is an object that config_load *)
(* would take, cache_load finds in it what was saved, whatever quotes,     *)
(* escapes and brackets the strings contain, and finds in a text that was  *)
(* cut off the same or nothing.                                            *)
(***************************************************************************)
THEOREM SavedTextIsKept ==
  ASSUME NEW v, Storable(v), NEW w, w = CacheText(v)
  PROVE  /\ w \in Strings /\ Len(w) \in Nat \ {0}
         /\ CacheLoad(w) = [ok |-> TRUE, date |-> v.date, triggers |-> v.triggers]
         /\ ConfigAccepts(w)
         /\ \A n \in 0..Len(w) : \A t : Cut(t, w, n) /\ CacheLoad(t).ok =>
              CacheLoad(t).date = v.date /\ CacheLoad(t).triggers = v.triggers
<1>1. Record(v) /\ Len(v.triggers) <= MaxItems
  BY DEF Storable
<1>2. PICK h \in Strings :
        /\ w = h \o <<RightBrace>> /\ Len(h) \in Nat
        /\ \A t : Len(t) \in Nat /\ At(t, 0, h) =>
             \E d, o : Layout(t, v, d, o) /\ o[Len(v.triggers)] + 1 = Len(h)
  BY <1>1, HeadAt
<1>3. PICK final : final = <<RightBrace>>
  OBVIOUS
<1>4. final \in Strings /\ Len(final) = 1 /\ final[1] = RightBrace
  BY <1>3, Marks, Single
<1>5. /\ w \in Strings /\ Len(w) = Len(h) + 1
      /\ \A i \in 1..Len(h) : w[i] = h[i]
      /\ w[Len(h) + 1] = RightBrace
  <2>1. w = h \o final
    BY <1>2, <1>3
  <2>2. /\ w \in Strings /\ Len(w) = Len(h) + Len(final)
        /\ \A i \in 1..(Len(h) + Len(final)) : w[i] = IF i <= Len(h) THEN h[i] ELSE final[i - Len(h)]
    <3>1. h \in Seq(Alphabet) /\ final \in Seq(Alphabet)
      BY <1>4 DEF Strings
    <3>2. /\ h \o final \in Seq(Alphabet) /\ Len(h \o final) = Len(h) + Len(final)
          /\ \A i \in 1..(Len(h) + Len(final)) :
               (h \o final)[i] = IF i <= Len(h) THEN h[i] ELSE final[i - Len(h)]
      BY ONLY <3>1, ConcatProperties
    <3> QED BY <2>1, <3>2, Zenon DEF Strings
  <2>3. PICK x : x = Len(h)
    OBVIOUS
  <2>4. x \in Nat /\ Len(final) = 1 /\ \A i \in 1..(x + 1) : w[i] = IF i <= x THEN h[i] ELSE final[i - x]
    BY <1>2, <1>4, <2>2, <2>3
  <2>5. \A i \in 1..x : w[i] = h[i]
    BY <2>4
  <2>6. w[x + 1] = final[1]
    <3>1. PICK i : i = x + 1
      OBVIOUS
    <3>2. i \in 1..(x + 1) /\ ~(i <= x) /\ i - x = 1
      BY ONLY <2>4, <3>1
    <3>3. w[i] = final[i - x]
      BY <2>4, <3>2
    <3> QED BY <3>1, <3>2, <3>3, Zenon
  <2> QED BY <1>4, <2>2, <2>3, <2>5, <2>6
<1>6. PICK e : e = Len(h)
  OBVIOUS
<1>7. e \in Nat /\ Len(w) = e + 1 /\ Len(w) \in Nat
  BY <1>2, <1>5, <1>6
<1>8. ASSUME NEW t, Len(t) \in Nat, e <= Len(t), \A i \in 1..e : t[i] = w[i]
      PROVE  \E d, o : Layout(t, v, d, o) /\ o[Len(v.triggers)] + 1 = e
  <2>1. At(t, 0, h)
    <3>1. \A i \in 1..e : t[i] = h[i]
      BY <1>5, <1>6, <1>8
    <3>2. 0 + e <= Len(t) /\ \A i \in 1..e : 0 + i = i
      BY <1>7, <1>8
    <3> QED BY <1>6, <3>1, <3>2 DEF At
  <2> QED BY <1>2, <1>6, <1>8, <2>1
<1>9. PICK d, o : Layout(w, v, d, o) /\ o[Len(v.triggers)] + 1 = e
  BY <1>7, <1>8
<1>10. CacheLoad(w) = [ok |-> TRUE, date |-> v.date, triggers |-> v.triggers]
  BY <1>1, <1>5, <1>9, LoadsBack
<1>11. w[1] = LeftBrace /\ d \in Nat /\ d + 7 <= e /\ 13 <= d
  <2>1. PICK x : x = o[Len(v.triggers)]
    OBVIOUS
  <2>2. x \in Nat /\ d + 6 <= x /\ d \in Nat /\ 13 <= d /\ x + 1 = e
    BY <1>1, <1>5, <1>9, <2>1, LayoutPlaces
  <2>3. d + 7 <= e
    BY ONLY <2>2
  <2> QED BY <1>9, <2>2, <2>3 DEF Layout
<1>12. ConfigAccepts(w)
  <2>1. FindMatching(w, 1, DepthLimit) = Len(w)
    <3>1. e = o[Len(v.triggers)] + 1 /\ e + 1 = Len(w) /\ w[e + 1] = RightBrace /\ DepthLimit \in Nat /\ 2 <= DepthLimit
      BY <1>5, <1>6, <1>7, <1>9, ScanAssumption
    <3> QED BY <1>1, <1>7, <1>9, <3>1, WholeEnd
  <2>2. w # <<>>
    BY <1>7
  <2> QED BY <1>11, <2>1, <2>2 DEF ConfigAccepts
<1>13. ASSUME NEW n \in 0..Len(w), NEW t, Cut(t, w, n), CacheLoad(t).ok
       PROVE  CacheLoad(t).date = v.date /\ CacheLoad(t).triggers = v.triggers
  <2>1. Len(t) = n /\ t = [i \in 1..n |-> w[i]] /\ n \in Nat
    BY <1>7, <1>13 DEF Cut
  <2>2. CASE e <= n
    <3>1. \A i \in 1..e : t[i] = w[i]
      BY <1>7, <2>1, <2>2
    <3>2. t \in Strings
      <4>1. \A i \in 1..n : w[i] \in Alphabet
        <5> SUFFICES ASSUME NEW i \in 1..n PROVE w[i] \in Alphabet
          OBVIOUS
        <5>1. i \in 1..Len(w)
          BY <1>7
        <5> QED BY <1>5, <5>1, ElementOfSeq DEF Strings
      <4> QED BY <2>1, <4>1 DEF Strings
    <3>3. PICK b, c : Layout(t, v, b, c)
      BY <1>8, <2>1, <2>2, <3>1
    <3>4. CacheLoad(t) = [ok |-> TRUE, date |-> v.date, triggers |-> v.triggers]
      BY <1>1, <3>2, <3>3, LoadsBack
    <3> QED BY <3>4
  <2>3. CASE ~(e <= n)
    <3>1. PICK k : k = d + 6
      OBVIOUS
    <3>2. FindKey(TriggersKey, w) = k
      BY <1>1, <1>5, <1>9, <3>1, KeysFound
    <3>3. FindKey(TriggersKey, t) \in {NotFound, k}
      BY <1>7, <1>13, <3>2, CutKey
    <3>4. k \in Nat /\ k \in 1..Len(w)
      BY <1>7, <1>11, <3>1
    <3>5. CASE FindKey(TriggersKey, t) = NotFound
      <4>1. NotFound \in Nat /\ Len(t) \in Nat
        BY <2>1 DEF NotFound
      <4>2. ~CacheLoad(t).ok
        BY <3>5, <4>1, RefusesWithoutList
      <4> QED BY <1>13, <4>2
    <3>6. CASE FindKey(TriggersKey, t) = k /\ k > n
      <4>1. ~CacheLoad(t).ok
        BY <2>1, <3>4, <3>6, RefusesWithoutList
      <4> QED BY <1>13, <4>1
    <3>7. CASE FindKey(TriggersKey, t) = k /\ ~(k > n)
      <4>1. k \in 1..n /\ n \in k..Len(w)
        BY <1>7, <2>1, <3>4, <3>7
      <4>2. t[k] = "["
        <5>1. w[k] = "["
          BY <1>9, <3>1 DEF Layout
        <5> QED BY <2>1, <4>1, <5>1
      <4>3. FindMatching(w, k, DepthLimit) = e
        BY <1>1, <1>5, <1>9, <3>1, ArrayFound
      <4>4. FindMatching(t, k, DepthLimit) = Since(e, n)
        BY <1>7, <1>13, <3>4, <4>1, <4>3, ScanAssumption, CutMatch
      <4>5. FindMatching(t, k, DepthLimit) = NotFound
        BY <2>3, <4>4 DEF Since
      <4>6. ~CacheLoad(t).ok
        BY <2>1, <3>4, <3>7, <4>2, <4>5, RefusesWithoutList
      <4> QED BY <1>13, <4>6
    <3> QED BY <3>3, <3>5, <3>6, <3>7
  <2> QED BY <2>2, <2>3
<1> QED BY <1>5, <1>7, <1>10, <1>12, <1>13

-----------------------------------------------------------------------------
\* The texts of the store.

\* The values can be stored,
LEMMA ValuesStorable == ASSUME NEW v \in Values PROVE Storable(v)
<1>1. /\ v \in [date : Seq(Characters), triggers : Seq(Seq(Characters))]
      /\ Len(v.triggers) <= MaxItems
  BY ValuesAssumption
<1>2. \A s \in Seq(Characters) : s \in Strings
  <2>1. Characters \subseteq Alphabet
    BY DEF Alphabet
  <2> QED BY <2>1 DEF Strings
<1>3. v.date \in Strings
  BY <1>1, <1>2
<1>4. v.triggers \in Seq(Strings)
  BY <1>1, <1>2
<1> QED BY <1>1, <1>3, <1>4 DEF Storable, Record

\* so their texts are texts, no two of them the same.
LEMMA TextOfValue ==
  ASSUME NEW v \in Values
  PROVE  /\ Text[v] \in Strings /\ Len(Text[v]) \in Nat \ {0}
         /\ CacheLoad(Text[v]) = [ok |-> TRUE, date |-> v.date, triggers |-> v.triggers]
         /\ ConfigAccepts(Text[v])
         /\ \A n \in 0..Len(Text[v]) : \A t : Cut(t, Text[v], n) /\ CacheLoad(t).ok =>
              CacheLoad(t).date = v.date /\ CacheLoad(t).triggers = v.triggers
<1>1. Text[v] = CacheText(v)
  BY DEF Text, TextOf
<1> QED BY <1>1, ValuesStorable, SavedTextIsKept

\* A value is its date and its triggers.
LEMMA ValueIs ==
  ASSUME NEW v \in Values
  PROVE  v = [date |-> v.date, triggers |-> v.triggers]
<1>1. v \in [date : Seq(Characters), triggers : Seq(Seq(Characters))]
  BY ValuesAssumption
<1> QED BY <1>1

\* The texts are sequences, and differ.
LEMMA Texts ==
  /\ \A v \in Values : Len(Text[v]) \in Nat /\ Text[v] = [n \in 1..Len(Text[v]) |-> Text[v][n]]
  /\ \A v, w \in Values : Text[v] = Text[w] => v = w
<1>1. ASSUME NEW v \in Values PROVE Text[v] = [n \in 1..Len(Text[v]) |-> Text[v][n]]
  <2>1. PICK t : t = Text[v]
    OBVIOUS
  <2>2. t \in Seq(Alphabet)
    BY <2>1, TextOfValue DEF Strings
  <2>3. t = [n \in 1..Len(t) |-> t[n]]
    BY <2>2
  <2> QED BY <2>1, <2>3, Zenon
<1>2. ASSUME NEW v \in Values, NEW w \in Values, Text[v] = Text[w] PROVE v = w
  <2>1. PICK a, b, c, d : a = v.date /\ b = v.triggers /\ c = w.date /\ d = w.triggers
    OBVIOUS
  <2>2. /\ CacheLoad(Text[v]) = [ok |-> TRUE, date |-> v.date, triggers |-> v.triggers]
        /\ CacheLoad(Text[w]) = [ok |-> TRUE, date |-> w.date, triggers |-> w.triggers]
    BY TextOfValue
  <2>3. [ok |-> TRUE, date |-> a, triggers |-> b] = [ok |-> TRUE, date |-> c, triggers |-> d]
    BY <1>2, <2>1, <2>2, Zenon
  <2>4. a = c /\ b = d
    BY ONLY <2>3
  <2>5. v = [date |-> a, triggers |-> b] /\ w = [date |-> c, triggers |-> d]
    BY <2>1, ValueIs
  <2> QED BY <2>4, <2>5, Zenon
<1> QED BY <1>1, <1>2, TextOfValue

\* A beginning of a text is the text cut off somewhere.
LEMMA BeginningIsCut ==
  ASSUME NEW v \in Values, NEW n \in 0..Len(Text[v]), NEW t, t = SubSeq(Text[v], 1, n)
  PROVE  Cut(t, Text[v], n) /\ IsPrefix(t, Text[v])
<1>1. PICK u, m, b : u = Text[v] /\ m = Len(u) /\ b = 0
  OBVIOUS
<1>2. u \in Strings /\ m \in Nat /\ n \in 0..m /\ n \in Nat /\ b \in Nat /\ b <= n /\ n <= m
  <2>1. u \in Strings /\ m \in Nat
    BY <1>1, TextOfValue
  <2>2. n \in 0..m
    BY <1>1, Zenon
  <2> QED BY ONLY <1>1, <2>1, <2>2
<1>3. t = SubSeq(u, b + 1, n)
  <2>1. b + 1 = 1
    BY <1>1
  <2> QED BY <1>1, <2>1, Zenon
<1>4. Part(t, u, b, n)
  BY <1>1, <1>2, <1>3, PartOf
<1>5. t \in Strings /\ Len(t) = n /\ \A i \in 1..n : t[i] = u[i]
  <2>1. t \in Strings /\ Len(t) = n - b /\ \A i \in 1..Len(t) : t[i] = u[b + i]
    BY <1>4 DEF Part
  <2>2. Len(t) = n /\ \A i \in 1..n : b + i = i
    BY <1>1, <1>2, <2>1
  <2> QED BY <2>1, <2>2
<1>6. Cut(t, u, n)
  <2>1. t = [i \in 1..Len(t) |-> t[i]]
    BY <1>5 DEF Strings
  <2> QED BY <1>5, <2>1 DEF Cut
<1>7. SubSeq(t, 1, n) = SubSeq(u, 1, n)
  <2>1. 1 \in Int /\ n \in Int
    BY <1>2
  <2> QED BY <1>5, <2>1, PartsAgree
<1>8. IsPrefix(t, u)
  BY <1>1, <1>2, <1>5, <1>7 DEF IsPrefix
<1> QED BY <1>1, <1>6, <1>8

\* What the loaders make of one.
LEMMA BeginningsRefused ==
  ASSUME NEW t \in Beginnings
  PROVE  /\ Loaded[t].ok =>
              \E v \in Values : IsPrefix(t, Text[v]) /\ v = [date |-> Loaded[t].date,
                                                             triggers |-> Loaded[t].triggers]
         /\ t \in Accepted <=> \E v \in Values : t = Text[v]
<1>1. PICK v \in Values : \E n \in 0..Len(Text[v]) : t = SubSeq(Text[v], 1, n)
  BY DEF Beginnings
<1>2. PICK n \in 0..Len(Text[v]) : t = SubSeq(Text[v], 1, n)
  BY <1>1
<1>3. Cut(t, Text[v], n) /\ IsPrefix(t, Text[v])
  BY <1>2, BeginningIsCut
<1>4. Loaded[t] = CacheLoad(t) /\ (t \in Accepted <=> ConfigAccepts(t))
  BY DEF Loaded, Accepted
<1>5. ASSUME Loaded[t].ok
      PROVE  v = [date |-> Loaded[t].date, triggers |-> Loaded[t].triggers]
  <2>1. \A i \in 0..Len(Text[v]) : \A r : Cut(r, Text[v], i) /\ CacheLoad(r).ok =>
          CacheLoad(r).date = v.date /\ CacheLoad(r).triggers = v.triggers
    BY TextOfValue
  <2>2. CacheLoad(t).date = v.date /\ CacheLoad(t).triggers = v.triggers
    BY <1>3, <1>4, <1>5, <2>1, Zenon
  <2> QED BY <1>4, <2>2, ValueIs, Zenon
<1>6. ASSUME ConfigAccepts(t) PROVE t = Text[v]
  <2>1. n = Len(Text[v])
    <3>1. Len(Text[v]) \in Nat /\ ConfigAccepts(Text[v])
      BY TextOfValue
    <3>2. n \notin 0..(Len(Text[v]) - 1)
      BY <1>3, <1>6, <3>1, NoBeginningIsAccepted
    <3> QED BY <3>1, <3>2
  <2>2. t = [i \in 1..Len(Text[v]) |-> Text[v][i]]
    BY <1>3, <2>1, Zenon DEF Cut
  <2> QED BY <2>2, Texts
<1>7. ASSUME NEW w \in Values, t = Text[w] PROVE ConfigAccepts(t)
  BY <1>7, TextOfValue
<1> QED BY <1>3, <1>4, <1>5, <1>6, <1>7

(***************************************************************************)
(* A file that is cut short, which overlapping savers can leave, is never  *)
(* taken for a shorter list: cache_load refuses it or finds the whole      *)
(* value in it, config_load takes none but a whole text (src/core/cache.c, *)
(* src/core/config.c).  For all strings of the values, whatever quotes,    *)
(* escapes and brackets they contain.                                      *)
(***************************************************************************)
THEOREM CutsAreRefused == Spec => []CutsRefused
<1>1. CutsRefused
  BY BeginningsRefused DEF CutsRefused
<1> QED BY <1>1, PTL

(***************************************************************************)
(* What was saved is what is loaded (cache_save and cache_load,            *)
(* src/core/cache.c; json_write_escaped and the scanner, src/json.h).      *)
(***************************************************************************)
THEOREM SavedIsReadBack == Spec => []ReadBack
<1>1. ReadBack
  <2> SUFFICES ASSUME NEW v \in Values
               PROVE  Loaded[Text[v]] = [ok |-> TRUE, date |-> v.date, triggers |-> v.triggers]
    BY Zenon DEF ReadBack
  <2>1. Text[v] \in Beginnings
    <3>1. PICK u, m : u = Text[v] /\ m = Len(u)
      OBVIOUS
    <3>2. m \in Nat /\ u = [n \in 1..m |-> u[n]] /\ m \in 0..m
      BY <3>1, Texts
    <3>3. SubSeq(u, 1, m) = u
      <4>1. Cut(SubSeq(u, 1, m), u, m)
        BY <3>1, <3>2, BeginningIsCut
      <4> QED BY <3>2, <4>1, Zenon DEF Cut
    <3>4. u \in {SubSeq(Text[v], 1, n) : n \in 0..Len(Text[v])}
      BY <3>1, <3>2, <3>3
    <3> QED BY <3>1, <3>4 DEF Beginnings
  <2> QED BY <2>1, TextOfValue DEF Loaded
<1> QED BY <1>1, PTL

-----------------------------------------------------------------------------
\* Saving.

\* Each saver's record, which is empty outside a save.
SaversOK ==
  /\ saver \in [Savers -> SaverTypes]
  /\ \A p \in Savers : IF Busy(p) THEN saver[p].val \in Values /\ saver[p].ino \in Inodes
                                  ELSE saver[p] = Idle

\* The file being written is neither the one that is read nor the one that a
\* power cut would leave, overlapping savers or not.
NamesApart ==
  /\ dir.tmp # NoInode => dir.tmp \notin {dir.path, durDir.path, reader}
  /\ durDir.path # NoInode => durDir.path # durDir.tmp

\* A .tmp that is not litter has somebody who will see to it.
NoOrphan == ~litter /\ dir.tmp # NoInode => \E p \in Savers : Busy(p)

\* Savers that take turns have the .tmp to themselves,
Alone ==
  \A p \in Savers : Busy(p) =>
    /\ saver[p].ino = dir.tmp
    /\ \A q \in Savers : Busy(q) => q = p

\* hold in it what they have written, and rename it when all of it is on disk.
WrittenSoFar(p) ==
  LET s == saver[p]
      text == Text[s.val] IN
  /\ s.pc = "write" /\ ~s.err =>
       s.off <= Len(text) /\ data[s.ino] = [n \in 1..s.off |-> text[n]]
  /\ s.pc = "sync" /\ ~s.err => data[s.ino] = text
  /\ s.pc = "rename" => data[s.ino] = text /\ disk[s.ino] = text

Progress == \A p \in Savers : Busy(p) => WrittenSoFar(p)

\* What bears the name is on disk.
OnDisk == \A i \in {dir.path, durDir.path} \ {NoInode} : data[i] = disk[i]

InTurn == ~clash => Alone /\ Progress /\ OnDisk

IInv == TypeOK /\ SaversOK /\ NamesApart /\ NoOrphan /\ InTurn

-----------------------------------------------------------------------------
LEMMA Tags == Absent \notin Values /\ Torn \notin Values /\ Absent # Torn /\ NoInode \notin Inodes
BY StoreAssumption DEF NoInode

\* The texts as sequences.
LEMMA TextIsSeq ==
  ASSUME NEW v \in Values
  PROVE  \E S : Text[v] \in Seq(S)
<1> DEFINE S == {Text[v][n] : n \in 1..Len(Text[v])}
<1>1. Text[v] \in [1..Len(Text[v]) -> S] /\ Len(Text[v]) \in Nat
  BY Texts
<1>2. Text[v] \in Seq(S)
  BY <1>1, SeqDef
<1> QED BY <1>2

\* A buffer is written behind what the file holds.
LEMMA OverlayExtends ==
  ASSUME NEW S, NEW full \in Seq(S), NEW off \in 0..Len(full), NEW end \in off..Len(full),
         NEW t, t = [n \in 1..off |-> full[n]]
  PROVE  Overlay(t, off, SubSeq(full, off + 1, end)) = [n \in 1..end |-> full[n]]
<1> DEFINE block == SubSeq(full, off + 1, end)
<1>1. Len(full) \in Nat /\ off \in Nat /\ end \in Nat
  BY LenProperties
<1>2. t \in Seq(S) /\ Len(t) = off
  <2>1. t \in [1..off -> S]
    BY <1>1, ElementOfSeq
  <2> QED BY <1>1, <2>1, SeqDef, LenProperties
<1>3. /\ Len(block) = end - off
      /\ \A n \in 1..(end - off) : block[n] = full[off + n]
  BY <1>1, SubSeqProperties
<1> HIDE DEF block
<1>4. off + Len(block) = end /\ ~(off > end)
  BY <1>1, <1>3
<1>5. Overlay(t, off, block) =
        [n \in 1..end |-> IF n \in (off + 1)..end THEN block[n - off]
                          ELSE IF n <= off THEN t[n] ELSE Nul]
  BY <1>2, <1>4 DEF Overlay
<1>6. ASSUME NEW n \in 1..end
      PROVE  (IF n \in (off + 1)..end THEN block[n - off]
              ELSE IF n <= off THEN t[n] ELSE Nul) = full[n]
  <2>1. CASE n \in (off + 1)..end
    BY <1>1, <1>3, <2>1
  <2>2. CASE n \notin (off + 1)..end
    BY <1>1, <2>2
  <2> QED BY <2>1, <2>2
<1> QED BY <1>5, <1>6 DEF block

LEMMA BlockExtends ==
  ASSUME NEW v \in Values, NEW off \in Nat, off <= Len(Text[v]),
         NEW t, t = [n \in 1..off |-> Text[v][n]]
  PROVE  LET end == IF off + BlockLen < Len(Text[v]) THEN off + BlockLen ELSE Len(Text[v])
         IN Overlay(t, off, Block(v, off)) = [n \in 1..end |-> Text[v][n]]
<1> DEFINE end == IF off + BlockLen < Len(Text[v]) THEN off + BlockLen ELSE Len(Text[v])
<1>1. PICK S : Text[v] \in Seq(S)
  BY TextIsSeq
<1>2. off \in 0..Len(Text[v]) /\ end \in off..Len(Text[v])
  BY Texts, StoreAssumption
<1>3. Block(v, off) = SubSeq(Text[v], off + 1, end)
  BY DEF Block
<1> HIDE DEF end
<1>4. ASSUME NEW full, full = Text[v] 
      PROVE  Overlay(t, off, SubSeq(full, off + 1, end)) = [n \in 1..end |-> full[n]]
  <2>1. full \in Seq(S) /\ off \in 0..Len(full) /\ end \in off..Len(full)
    BY <1>1, <1>2, <1>4
  <2>2. t = [n \in 1..off |-> full[n]]
    BY <1>4
  <2> QED BY <2>1, <2>2, OverlayExtends
<1> QED BY <1>3, <1>4 DEF end

\* What can be reached keeps its content in a step.
LEMMA FilesKept ==
  ASSUME NEW text, NEW kept, Files(text, kept)
  PROVE  /\ DOMAIN data' = Inodes /\ DOMAIN disk' = Inodes
         /\ \A i \in Inodes :
              \/ i \in {dir'.path, dir'.tmp, durDir'.path, durDir'.tmp, reader'}
              \/ \E p \in Savers : i = saver'[p].ino
              => data'[i] = text[i] /\ disk'[i] = kept[i]
<1> DEFINE live == Reachable(dir', durDir', saver', reader')
<1>1. \A i \in Inodes :
              \/ i \in {dir'.path, dir'.tmp, durDir'.path, durDir'.tmp, reader'}
              \/ \E p \in Savers : i = saver'[p].ino
              => i \in live
  BY DEF Reachable, Names
<1>2. /\ data' = [i \in Inodes |-> IF i \in live THEN text[i] ELSE <<>>]
      /\ disk' = [i \in Inodes |-> IF i \in live THEN kept[i] ELSE <<>>]
  BY DEF Files
<1> HIDE DEF live
<1> QED BY <1>1, <1>2

-----------------------------------------------------------------------------
\* What a saver's step does to the savers.
LEMMA Goes ==
  ASSUME SaversOK, NEW p \in Savers, Busy(p),
         NEW at \in {"write", "sync", "rename", "cleanup"}, Goto(p, at)
  PROVE  /\ SaversOK'
         /\ \A q \in Savers : Busy(q)' <=> Busy(q)
         /\ \A q \in Savers : /\ saver'[q].val = saver[q].val /\ saver'[q].ino = saver[q].ino
                              /\ saver'[q].off = saver[q].off /\ saver'[q].err = saver[q].err
         /\ saver'[p].pc = at /\ \A q \in Savers \ {p} : saver'[q] = saver[q]
<1> USE DEF SaversOK, SaverTypes, Busy, Goto
<1>1. saver' = [saver EXCEPT ![p] = [saver[p] EXCEPT !.pc = at]]
  OBVIOUS
<1>2. /\ saver'[p] = [saver[p] EXCEPT !.pc = at]
      /\ \A q \in Savers \ {p} : saver'[q] = saver[q]
  BY <1>1
<1>3. /\ saver'[p] \in SaverTypes /\ saver'[p].pc = at
      /\ saver'[p].val = saver[p].val /\ saver'[p].ino = saver[p].ino
      /\ saver'[p].off = saver[p].off /\ saver'[p].err = saver[p].err
  BY <1>2
<1>4. saver' \in [Savers -> SaverTypes]
  BY <1>1, <1>3
<1> QED BY <1>2, <1>3, <1>4

LEMMA Returns ==
  ASSUME SaversOK, NEW p \in Savers, NEW r, Report(p, r)
  PROVE  /\ SaversOK'
         /\ saver'[p] = Idle /\ ~Busy(p)' /\ \A q \in Savers \ {p} : saver'[q] = saver[q]
<1>1. Idle \in SaverTypes
  BY DEF Idle, SaverTypes
<1>2. saver'[p] = Idle /\ \A q \in Savers \ {p} : saver'[q] = saver[q]
  BY DEF Report, SaversOK
<1>3. saver' \in [Savers -> SaverTypes]
  BY <1>1 DEF Report, SaversOK
<1>4. ~Busy(p)'
  BY <1>2 DEF Busy, Idle
<1> QED BY <1>2, <1>3, <1>4 DEF SaversOK, Busy

LEMMA Advances ==
  ASSUME SaversOK, NEW p \in Savers, saver[p].pc = "write", NEW failed \in BOOLEAN,
         Advance(p, failed)
  PROVE  /\ SaversOK'
         /\ \A q \in Savers : Busy(q)' <=> Busy(q)
         /\ \A q \in Savers : saver'[q].val = saver[q].val /\ saver'[q].ino = saver[q].ino
         /\ \A q \in Savers \ {p} : saver'[q] = saver[q]
         /\ saver'[p].off = saver[p].off + BlockLen
         /\ saver'[p].err = (saver[p].err \/ failed)
         /\ saver'[p].pc = IF saver[p].off + BlockLen >= Len(Text[saver[p].val])
                           THEN "sync" ELSE "write"
<1> DEFINE off == saver[p].off + BlockLen
           at == IF off >= Len(Text[saver[p].val]) THEN "sync" ELSE "write"
           gone == [saver[p] EXCEPT !.off = off, !.err = @ \/ failed, !.pc = at]
<1>1. saver[p] \in SaverTypes /\ off \in Nat /\ at \in {"sync", "write"} /\ BlockLen \in Nat
  BY StoreAssumption DEF SaversOK, SaverTypes
<1>2. saver' = [saver EXCEPT ![p] = gone]
  BY <1>1 DEF Advance, SaversOK, SaverTypes
<1> HIDE DEF off, at
<1>3. /\ gone \in SaverTypes /\ gone.pc = at /\ gone.off = off
      /\ gone.err = (saver[p].err \/ failed)
      /\ gone.val = saver[p].val /\ gone.ino = saver[p].ino
  BY <1>1 DEF SaverTypes
<1> HIDE DEF gone
<1>4. saver'[p] = gone /\ \A q \in Savers \ {p} : saver'[q] = saver[q]
  BY <1>2 DEF SaversOK
<1>5. saver' \in [Savers -> SaverTypes]
  BY <1>2, <1>3 DEF SaversOK
<1>6. \A q \in Savers : Busy(q)' <=> Busy(q)
  BY <1>1, <1>3, <1>4 DEF Busy
<1>7. SaversOK'
  BY <1>3, <1>4, <1>5, <1>6 DEF SaversOK, Busy
<1> QED BY <1>3, <1>4, <1>6, <1>7 DEF off, at

\* A save begins in the leftover .tmp or in a file nobody can reach.
LEMMA Begins ==
  ASSUME TypeOK, SaversOK, NamesApart, NEW p \in Savers, NEW v \in Values, Begin(p, v)
  PROVE  \E i \in Inodes :
           /\ dir' = [dir EXCEPT !.tmp = i] /\ UNCHANGED <<durDir, reader>>
           /\ i \notin {dir.path, durDir.path, reader}
           /\ saver' = [saver EXCEPT ![p] = [Idle EXCEPT !.pc = "write", !.val = v, !.ino = i]]
           /\ Files([data EXCEPT ![i] = <<>>], disk)
<1> DEFINE fresh == Inodes \ Reachable(dir, durDir, saver, reader)
           i == IF dir.tmp # NoInode THEN dir.tmp ELSE Min(fresh)
<1>1. /\ dir' = [dir EXCEPT !.tmp = i] /\ UNCHANGED <<durDir, reader>>
      /\ saver' = [saver EXCEPT ![p] = [Idle EXCEPT !.pc = "write", !.val = v, !.ino = i]]
      /\ Files([data EXCEPT ![i] = <<>>], disk)
      /\ dir.tmp # NoInode \/ fresh # {}
  BY DEF Begin
<1>2. CASE dir.tmp # NoInode
  <2>1. i \in Inodes /\ i = dir.tmp
    BY <1>2 DEF TypeOK, Names
  <2>2. i \notin {dir.path, durDir.path, reader}
    BY <1>2, <2>1 DEF NamesApart
  <2> HIDE DEF i
  <2> QED BY <1>1, <2>1, <2>2
<1>3. CASE dir.tmp = NoInode
  <2>1. fresh \subseteq Nat /\ fresh # {}
    BY <1>1, <1>3, StoreAssumption
  <2>2. Min(fresh) \in fresh
    BY <2>1, LeastIn
  <2>3. i \in fresh
    BY <1>3, <2>2
  <2>4. i \in Inodes /\ i \notin {dir.path, durDir.path, reader}
    BY <2>3 DEF Reachable, Names
  <2> HIDE DEF i
  <2> QED BY <1>1, <2>4
<1> QED BY <1>2, <1>3

\* So does one whose fdopen fails.
LEMMA StreamsFail ==
  ASSUME TypeOK, SaversOK, NamesApart, NEW p \in Savers, StreamFails(p)
  PROVE  \E i \in Inodes :
           /\ dir' = [dir EXCEPT !.tmp = i] /\ UNCHANGED <<durDir, saver, reader>>
           /\ i \notin {dir.path, durDir.path, reader}
           /\ Files([data EXCEPT ![i] = <<>>], disk)
<1> DEFINE fresh == Inodes \ Reachable(dir, durDir, saver, reader)
           i == IF dir.tmp # NoInode THEN dir.tmp ELSE Min(fresh)
<1>1. /\ dir' = [dir EXCEPT !.tmp = i] /\ UNCHANGED <<durDir, saver, reader>>
      /\ Files([data EXCEPT ![i] = <<>>], disk)
      /\ dir.tmp # NoInode \/ fresh # {}
  BY DEF StreamFails
<1>2. CASE dir.tmp # NoInode
  <2>1. i \in Inodes /\ i = dir.tmp
    BY <1>2 DEF TypeOK, Names
  <2>2. i \notin {dir.path, durDir.path, reader}
    BY <1>2, <2>1 DEF NamesApart
  <2> HIDE DEF i
  <2> QED BY <1>1, <2>1, <2>2
<1>3. CASE dir.tmp = NoInode
  <2>1. fresh \subseteq Nat /\ fresh # {}
    BY <1>1, <1>3, StoreAssumption
  <2>2. Min(fresh) \in fresh
    BY <2>1, LeastIn
  <2>3. i \in fresh
    BY <1>3, <2>2
  <2>4. i \in Inodes /\ i \notin {dir.path, durDir.path, reader}
    BY <2>3 DEF Reachable, Names
  <2> HIDE DEF i
  <2> QED BY <1>1, <2>4
<1> QED BY <1>2, <1>3

\* The saver that has begun.
LEMMA Begun ==
  ASSUME SaversOK, NEW p \in Savers, NEW v \in Values, NEW i \in Inodes,
         saver' = [saver EXCEPT ![p] = [Idle EXCEPT !.pc = "write", !.val = v, !.ino = i]]
  PROVE  /\ SaversOK'
         /\ Busy(p)' /\ saver'[p].pc = "write" /\ saver'[p].val = v /\ saver'[p].ino = i
         /\ saver'[p].off = 0 /\ saver'[p].err = FALSE
         /\ \A q \in Savers \ {p} : saver'[q] = saver[q]
<1> DEFINE new == [Idle EXCEPT !.pc = "write", !.val = v, !.ino = i]
<1>1. /\ new \in SaverTypes /\ new.pc = "write" /\ new.val = v /\ new.ino = i
      /\ new.off = 0 /\ new.err = FALSE
  BY DEF Idle, SaverTypes
<1> HIDE DEF new
<1>2. saver'[p] = new /\ \A q \in Savers \ {p} : saver'[q] = saver[q]
  BY DEF SaversOK, new
<1>3. saver' \in [Savers -> SaverTypes]
  BY <1>1 DEF SaversOK, new
<1> QED BY <1>1, <1>2, <1>3 DEF SaversOK, Busy

-----------------------------------------------------------------------------
\* All of the invariant that does not depend on savers taking turns.
Static == TypeOK /\ SaversOK /\ NamesApart /\ NoOrphan

LEMMA StaticBegin ==
  ASSUME Static, NEW p \in Savers, NEW v \in Values, Begin(p, v)
  PROVE  Static'
<1>1. PICK i \in Inodes :
           /\ dir' = [dir EXCEPT !.tmp = i] /\ UNCHANGED <<durDir, reader>>
           /\ i \notin {dir.path, durDir.path, reader}
           /\ saver' = [saver EXCEPT ![p] = [Idle EXCEPT !.pc = "write", !.val = v, !.ino = i]]
           /\ Files([data EXCEPT ![i] = <<>>], disk)
  BY Begins DEF Static
<1>2. SaversOK' /\ Busy(p)'
  BY <1>1, Begun DEF Static
<1>3. DOMAIN data' = Inodes /\ DOMAIN disk' = Inodes
  BY <1>1, FilesKept
<1>4. dir'.tmp = i /\ dir'.path = dir.path /\ dir' \in [Names -> Inodes \cup {NoInode}]
  BY <1>1 DEF Static, TypeOK, Names
<1>5. clash' \in BOOLEAN
  BY DEF Begin, ClashAfter
<1>6. saves' \in 0..MaxSaves
  BY StoreAssumption DEF Begin, Static, TypeOK
<1>7. TypeOK'
  <2> HIDE DEF NoInode
  <2> QED BY <1>1, <1>2, <1>3, <1>4, <1>5, <1>6 DEF Begin, Static, TypeOK, SaversOK
<1>8. NamesApart'
  BY <1>1, <1>4 DEF Static, NamesApart
<1> QED BY <1>2, <1>7, <1>8 DEF Static, NoOrphan

LEMMA StaticStreamFails ==
  ASSUME Static, NEW p \in Savers, StreamFails(p)
  PROVE  Static'
<1>1. PICK i \in Inodes :
           /\ dir' = [dir EXCEPT !.tmp = i] /\ UNCHANGED <<durDir, saver, reader>>
           /\ i \notin {dir.path, durDir.path, reader}
           /\ Files([data EXCEPT ![i] = <<>>], disk)
  BY StreamsFail DEF Static
<1>2. SaversOK'
  BY <1>1 DEF Static, SaversOK, Busy
<1>3. DOMAIN data' = Inodes /\ DOMAIN disk' = Inodes
  BY <1>1, FilesKept
<1>4. dir'.tmp = i /\ dir'.path = dir.path /\ dir' \in [Names -> Inodes \cup {NoInode}]
  BY <1>1 DEF Static, TypeOK, Names
<1>5. clash' \in BOOLEAN /\ litter' = TRUE
  BY DEF StreamFails, ClashAfter
<1>6. saves' \in 0..MaxSaves /\ faults' \in 0..MaxFaults
  BY StoreAssumption DEF StreamFails, Fault, Static, TypeOK
<1>7. last' \in [Savers -> {"none", "ok", "failed"}]
  BY DEF StreamFails, Static, TypeOK
<1>8. TypeOK'
  <2> HIDE DEF NoInode
  <2> QED BY <1>1, <1>2, <1>3, <1>4, <1>5, <1>6, <1>7 DEF StreamFails, Static, TypeOK, SaversOK
<1>9. NamesApart'
  BY <1>1, <1>4 DEF Static, NamesApart
<1> QED BY <1>2, <1>5, <1>8, <1>9 DEF Static, NoOrphan

LEMMA FaultCounts ==
  ASSUME TypeOK, Fault \/ UNCHANGED faults
  PROVE  faults' \in 0..MaxFaults
BY StoreAssumption DEF TypeOK, Fault

LEMMA Renames ==
  ASSUME TypeOK, NEW p \in Savers, Rename(p)
  PROVE  /\ dir' \in [Names -> Inodes \cup {NoInode}]
         /\ dir'.path = dir.tmp /\ dir'.tmp = NoInode
<1>1. dir' = [path |-> dir.tmp, tmp |-> NoInode]
  BY DEF Rename
<1>2. dir.tmp \in Inodes \cup {NoInode}
  BY DEF TypeOK, Names
<1>3. dir' = [n \in Names |-> IF n = "path" THEN dir.tmp ELSE NoInode]
  BY <1>1 DEF Names
<1> QED BY <1>1, <1>2, <1>3 DEF Names

\* Steps of a saver that touch no file and no directory.
LEMMA StaticInside ==
  ASSUME Static, NEW p \in Savers,
         BeginFails(p) \/ WriteFails(p) \/ SyncFails(p) \/ RenameFails(p)
  PROVE  Static'
<1>1. UNCHANGED <<windows, dir, durDir, data, disk, reader, clash, litter>>
  BY DEF BeginFails, WriteFails, SyncFails, RenameFails
<1>2. faults' \in 0..MaxFaults /\ saves' \in 0..MaxSaves
  <2>1. Fault \/ UNCHANGED faults
    BY DEF BeginFails, WriteFails, SyncFails, RenameFails
  <2>2. saves' = saves \/ (saves < MaxSaves /\ saves' = saves + 1)
    BY DEF BeginFails, WriteFails, SyncFails, RenameFails
  <2> QED BY <2>1, <2>2, FaultCounts, StoreAssumption DEF Static, TypeOK
<1>3. SaversOK' /\ \A q \in Savers : Busy(q)' <=> Busy(q)
  <2>1. CASE BeginFails(p)
    BY <2>1 DEF BeginFails, Static, SaversOK, Busy
  <2>2. CASE WriteFails(p)
    BY <2>2, Advances DEF WriteFails, Static
  <2>3. CASE SyncFails(p)
    BY <2>3, Goes DEF SyncFails, Static, Busy
  <2>4. CASE RenameFails(p)
    BY <2>4, Goes DEF RenameFails, Static, Busy
  <2> QED BY <2>1, <2>2, <2>3, <2>4
<1>4. last' \in [Savers -> {"none", "ok", "failed"}]
  BY DEF Static, TypeOK, BeginFails, WriteFails, SyncFails, RenameFails
<1>5. TypeOK'
  BY <1>1, <1>2, <1>3, <1>4 DEF Static, TypeOK, SaversOK
<1>6. NamesApart'
  BY <1>1 DEF Static, NamesApart
<1>7. NoOrphan'
  BY <1>1, <1>3 DEF Static, NoOrphan
<1> QED BY <1>3, <1>5, <1>6, <1>7 DEF Static

\* Steps that write or sync and change no directory.
LEMMA StaticContent ==
  ASSUME Static, \/ \E p \in Savers : WriteBlock(p) \/ Sync(p)
                 \/ \E i \in Inodes : FlushData(i)
  PROVE  Static'
<1>1. UNCHANGED <<windows, dir, durDir, reader, last, litter, saves, faults>>
  BY DEF WriteBlock, Sync, FlushData
<1>2. DOMAIN data' = Inodes /\ DOMAIN disk' = Inodes
  BY FilesKept DEF WriteBlock, Sync, FlushData
<1>3. SaversOK' /\ \A q \in Savers : Busy(q)' <=> Busy(q)
  <2>1. ASSUME NEW p \in Savers, WriteBlock(p)
        PROVE  SaversOK' /\ \A q \in Savers : Busy(q)' <=> Busy(q)
    BY <2>1, Advances DEF WriteBlock, Static
  <2>2. ASSUME NEW p \in Savers, Sync(p)
        PROVE  SaversOK' /\ \A q \in Savers : Busy(q)' <=> Busy(q)
    BY <2>2, Goes DEF Sync, Static, Busy
  <2>3. ASSUME NEW i \in Inodes, FlushData(i)
        PROVE  SaversOK' /\ \A q \in Savers : Busy(q)' <=> Busy(q)
    BY <2>3 DEF FlushData, Static, SaversOK, Busy
  <2> QED BY <2>1, <2>2, <2>3
<1>4. clash' \in BOOLEAN
  BY DEF WriteBlock, Sync, FlushData, ClashAfter
<1>5. TypeOK'
  BY <1>1, <1>2, <1>3, <1>4 DEF Static, TypeOK, SaversOK
<1>6. NamesApart'
  BY <1>1 DEF Static, NamesApart
<1>7. NoOrphan'
  BY <1>1, <1>3 DEF Static, NoOrphan
<1> QED BY <1>3, <1>5, <1>6, <1>7 DEF Static

\* The saves that end.
LEMMA StaticEnd ==
  ASSUME Static, NEW p \in Savers, Rename(p) \/ Cleanup(p) \/ Kill(p)
  PROVE  Static'
<1>1. UNCHANGED <<windows, durDir, reader, saves>>
  BY DEF Rename, Cleanup, Kill
<1>2. DOMAIN data' = Inodes /\ DOMAIN disk' = Inodes
  BY FilesKept DEF Rename, Cleanup, Kill
<1>3. /\ \E r \in {"ok", "failed", "none"} : Report(p, r)
      /\ SaversOK' /\ \A q \in Savers \ {p} : saver'[q] = saver[q]
  BY Returns DEF Rename, Cleanup, Kill, Static
<1>4. last' \in [Savers -> {"none", "ok", "failed"}]
  BY <1>3 DEF Report, Static, TypeOK
<1>5. faults' \in 0..MaxFaults
  <2>1. Fault \/ UNCHANGED faults
    BY DEF Rename, Cleanup, Kill
  <2> QED BY <2>1, FaultCounts DEF Static
<1>6. clash' \in BOOLEAN /\ litter' \in BOOLEAN
  BY DEF Rename, Cleanup, Kill, ClashAfter, Static, TypeOK
<1>7. /\ dir' \in [Names -> Inodes \cup {NoInode}]
      /\ \/ dir' = dir
         \/ dir'.tmp = NoInode /\ dir'.path \in {dir.path, dir.tmp}
  <2>1. CASE Rename(p)
    BY <2>1, Renames DEF Static
  <2>2. CASE Cleanup(p)
    BY <2>2 DEF Cleanup, Static, TypeOK, Names
  <2>3. CASE Kill(p)
    BY <2>3 DEF Kill, Static, TypeOK
  <2> QED BY <2>1, <2>2, <2>3
<1>8. TypeOK'
  BY <1>1, <1>2, <1>3, <1>4, <1>5, <1>6, <1>7 DEF Static, TypeOK, SaversOK
<1>9. NamesApart'
  BY <1>1, <1>7 DEF Static, NamesApart
<1>10. NoOrphan'
  <2>1. SUFFICES ASSUME ~litter', dir'.tmp # NoInode
                 PROVE  \E q \in Savers : Busy(q)'
    BY DEF NoOrphan
  <2>2. Cleanup(p)
    BY <2>1, Renames DEF Kill, Static
  <2>3. dir' = dir /\ Held(p, dir.tmp) /\ dir.tmp # NoInode
    <3>1. dir' = IF Held(p, dir.tmp) THEN dir ELSE [dir EXCEPT !.tmp = NoInode]
      BY <2>1, <2>2 DEF Cleanup
    <3> QED BY <2>1, <3>1 DEF Static, TypeOK, Names
  <2>4. reader # dir.tmp
    BY <2>3 DEF Static, NamesApart
  <2>5. PICK q \in Savers \ {p} : HasOpen(q)
    BY <2>3, <2>4 DEF Held, OpenElsewhere
  <2> QED BY <1>3, <2>5 DEF HasOpen, Busy
<1> QED BY <1>3, <1>8, <1>9, <1>10 DEF Static

\* Deletions and readers.
LEMMA StaticReaders ==
  ASSUME Static, Invalidate \/ ReadOpen \/ ReadClose
  PROVE  Static'
<1>1. UNCHANGED <<windows, durDir, saver, last, litter, saves, faults>>
  BY DEF Invalidate, ReadOpen, ReadClose
<1>2. DOMAIN data' = Inodes /\ DOMAIN disk' = Inodes /\ clash' \in BOOLEAN
  BY FilesKept DEF Invalidate, ReadOpen, ReadClose, ClashAfter, Static, TypeOK
<1>3. /\ dir' \in [Names -> Inodes \cup {NoInode}] /\ dir'.tmp = dir.tmp
      /\ dir'.path \in {dir.path, NoInode}
      /\ reader' \in Inodes \cup {NoInode} /\ reader' \in {reader, dir.path, NoInode}
  BY DEF Invalidate, ReadOpen, ReadClose, Static, TypeOK, Names
<1>4. SaversOK' /\ \A q \in Savers : Busy(q)' <=> Busy(q)
  BY <1>1 DEF Static, SaversOK, Busy
<1>5. TypeOK'
  BY <1>1, <1>2, <1>3, <1>4 DEF Static, TypeOK, SaversOK
<1>6. NamesApart'
  BY <1>1, <1>3 DEF Static, NamesApart
<1>7. NoOrphan'
  BY <1>1, <1>3, <1>4 DEF Static, NoOrphan
<1> QED BY <1>4, <1>5, <1>6, <1>7 DEF Static

\* The disk catches up with the directory, or the power fails.
LEMMA StaticDisk ==
  ASSUME Static, FlushDir \/ PowerCut
  PROVE  Static'
<1>1. DOMAIN data' = Inodes /\ DOMAIN disk' = Inodes /\ clash' \in BOOLEAN
  BY FilesKept DEF FlushDir, PowerCut, ClashAfter
<1>2. CASE FlushDir
  <2>1. /\ durDir' = dir
        /\ UNCHANGED <<windows, dir, reader, saver, last, litter, saves, faults>>
    BY <1>2 DEF FlushDir
  <2>2. SaversOK' /\ \A q \in Savers : Busy(q)' <=> Busy(q)
    BY <2>1 DEF Static, SaversOK, Busy
  <2>3. TypeOK'
    BY <1>1, <2>1, <2>2 DEF Static, TypeOK, SaversOK
  <2>4. NamesApart'
    BY <2>1 DEF Static, NamesApart, TypeOK
  <2> QED BY <2>1, <2>2, <2>3, <2>4 DEF Static, NoOrphan
<1>3. CASE PowerCut
  <2>1. /\ dir' = durDir /\ reader' = NoInode /\ litter' = (dir'.tmp # NoInode)
        /\ UNCHANGED <<windows, durDir, saves>>
        /\ saver' = [p \in Savers |-> Idle] /\ last' = [p \in Savers |-> "none"]
    BY <1>3 DEF PowerCut
  <2>2. SaversOK'
    BY <2>1 DEF SaversOK, Busy, Idle, SaverTypes
  <2>3. faults' \in 0..MaxFaults
    BY <1>3, StoreAssumption DEF PowerCut, Fault, Static, TypeOK
  <2>4. dir'.path # NoInode => dir'.path # dir'.tmp
    BY <2>1 DEF Static, NamesApart
  <2>5. TypeOK'
    BY <1>1, <2>1, <2>2, <2>3, <2>4 DEF Static, TypeOK, SaversOK
  <2>6. NamesApart'
    BY <2>1 DEF Static, NamesApart
  <2> QED BY <2>1, <2>2, <2>5, <2>6 DEF Static, NoOrphan
<1> QED BY <1>2, <1>3

LEMMA StaticStep == ASSUME Static, [Next]_vars PROVE Static'
<1>1. CASE UNCHANGED vars
  BY <1>1 DEF vars, Static, TypeOK, SaversOK, Busy, NamesApart, NoOrphan
<1>2. CASE Next
  BY <1>2, StaticBegin, StaticStreamFails, StaticInside, StaticContent, StaticEnd, StaticReaders, StaticDisk
     DEF Next, SaverStep
<1> QED BY <1>1, <1>2

-----------------------------------------------------------------------------
\* What a clash ends with.
LEMMA ClashSettles ==
  ASSUME [Next]_vars, clash = TRUE, ~clash'
  PROVE  Settled(dir', durDir', saver', data', disk')
<1>1. \/ UNCHANGED clash
      \/ \E b : ClashAfter(b)
  BY DEF Next, SaverStep, Begin, StreamFails, BeginFails, WriteBlock, WriteFails, Sync, SyncFails, Rename,
     RenameFails, Cleanup, Kill, Invalidate, ReadOpen, ReadClose, FlushData, FlushDir, PowerCut, vars
<1> QED BY <1>1 DEF ClashAfter

\* A step leaves the file and what a power cut would leave of it as they are.
Unmoved ==
  \A i \in Inodes : /\ i = dir.path => data'[i] = data[i]
                    /\ i = durDir.path => disk'[i] = disk[i]

LEMMA TurnBegin ==
  ASSUME IInv, NEW p \in Savers, NEW v \in Values, Begin(p, v)
  PROVE  /\ Unmoved /\ clash' = (clash \/ Overlap(p))
         /\ saver'[p].val = v /\ \A q \in Savers \ {p} : saver'[q] = saver[q]
         /\ ~clash' => Alone' /\ Progress' /\ OnDisk'
<1>0. TypeOK /\ SaversOK /\ NamesApart
  BY DEF IInv
<1>1. PICK i \in Inodes :
           /\ dir' = [dir EXCEPT !.tmp = i] /\ UNCHANGED <<durDir, reader>>
           /\ i \notin {dir.path, durDir.path, reader}
           /\ saver' = [saver EXCEPT ![p] = [Idle EXCEPT !.pc = "write", !.val = v, !.ino = i]]
           /\ Files([data EXCEPT ![i] = <<>>], disk)
  BY <1>0, Begins
<1>2. /\ SaversOK'
      /\ Busy(p)' /\ saver'[p].pc = "write" /\ saver'[p].val = v /\ saver'[p].ino = i
      /\ saver'[p].off = 0 /\ saver'[p].err = FALSE
      /\ \A q \in Savers \ {p} : saver'[q] = saver[q]
  BY <1>0, <1>1, Begun
<1>3. dir'.tmp = i /\ dir'.path = dir.path /\ durDir' = durDir
  BY <1>0, <1>1 DEF TypeOK, Names
<1>4. PICK text : text = [data EXCEPT ![i] = <<>>] /\ Files(text, disk)
  BY <1>1
<1>5. /\ \A j \in Inodes : j \in {dir.path, durDir.path} =>
             data'[j] = data[j] /\ disk'[j] = disk[j]
      /\ data'[i] = <<>>
  <2>1. text[i] = <<>> /\ \A j \in Inodes \ {i} : text[j] = data[j]
    BY <1>0, <1>4 DEF TypeOK
  <2>2. Files(text, disk)
    BY <1>4
  <2> QED BY <1>1, <1>3, <2>1, <2>2, FilesKept
<1>6. Unmoved
  BY <1>5 DEF Unmoved
<1>7. ~Settled(dir', durDir', saver', data', disk')
  BY <1>2 DEF Settled, Busy
<1>8. clash' = (clash \/ Overlap(p))
  BY <1>7 DEF Begin, ClashAfter
<1>9. ASSUME ~clash' PROVE Alone' /\ Progress' /\ OnDisk'
  <2>1. ~clash /\ \A q \in Savers : Busy(q)' => q = p
    BY <1>2, <1>8, <1>9 DEF Overlap, Busy
  <2>2. Alone'
    BY <1>2, <1>3, <2>1 DEF Alone
  <2>3. WrittenSoFar(p)'
    <3>1. data'[saver'[p].ino] = [n \in 1..saver'[p].off |-> Text[saver'[p].val][n]]
      BY <1>2, <1>5
    <3>2. saver'[p].off <= Len(Text[saver'[p].val])
      BY <1>2, Texts
    <3> QED BY <1>2, <3>1, <3>2 DEF WrittenSoFar
  <2>4. Progress'
    BY <2>1, <2>3 DEF Progress
  <2>5. OnDisk'
    BY <1>0, <1>3, <1>5, <2>1 DEF OnDisk, IInv, InTurn, TypeOK, Names
  <2> QED BY <2>2, <2>4, <2>5
<1> QED BY <1>2, <1>6, <1>8, <1>9

\* A failed fdopen, like a save that begins, disturbs those it overlaps.
LEMMA TurnStreamFails ==
  ASSUME IInv, NEW p \in Savers, StreamFails(p)
  PROVE  /\ Unmoved /\ dir'.path = dir.path /\ durDir' = durDir /\ saver' = saver
         /\ ~clash => clash' \in {FALSE, Overlap(p)}
         /\ ~clash /\ ~clash' => Alone' /\ Progress' /\ OnDisk'
<1>0. TypeOK /\ SaversOK /\ NamesApart
  BY DEF IInv
<1>1. PICK i \in Inodes :
           /\ dir' = [dir EXCEPT !.tmp = i] /\ UNCHANGED <<durDir, saver, reader>>
           /\ i \notin {dir.path, durDir.path, reader}
           /\ Files([data EXCEPT ![i] = <<>>], disk)
  BY <1>0, StreamsFail
<1>2. dir'.path = dir.path
  BY <1>0, <1>1 DEF TypeOK, Names
<1>3. PICK text : text = [data EXCEPT ![i] = <<>>] /\ Files(text, disk)
  BY <1>1
<1>4. \A j \in Inodes : j \in {dir.path, durDir.path} =>
         data'[j] = data[j] /\ disk'[j] = disk[j]
  <2>1. \A j \in Inodes \ {i} : text[j] = data[j]
    BY <1>0, <1>3 DEF TypeOK
  <2>2. Files(text, disk)
    BY <1>3
  <2> QED BY <1>1, <1>2, <2>1, <2>2, FilesKept
<1>5. Unmoved
  BY <1>4 DEF Unmoved
<1>6. ~clash => clash' \in {FALSE, Overlap(p)}
  <2>1. clash' = ((clash \/ Overlap(p)) /\ ~Settled(dir', durDir', saver', data', disk'))
    BY DEF StreamFails, ClashAfter
  <2>2. Overlap(p) \in BOOLEAN
    BY DEF Overlap
  <2>3. Settled(dir', durDir', saver', data', disk') \in BOOLEAN
    BY DEF Settled
  <2> QED BY <2>1, <2>2, <2>3
<1>7. ASSUME ~clash, ~clash' PROVE Alone' /\ Progress' /\ OnDisk'
  <2>1. \A q \in Savers : ~Busy(q)' /\ ~Busy(q)
    <3>1. clash' = ((clash \/ Overlap(p)) /\ ~Settled(dir', durDir', saver', data', disk'))
      BY DEF StreamFails, ClashAfter
    <3>2. ~Overlap(p)
      BY <1>1, <1>7, <3>1 DEF Overlap, Settled, Busy
    <3>3. ~Busy(p)
      BY DEF StreamFails
    <3> QED BY <1>1, <3>2, <3>3 DEF Overlap, Busy
  <2>2. OnDisk'
    BY <1>0, <1>1, <1>2, <1>4, <1>7 DEF OnDisk, IInv, InTurn, TypeOK, Names
  <2> QED BY <2>1, <2>2 DEF Alone, Progress
<1> QED BY <1>1, <1>2, <1>5, <1>6, <1>7

LEMMA TurnInside ==
  ASSUME IInv, ~clash, NEW p \in Savers,
         BeginFails(p) \/ WriteFails(p) \/ SyncFails(p) \/ RenameFails(p)
  PROVE  Alone' /\ Progress' /\ OnDisk'
<1>0. SaversOK /\ Alone /\ Progress /\ OnDisk
  BY DEF IInv, InTurn
<1>1. UNCHANGED <<dir, durDir, data, disk>>
  BY DEF BeginFails, WriteFails, SyncFails, RenameFails
<1>2. /\ \A q \in Savers : Busy(q)' <=> Busy(q)
      /\ \A q \in Savers : saver'[q].val = saver[q].val /\ saver'[q].ino = saver[q].ino
      /\ \A q \in Savers \ {p} : saver'[q] = saver[q]
      /\ \/ saver' = saver
         \/ saver'[p].pc = "cleanup"
         \/ saver'[p].err = TRUE /\ saver'[p].pc \in {"write", "sync"}
  <2>1. CASE BeginFails(p)
    BY <2>1 DEF BeginFails, Busy
  <2>2. CASE WriteFails(p)
    BY <1>0, <2>2, Advances DEF WriteFails
  <2>3. CASE SyncFails(p)
    BY <1>0, <2>3, Goes DEF SyncFails, Busy
  <2>4. CASE RenameFails(p)
    BY <1>0, <2>4, Goes DEF RenameFails, Busy
  <2> QED BY <2>1, <2>2, <2>3, <2>4
<1>3. Alone'
  BY <1>0, <1>1, <1>2 DEF Alone
<1>4. ASSUME NEW q \in Savers, Busy(q)' PROVE WrittenSoFar(q)'
  <2>1. WrittenSoFar(q)
    BY <1>0, <1>2, <1>4 DEF Progress
  <2>2. CASE q = p /\ saver' # saver
    BY <1>2, <2>2 DEF WrittenSoFar
  <2>3. CASE q # p \/ saver' = saver
    <3>1. saver'[q] = saver[q]
      BY <1>2, <2>3
    <3> QED BY <1>1, <2>1, <3>1 DEF WrittenSoFar
  <2> QED BY <2>2, <2>3
<1>5. OnDisk'
  BY <1>0, <1>1 DEF OnDisk
<1> QED BY <1>3, <1>4, <1>5 DEF Progress

LEMMA TurnWrite ==
  ASSUME IInv, ~clash, NEW p \in Savers, WriteBlock(p)
  PROVE  Unmoved /\ Alone' /\ Progress' /\ OnDisk'
<1> DEFINE i == saver[p].ino
           v == saver[p].val
           off == saver[p].off
           end == IF off + BlockLen < Len(Text[v]) THEN off + BlockLen ELSE Len(Text[v])
<1>0. TypeOK /\ SaversOK /\ Alone /\ Progress /\ OnDisk /\ NamesApart
  BY DEF IInv, InTurn
<1>1. Busy(p) /\ saver[p].pc = "write" /\ UNCHANGED <<dir, durDir, reader>>
  BY DEF WriteBlock, Busy
<1>2. i \in Inodes /\ i = dir.tmp /\ v \in Values /\ off \in Nat /\ saver[p].err \in BOOLEAN
  BY <1>0, <1>1 DEF SaversOK, Alone, SaverTypes
<1>3. i \notin {dir.path, durDir.path, reader}
  BY <1>0, <1>2, Tags DEF NamesApart
<1>4. /\ \A q \in Savers : Busy(q)' <=> Busy(q)
      /\ \A q \in Savers : saver'[q].val = saver[q].val /\ saver'[q].ino = saver[q].ino
      /\ \A q \in Savers \ {p} : saver'[q] = saver[q]
      /\ saver'[p].off = off + BlockLen
      /\ saver'[p].err = saver[p].err
      /\ saver'[p].pc = IF off + BlockLen >= Len(Text[v]) THEN "sync" ELSE "write"
  BY <1>0, <1>1, <1>2, Advances DEF WriteBlock
<1>5. \A j \in Inodes :
              \/ j \in {dir'.path, dir'.tmp, durDir'.path, durDir'.tmp, reader'}
              \/ \E q \in Savers : j = saver'[q].ino
              => /\ data'[j] = [data EXCEPT ![i] = Overlay(@, off, Block(v, off))][j]
                 /\ disk'[j] = disk[j]
  BY FilesKept DEF WriteBlock
<1>6. /\ \A j \in Inodes : j \in {dir.path, durDir.path} =>
             data'[j] = data[j] /\ disk'[j] = disk[j]
      /\ data'[i] = Overlay(data[i], off, Block(v, off))
  <2> HIDE DEF i, v, off
  <2> QED BY <1>0, <1>1, <1>2, <1>3, <1>5 DEF TypeOK
<1>7. Unmoved
  BY <1>6 DEF Unmoved
<1>8. Alone'
  BY <1>0, <1>1, <1>4 DEF Alone
<1>9. WrittenSoFar(p)'
  <2>1. CASE saver[p].err
    BY <1>4, <2>1 DEF WrittenSoFar
  <2>2. CASE ~saver[p].err
    <3>1. off <= Len(Text[v]) /\ data[i] = [n \in 1..off |-> Text[v][n]]
      BY <1>0, <1>1, <2>2 DEF Progress, WrittenSoFar
    <3>2. Len(Text[v]) \in Nat /\ BlockLen \in Nat
      BY <1>2, Texts, StoreAssumption
    <3>3. data'[i] = [n \in 1..end |-> Text[v][n]]
      <4>1. Overlay(data[i], off, Block(v, off)) = [n \in 1..end |-> Text[v][n]]
        <5> HIDE DEF i, v, off
        <5>1. ASSUME NEW t, t = data[i]
              PROVE  Overlay(t, off, Block(v, off)) = [n \in 1..end |-> Text[v][n]]
          <6>1. t = [n \in 1..off |-> Text[v][n]]
            BY <3>1, <5>1
          <6>2. v \in Values /\ off \in Nat /\ off <= Len(Text[v])
            BY <1>2, <3>1
          <6> HIDE DEF end
          <6>3. Overlay(t, off, Block(v, off)) =
                  [n \in 1..(IF off + BlockLen < Len(Text[v]) THEN off + BlockLen ELSE Len(Text[v]))
                     |-> Text[v][n]]
            BY ONLY <6>1, <6>2, BlockExtends, Zenon
          <6> QED BY ONLY <6>3 DEF end
        <5> QED BY <5>1
      <4> QED BY <1>6, <4>1
    <3>4. CASE off + BlockLen >= Len(Text[v])
      <4>1. end = Len(Text[v]) /\ saver'[p].pc = "sync"
        BY <1>2, <1>4, <3>2, <3>4
      <4>2. data'[i] = Text[v]
        BY <1>2, <3>3, <4>1, Texts
      <4> QED BY <1>4, <4>1, <4>2 DEF WrittenSoFar
    <3>5. CASE ~(off + BlockLen >= Len(Text[v]))
      <4>1. end = off + BlockLen /\ saver'[p].pc = "write" /\ off + BlockLen <= Len(Text[v])
        BY <1>2, <1>4, <3>2, <3>5
      <4>2. data'[i] = [n \in 1..(off + BlockLen) |-> Text[v][n]]
        BY <3>3, <4>1
      <4> QED BY <1>4, <4>1, <4>2 DEF WrittenSoFar
    <3> QED BY <3>4, <3>5
  <2> QED BY <2>1, <2>2
<1>10. Progress'
  BY <1>0, <1>1, <1>4, <1>9 DEF Progress, Alone
<1>11. OnDisk'
  BY <1>0, <1>1, <1>6 DEF OnDisk, TypeOK, Names
<1> QED BY <1>7, <1>8, <1>10, <1>11

LEMMA TurnSync ==
  ASSUME IInv, ~clash, NEW p \in Savers, Sync(p)
  PROVE  Unmoved /\ Alone' /\ Progress' /\ OnDisk'
<1> DEFINE i == saver[p].ino
<1>0. TypeOK /\ SaversOK /\ Alone /\ Progress /\ OnDisk /\ NamesApart
  BY DEF IInv, InTurn
<1>1. Busy(p) /\ saver[p].pc = "sync" /\ ~saver[p].err /\ UNCHANGED <<dir, durDir, reader>>
  BY DEF Sync, Busy
<1>2. i \in Inodes /\ i = dir.tmp
  BY <1>0, <1>1 DEF SaversOK, Alone
<1>3. i \notin {dir.path, durDir.path, reader}
  BY <1>0, <1>2, Tags DEF NamesApart
<1>4. /\ \A q \in Savers : Busy(q)' <=> Busy(q)
      /\ \A q \in Savers : saver'[q].val = saver[q].val /\ saver'[q].ino = saver[q].ino
      /\ saver'[p].pc = "rename" /\ \A q \in Savers \ {p} : saver'[q] = saver[q]
  BY <1>0, <1>1, Goes DEF Sync
<1>5. \A j \in Inodes :
              \/ j \in {dir'.path, dir'.tmp, durDir'.path, durDir'.tmp, reader'}
              \/ \E q \in Savers : j = saver'[q].ino
              => data'[j] = data[j] /\ disk'[j] = [disk EXCEPT ![i] = data[i]][j]
  <2>1. PICK kept : kept = [disk EXCEPT ![i] = data[i]]
    OBVIOUS
  <2>2. Files(data, kept)
    BY <2>1 DEF Sync
  <2>3. \A j \in Inodes :
              \/ j \in {dir'.path, dir'.tmp, durDir'.path, durDir'.tmp, reader'}
              \/ \E q \in Savers : j = saver'[q].ino
              => data'[j] = data[j] /\ disk'[j] = kept[j]
    BY ONLY <2>2, FilesKept
  <2> QED BY ONLY <2>1, <2>3
<1>6. /\ \A j \in Inodes : j \in {dir.path, durDir.path} =>
             data'[j] = data[j] /\ disk'[j] = disk[j]
      /\ data'[i] = data[i] /\ disk'[i] = data[i]
  <2> HIDE DEF i
  <2> QED BY <1>0, <1>1, <1>2, <1>3, <1>5 DEF TypeOK
<1>7. Unmoved
  BY <1>6 DEF Unmoved
<1>8. Alone'
  BY <1>0, <1>1, <1>4 DEF Alone
<1>9. WrittenSoFar(p)'
  BY <1>0, <1>1, <1>4, <1>6 DEF Progress, WrittenSoFar
<1>10. Progress'
  BY <1>0, <1>1, <1>4, <1>9 DEF Progress, Alone
<1>11. OnDisk'
  BY <1>0, <1>1, <1>6 DEF OnDisk, TypeOK, Names
<1> QED BY <1>7, <1>8, <1>10, <1>11

LEMMA TurnFlushData ==
  ASSUME IInv, ~clash, NEW i \in Inodes, FlushData(i)
  PROVE  Unmoved /\ Alone' /\ Progress' /\ OnDisk'
<1>0. TypeOK /\ SaversOK /\ Alone /\ Progress /\ OnDisk
  BY DEF IInv, InTurn
<1>1. disk[i] # data[i] /\ UNCHANGED <<dir, durDir, saver, reader>>
  BY DEF FlushData
<1>2. \A j \in Inodes :
              \/ j \in {dir.path, dir.tmp, durDir.path, durDir.tmp, reader}
              \/ \E q \in Savers : j = saver[q].ino
              => /\ data'[j] = data[j]
                 /\ disk'[j] \in {disk[j], data[j]} /\ (j # i => disk'[j] = disk[j])
  <2>1. PICK kept : kept = [disk EXCEPT ![i] = data[i]] /\ Files(data, kept)
    BY DEF FlushData
  <2>2. \A j \in Inodes : kept[j] \in {disk[j], data[j]} /\ (j # i => kept[j] = disk[j])
    BY <1>0, <2>1 DEF TypeOK
  <2>3. Files(data, kept)
    BY <2>1
  <2> QED BY <1>1, <2>2, <2>3, FilesKept
<1>3. i \notin {dir.path, durDir.path}
  BY <1>0, <1>1, Tags DEF OnDisk
<1>4. \A j \in Inodes : j \in {dir.path, durDir.path} => data'[j] = data[j] /\ disk'[j] = disk[j]
  BY <1>0, <1>1, <1>2, <1>3 DEF TypeOK
<1>5. Unmoved
  BY <1>4 DEF Unmoved
<1>6. Alone'
  BY <1>0, <1>1 DEF Alone, Busy
<1>7. ASSUME NEW q \in Savers, Busy(q)' PROVE WrittenSoFar(q)'
  <2>1. Busy(q) /\ WrittenSoFar(q) /\ saver'[q] = saver[q] /\ saver[q].ino \in Inodes
    BY <1>0, <1>1, <1>7 DEF Busy, Progress, SaversOK
  <2>2. data'[saver[q].ino] = data[saver[q].ino]
    BY <1>1, <1>2, <2>1
  <2>3. disk'[saver[q].ino] \in {disk[saver[q].ino], data[saver[q].ino]}
    BY <1>0, <1>1, <1>2, <2>1 DEF TypeOK
  <2> QED BY <2>1, <2>2, <2>3 DEF WrittenSoFar
<1>8. OnDisk'
  BY <1>0, <1>1, <1>4 DEF OnDisk, TypeOK, Names
<1> QED BY <1>5, <1>6, <1>7, <1>8 DEF Progress

\* After the one save ends nobody is busy.
LEMMA TurnEnd ==
  ASSUME IInv, ~clash, NEW p \in Savers, Busy(p), Rename(p) \/ Cleanup(p) \/ Kill(p)
  PROVE  /\ Alone' /\ Progress' /\ OnDisk'
         /\ \A j \in Inodes : j \in {dir'.path, durDir.path} => data'[j] = data[j] /\ disk'[j] = disk[j]
         /\ Rename(p) => /\ dir'.path = dir.tmp /\ dir.tmp \in Inodes
                         /\ data'[dir.tmp] = Text[saver[p].val]
         /\ ~Rename(p) => dir'.path = dir.path
<1>0. TypeOK /\ SaversOK /\ Alone /\ Progress /\ OnDisk
  BY DEF IInv, InTurn
<1>1. UNCHANGED <<durDir, reader>> /\ Files(data, disk)
  BY DEF Rename, Cleanup, Kill
<1>2. \A j \in Inodes : j \in {dir'.path, durDir.path} => data'[j] = data[j] /\ disk'[j] = disk[j]
  BY <1>1, FilesKept
<1>3. \A q \in Savers : ~Busy(q)'
  <2>1. saver'[p] = Idle /\ ~Busy(p)' /\ \A q \in Savers \ {p} : saver'[q] = saver[q]
    BY <1>0, Returns DEF Rename, Cleanup, Kill
  <2> QED BY <1>0, <2>1 DEF Alone, Busy
<1>4. Alone' /\ Progress'
  BY <1>3 DEF Alone, Progress
<1>5. Rename(p) => /\ dir'.path = dir.tmp /\ dir.tmp \in Inodes
                   /\ data[dir.tmp] = Text[saver[p].val] /\ disk[dir.tmp] = Text[saver[p].val]
  <2>1. SUFFICES ASSUME Rename(p)
                 PROVE  /\ dir'.path = dir.tmp /\ dir.tmp \in Inodes
                        /\ data[dir.tmp] = Text[saver[p].val] /\ disk[dir.tmp] = Text[saver[p].val]
    OBVIOUS
  <2>2. saver[p].pc = "rename" /\ saver[p].ino \in Inodes /\ saver[p].ino = dir.tmp
    BY <1>0, <2>1 DEF Rename, SaversOK, Alone
  <2>3. WrittenSoFar(p)
    BY <1>0 DEF Progress
  <2> QED BY <1>0, <2>1, <2>2, <2>3, Renames DEF WrittenSoFar
<1>6. ~Rename(p) => dir'.path = dir.path
  BY <1>0 DEF Cleanup, Kill, TypeOK, Names
<1>7. OnDisk'
  <2>1. SUFFICES ASSUME NEW j \in {dir'.path, durDir'.path} \ {NoInode}
                 PROVE  data'[j] = disk'[j]
    BY DEF OnDisk
  <2>2. data[j] = disk[j] /\ j \in Inodes
    BY <1>0, <1>1, <1>5, <1>6, <2>1 DEF OnDisk, TypeOK, Names
  <2> QED BY <1>1, <1>2, <2>1, <2>2
<1> QED BY <1>2, <1>4, <1>5, <1>6, <1>7

\* The savers go on as before when others delete, read or let the disk catch up.
LEMMA TurnOthers ==
  ASSUME IInv, ~clash, Invalidate \/ ReadOpen \/ ReadClose \/ FlushDir
  PROVE  /\ Alone' /\ Progress' /\ OnDisk'
         /\ \A j \in Inodes : j \in {dir'.path, durDir'.path} => data'[j] = data[j] /\ disk'[j] = disk[j]
<1>0. TypeOK /\ SaversOK /\ Alone /\ Progress /\ OnDisk
  BY DEF IInv, InTurn
<1>1. /\ saver' = saver
      /\ dir'.tmp = dir.tmp /\ dir'.path \in {dir.path, NoInode}
      /\ durDir'.path \in {durDir.path, dir.path}
  BY <1>0 DEF Invalidate, ReadOpen, ReadClose, FlushDir, TypeOK, Names
<1>2. \/ Files(data, disk)
      \/ data' = data /\ disk' = disk
  BY DEF Invalidate, ReadOpen, ReadClose, FlushDir
<1>3. \A j \in Inodes :
              \/ j \in {dir'.path, dir'.tmp, durDir'.path, durDir'.tmp, reader'}
              \/ \E q \in Savers : j = saver'[q].ino
              => data'[j] = data[j] /\ disk'[j] = disk[j]
  BY <1>2, FilesKept
<1>4. Alone'
  BY <1>0, <1>1 DEF Alone, Busy
<1>5. ASSUME NEW q \in Savers, Busy(q)' PROVE WrittenSoFar(q)'
  <2>1. Busy(q) /\ WrittenSoFar(q) /\ saver'[q] = saver[q] /\ saver[q].ino \in Inodes
    BY <1>0, <1>1, <1>5 DEF Busy, Progress, SaversOK
  <2>2. data'[saver[q].ino] = data[saver[q].ino] /\ disk'[saver[q].ino] = disk[saver[q].ino]
    BY <1>1, <1>3, <2>1
  <2> QED BY <2>1, <2>2 DEF WrittenSoFar
<1>6. OnDisk'
  <2>1. SUFFICES ASSUME NEW j \in {dir'.path, durDir'.path} \ {NoInode}
                 PROVE  data'[j] = disk'[j]
    BY DEF OnDisk
  <2>2. data[j] = disk[j] /\ j \in Inodes
    BY <1>0, <1>1, <2>1 DEF OnDisk, TypeOK, Names
  <2> QED BY <1>3, <2>1, <2>2
<1> QED BY <1>3, <1>4, <1>5, <1>6 DEF Progress

LEMMA TurnPowerCut ==
  ASSUME Static, PowerCut
  PROVE  /\ Alone' /\ Progress' /\ OnDisk' /\ ~clash'
         /\ dir' = durDir /\ durDir' = durDir
         /\ \A j \in Inodes : j = durDir.path => data'[j] = disk[j] /\ disk'[j] = disk[j]
<1>1. /\ dir' = durDir /\ durDir' = durDir /\ saver' = [p \in Savers |-> Idle]
      /\ Files(disk, disk)
  BY DEF PowerCut
<1>2. \A p \in Savers : saver'[p].pc = "idle" /\ ~Busy(p)'
  BY <1>1 DEF Idle, Busy
<1>3. \A j \in Inodes : j = durDir.path => data'[j] = disk[j] /\ disk'[j] = disk[j]
  BY <1>1, FilesKept
<1>4. \A j \in {dir'.path, durDir'.path} \ {NoInode} : data'[j] = disk'[j]
  BY <1>1, <1>3 DEF Static, TypeOK, Names
<1>5. Settled(dir', durDir', saver', data', disk')
  BY <1>2, <1>4 DEF Settled
<1>6. ~clash'
  BY <1>5 DEF PowerCut, ClashAfter
<1> QED BY <1>1, <1>2, <1>3, <1>4, <1>6 DEF Alone, Progress, OnDisk

LEMMA InTurnStep == ASSUME IInv, [Next]_vars PROVE InTurn'
<1> SUFFICES ASSUME ~clash' PROVE Alone' /\ Progress' /\ OnDisk'
  BY DEF InTurn
<1>1. CASE clash
  <2>1. clash = TRUE
    BY <1>1 DEF IInv, TypeOK
  <2>2. Settled(dir', durDir', saver', data', disk')
    BY <2>1, ClashSettles
  <2> QED BY <2>2 DEF Settled, Alone, Progress, OnDisk, Busy
<1>2. CASE ~clash
  <2>1. CASE UNCHANGED vars
    BY <1>2, <2>1 DEF vars, IInv, InTurn, Alone, Progress, OnDisk, Busy, WrittenSoFar
  <2>2. ASSUME NEW p \in Savers, NEW v \in Values, Begin(p, v) PROVE Alone' /\ Progress' /\ OnDisk'
    BY <2>2, TurnBegin
  <2>2a. ASSUME NEW p \in Savers, StreamFails(p) PROVE Alone' /\ Progress' /\ OnDisk'
    BY <1>2, <2>2a, TurnStreamFails
  <2>3. ASSUME NEW p \in Savers,
               BeginFails(p) \/ WriteFails(p) \/ SyncFails(p) \/ RenameFails(p)
        PROVE  Alone' /\ Progress' /\ OnDisk'
    BY <1>2, <2>3, TurnInside
  <2>4. ASSUME NEW p \in Savers, WriteBlock(p) PROVE Alone' /\ Progress' /\ OnDisk'
    BY <1>2, <2>4, TurnWrite
  <2>5. ASSUME NEW p \in Savers, Sync(p) PROVE Alone' /\ Progress' /\ OnDisk'
    BY <1>2, <2>5, TurnSync
  <2>6. ASSUME NEW p \in Savers, Rename(p) \/ Cleanup(p) \/ Kill(p)
        PROVE  Alone' /\ Progress' /\ OnDisk'
    <3>1. Busy(p)
      BY <2>6 DEF Rename, Cleanup, Kill, Busy
    <3> QED BY <1>2, <2>6, <3>1, TurnEnd
  <2>7. ASSUME NEW i \in Inodes, FlushData(i) PROVE Alone' /\ Progress' /\ OnDisk'
    BY <1>2, <2>7, TurnFlushData
  <2>8. CASE Invalidate \/ ReadOpen \/ ReadClose \/ FlushDir
    BY <1>2, <2>8, TurnOthers
  <2>9. CASE PowerCut
    BY <2>9, TurnPowerCut DEF IInv, Static
  <2> QED BY <2>1, <2>2, <2>2a, <2>3, <2>4, <2>5, <2>6, <2>7, <2>8, <2>9 DEF Next, SaverStep
<1> QED BY <1>1, <1>2

LEMMA InitInv == Init => IInv
<1> SUFFICES ASSUME Init PROVE IInv
  OBVIOUS
<1>1. Idle \in SaverTypes
  BY DEF Idle, SaverTypes
<1>2. \A p \in Savers : saver[p] = Idle /\ ~Busy(p)
  BY DEF Init, Busy, Idle
<1>3. dir.path = NoInode /\ dir.tmp = NoInode /\ durDir.path = NoInode
  BY DEF Init, Names
<1>4. TypeOK
  <2>1. saves \in 0..MaxSaves /\ faults \in 0..MaxFaults
    BY StoreAssumption DEF Init
  <2>2. dir \in [Names -> Inodes \cup {NoInode}] /\ durDir = dir /\ dir.path = NoInode
    BY <1>3 DEF Init
  <2>3. DOMAIN data = Inodes /\ DOMAIN disk = Inodes /\ last \in [Savers -> {"none", "ok", "failed"}]
    BY DEF Init
  <2> QED BY <1>1, <1>2, <2>1, <2>2, <2>3 DEF Init, TypeOK
<1>5. SaversOK
  BY <1>1, <1>2 DEF Init, SaversOK
<1> QED BY <1>2, <1>3, <1>4, <1>5 DEF IInv, NamesApart, NoOrphan, InTurn, Alone, Progress, OnDisk

\* The saving protocol keeps its invariant.
THEOREM Inductive == Spec => []IInv
<1>1. ASSUME IInv, [Next]_vars PROVE IInv'
  BY <1>1, StaticStep, InTurnStep DEF IInv, Static
<1> QED BY <1>1, InitInv, PTL DEF Spec

\* Types, and that no file bears both names.
THEOREM TypeCorrect == Spec => []TypeOK
BY Inductive, PTL DEF IInv

(***************************************************************************)
(* When nobody is saving, a .tmp is there only because a process was       *)
(* killed, the power failed, fdopen failed on it or its own deletion (whose *)
(* result config_save and cache_save ignore) failed, and no later save has *)
(* renamed or deleted it since, even when savers overlap.                  *)
(***************************************************************************)
THEOREM FailedSavesCleanUp == Spec => []NoLitter
<1>1. IInv => NoLitter
  BY DEF IInv, NoOrphan, NoLitter
<1> QED BY <1>1, Inductive, PTL

(***************************************************************************)
(* What read_file has open does not change under it while savers take      *)
(* turns: they write, truncate and sync only files nobody reads.           *)
(***************************************************************************)
THEOREM ReadersUndisturbed == Spec => ReadUndisturbed
<1>1. ASSUME IInv, [Next]_vars, reader # NoInode, reader' = reader, ~clash
      PROVE  data'[reader] = data[reader]
  <2>0. TypeOK /\ SaversOK /\ NamesApart /\ Alone /\ reader \in Inodes
    BY <1>1 DEF IInv, InTurn, TypeOK
  <2>1. CASE UNCHANGED data
    BY <2>1
  <2>2. ASSUME NEW p \in Savers, NEW v \in Values, Begin(p, v)
        PROVE  data'[reader] = data[reader]
    <3>1. PICK i \in Inodes : i # reader /\ Files([data EXCEPT ![i] = <<>>], disk)
      BY <2>0, <2>2, Begins
    <3>2. data'[reader] = [data EXCEPT ![i] = <<>>][reader]
      BY <1>1, <2>0, <3>1, FilesKept
    <3> QED BY <2>0, <3>1, <3>2 DEF TypeOK
  <2>2a. ASSUME NEW p \in Savers, StreamFails(p)
         PROVE  data'[reader] = data[reader]
    <3>1. PICK i \in Inodes : i # reader /\ Files([data EXCEPT ![i] = <<>>], disk)
      BY <2>0, <2>2a, StreamsFail
    <3>2. data'[reader] = [data EXCEPT ![i] = <<>>][reader]
      BY <1>1, <2>0, <3>1, FilesKept
    <3> QED BY <2>0, <3>1, <3>2 DEF TypeOK
  <2>3. ASSUME NEW p \in Savers, WriteBlock(p)
        PROVE  data'[reader] = data[reader]
    <3>1. saver[p].ino \in Inodes /\ saver[p].ino = dir.tmp
      BY <2>0, <2>3 DEF WriteBlock, Alone, SaversOK, Busy
    <3>2. saver[p].ino # reader
      BY <2>0, <3>1, Tags DEF NamesApart
    <3>3. data'[reader] = [data EXCEPT ![saver[p].ino] =
                             Overlay(@, saver[p].off, Block(saver[p].val, saver[p].off))][reader]
      BY <1>1, <2>0, <2>3, FilesKept DEF WriteBlock
    <3> QED BY <2>0, <3>2, <3>3 DEF TypeOK
  <2>4. CASE \E kept : Files(data, kept)
    BY <1>1, <2>0, <2>4, FilesKept
  <2>5. ~PowerCut
    BY <1>1 DEF PowerCut
  <2> QED BY <1>1, <2>1, <2>2, <2>2a, <2>3, <2>4, <2>5 DEF Next, SaverStep, BeginFails, WriteFails, Sync,
     SyncFails, Rename, RenameFails, Cleanup, Kill, Invalidate, ReadOpen, ReadClose, FlushData,
     FlushDir, vars
<1>2. IInv /\ [Next]_vars =>
        [reader # NoInode /\ reader' = reader /\ ~clash => data'[reader] = data[reader]]_vars
  BY <1>1
<1> QED BY <1>2, Inductive, PTL DEF Spec, ReadUndisturbed

-----------------------------------------------------------------------------
\* AtomicFile's variables, as the protocol implements them.
File == Meaning(dir.path, data)
Safe == Meaning(durDir.path, disk)
Saving == [p \in Savers |-> saver[p].val]

LEMMA MeaningIn == ASSUME NEW i, NEW content PROVE Meaning(i, content) \in Values \cup {Absent, Torn}
BY DEF Meaning

LEMMA SameMeaning ==
  ASSUME NEW i, NEW content, NEW other, i # NoInode => content[i] = other[i]
  PROVE  Meaning(i, content) = Meaning(i, other)
BY DEF Meaning

\* A file that holds the text of a value means that value.
LEMMA MeaningOfText ==
  ASSUME NEW i \in Inodes, NEW content, NEW v \in Values, content[i] = Text[v]
  PROVE  Meaning(i, content) = v
<1>1. i # NoInode
  BY Tags
<1>2. Meaning(i, content) \in Values /\ Text[Meaning(i, content)] = Text[v]
  BY <1>1 DEF Meaning
<1> QED BY <1>2, Texts

LEMMA Primes == /\ File' = Meaning(dir'.path, data') /\ Safe' = Meaning(durDir'.path, disk')
                /\ Saving' = [p \in Savers |-> saver'[p].val]
BY DEF File, Safe, Saving, Meaning

\* What does not move keeps its meaning.
LEMMA UnmovedMeaning ==
  ASSUME TypeOK, Unmoved, dir'.path = dir.path, durDir'.path = durDir.path
  PROVE  File' = File /\ Safe' = Safe
<1>1. /\ dir.path # NoInode => data'[dir.path] = data[dir.path]
      /\ durDir.path # NoInode => disk'[durDir.path] = disk[durDir.path]
  BY DEF Unmoved, TypeOK, Names
<1>2. Meaning(dir.path, data') = Meaning(dir.path, data)
  BY <1>1, SameMeaning
<1>3. Meaning(durDir.path, disk') = Meaning(durDir.path, disk)
  BY <1>1, SameMeaning
<1> QED BY <1>2, <1>3, Primes DEF File, Safe

LEMMA Stutters ==
  ASSUME File' = File, Safe' = Safe, Saving' = Saving, last' = last, clash' = clash
  PROVE  UNCHANGED Promise!vars
BY DEF Promise!vars, File, Safe, Saving

\* While savers overlap AtomicFile allows anything that goes on saving the
\* same values or ends saves.
LEMMA Muddles ==
  ASSUME clash = TRUE, SaversOK', TypeOK', NEW ended \in SUBSET Savers,
         Saving' = [p \in Savers |-> IF p \in ended THEN Absent ELSE Saving[p]],
         \A p \in Savers \ ended : last'[p] = last[p],
         ~clash' => \A p \in Savers : ~Busy(p)'
  PROVE  Promise!Muddle
<1>1. File' \in Values \cup {Absent, Torn} /\ Safe' \in Values \cup {Absent, Torn}
  BY MeaningIn, Primes
<1>2. clash' \in BOOLEAN /\ last' \in [Savers -> {"none", "ok", "failed"}]
  BY DEF TypeOK
<1>3. ~clash' => Saving' = [p \in Savers |-> Absent]
  <2>1. ASSUME NEW p \in Savers, ~Busy(p)' PROVE saver'[p].val = Absent
    BY <2>1 DEF SaversOK, Idle
  <2> QED BY <2>1, Primes
<1> QED BY <1>1, <1>2, <1>3 DEF Promise!Muddle, Promise!Contents, File, Safe, Saving

LEMMA SavingWhenBusy ==
  ASSUME SaversOK
  PROVE  \A p \in Savers : /\ Saving[p] = saver[p].val
                           /\ Saving[p] = Absent <=> ~Busy(p)
BY Tags DEF Saving, SaversOK, Idle

LEMMA RefinesBegin ==
  ASSUME IInv, NEW p \in Savers, NEW v \in Values, Begin(p, v)
  PROVE  Promise!Begin(p, v)
<1>1. TypeOK /\ SaversOK
  BY DEF IInv
<1>2. dir'.path = dir.path /\ durDir' = durDir /\ last' = last /\ ~Busy(p)
  BY <1>1 DEF Begin, TypeOK, Names
<1>3. File' = File /\ Safe' = Safe
  BY <1>1, <1>2, TurnBegin, UnmovedMeaning
<1>4. Saving' = [Saving EXCEPT ![p] = v]
  BY TurnBegin, Primes DEF Saving
<1>5. Overlap(p) <=> {q \in Savers \ {p} : Saving[q] # Absent} # {}
  BY <1>1, SavingWhenBusy DEF Overlap
<1>6. Saving[p] = Absent
  BY <1>1, <1>2, SavingWhenBusy
<1>7. clash' = (clash \/ {q \in Savers \ {p} : Saving[q] # Absent} # {})
  BY <1>5, TurnBegin
<1> QED BY <1>2, <1>3, <1>4, <1>6, <1>7 DEF Promise!Begin, Promise!Others, File, Safe, Saving

LEMMA RefinesInside ==
  ASSUME IInv, NEW p \in Savers,
         BeginFails(p) \/ WriteFails(p) \/ SyncFails(p) \/ RenameFails(p)
  PROVE  Promise!Decline(p) \/ UNCHANGED Promise!vars
<1>1. TypeOK /\ SaversOK
  BY DEF IInv
<1>2. UNCHANGED <<dir, durDir, data, disk, clash>>
  BY DEF BeginFails, WriteFails, SyncFails, RenameFails
<1>3. File' = File /\ Safe' = Safe
  BY <1>2, Primes DEF File, Safe
<1>4. CASE BeginFails(p)
  <2>1. saver' = saver /\ ~Busy(p) /\ last' = [last EXCEPT ![p] = "failed"]
    BY <1>4 DEF BeginFails
  <2>2. Saving' = Saving /\ Saving[p] = Absent
    BY <1>1, <2>1, SavingWhenBusy, Primes DEF Saving
  <2>3. clash' \in {clash, clash \/ Promise!Others(p) # {}}
    BY <1>2
  <2> QED BY <1>3, <2>1, <2>2, <2>3 DEF Promise!Decline, File, Safe, Saving
<1>5. CASE ~BeginFails(p)
  <2>1. \A q \in Savers : saver'[q].val = saver[q].val
    BY <1>1, <1>5, Advances, Goes DEF WriteFails, SyncFails, RenameFails, Busy
  <2>2. Saving' = Saving
    BY <2>1, Primes DEF Saving
  <2>3. last' = last
    BY <1>5 DEF WriteFails, SyncFails, RenameFails
  <2> QED BY <1>2, <1>3, <2>2, <2>3, Stutters
<1> QED BY <1>4, <1>5

\* A failed fdopen declines the save; others it overlaps may notice.
LEMMA RefinesStreamFails ==
  ASSUME IInv, IInv', [Next]_vars, NEW p \in Savers, StreamFails(p)
  PROVE  Promise!Decline(p) \/ Promise!Muddle
<1>1. TypeOK /\ SaversOK /\ TypeOK' /\ SaversOK' /\ clash \in BOOLEAN
  BY DEF IInv, TypeOK
<1>2. /\ Unmoved /\ dir'.path = dir.path /\ durDir' = durDir /\ saver' = saver
      /\ ~clash => clash' \in {FALSE, Overlap(p)}
  BY TurnStreamFails
<1>3. ~Busy(p) /\ last' = [last EXCEPT ![p] = "failed"]
  BY DEF StreamFails
<1>4. Saving' = Saving /\ Saving[p] = Absent
  BY <1>1, <1>2, <1>3, SavingWhenBusy, Primes DEF Saving
<1>5. CASE clash
  <2>1. Saving' = [q \in Savers |-> IF q \in {p} THEN Absent ELSE Saving[q]]
    BY <1>4 DEF Saving
  <2>2. \A q \in Savers \ {p} : last'[q] = last[q]
    BY <1>1, <1>3 DEF TypeOK
  <2>3. clash = TRUE
    BY <1>1, <1>5
  <2>4. ~clash' => \A q \in Savers : ~Busy(q)'
    BY <2>3, ClashSettles DEF Settled, Busy
  <2> QED BY <1>1, <2>1, <2>2, <2>3, <2>4, Muddles
<1>6. CASE ~clash
  <2>1. File' = File /\ Safe' = Safe
    BY <1>1, <1>2, UnmovedMeaning
  <2>2. Overlap(p) <=> {q \in Savers \ {p} : Saving[q] # Absent} # {}
    BY <1>1, SavingWhenBusy DEF Overlap
  <2>3. clash' \in {clash, clash \/ {q \in Savers \ {p} : Saving[q] # Absent} # {}}
    <3>1. clash = FALSE /\ Overlap(p) \in BOOLEAN
      BY <1>1, <1>6 DEF Overlap
    <3> QED BY <1>2, <1>6, <2>2, <3>1
  <2> QED BY <1>3, <1>4, <2>1, <2>3 DEF Promise!Decline, Promise!Others, File, Safe, Saving
<1> QED BY <1>5, <1>6

\* Savers that take turns: writing and syncing does not show.
LEMMA RefinesContent ==
  ASSUME IInv, ~clash, \/ \E p \in Savers : WriteBlock(p) \/ Sync(p)
                       \/ \E i \in Inodes : FlushData(i)
  PROVE  UNCHANGED Promise!vars
<1>1. TypeOK /\ SaversOK
  BY DEF IInv
<1>2. Unmoved
  BY TurnWrite, TurnSync, TurnFlushData
<1>3. UNCHANGED <<dir, durDir, last>> /\ clash' = clash
  BY <1>1 DEF WriteBlock, Sync, FlushData, ClashAfter, TypeOK
<1>4. File' = File /\ Safe' = Safe
  BY <1>1, <1>2, <1>3, UnmovedMeaning
<1>5. \A q \in Savers : saver'[q].val = saver[q].val
  BY <1>1, Advances, Goes DEF WriteBlock, Sync, FlushData, Busy
<1>6. Saving' = Saving
  BY <1>5, Primes DEF Saving
<1> QED BY <1>3, <1>4, <1>6, Stutters

\* A save that ends installs its value or changes nothing.
LEMMA RefinesEnd ==
  ASSUME IInv, ~clash, NEW p \in Savers, Rename(p) \/ Cleanup(p) \/ Kill(p)
  PROVE  Promise!Install(p) \/ Promise!Fail(p) \/ Promise!Abandon(p)
<1>1. TypeOK /\ SaversOK /\ Busy(p)
  BY DEF IInv, Rename, Cleanup, Kill, Busy
<1>2. durDir' = durDir /\ clash' = clash
  BY <1>1 DEF Rename, Cleanup, Kill, ClashAfter, TypeOK
<1>3. /\ \A j \in Inodes : j \in {dir'.path, durDir.path} => data'[j] = data[j] /\ disk'[j] = disk[j]
      /\ Rename(p) => /\ dir'.path = dir.tmp /\ dir.tmp \in Inodes
                      /\ data'[dir.tmp] = Text[saver[p].val]
      /\ ~Rename(p) => dir'.path = dir.path
  BY <1>1, TurnEnd
<1>4. Safe' = Safe
  <2>1. durDir.path # NoInode => disk'[durDir.path] = disk[durDir.path]
    BY <1>1, <1>3 DEF TypeOK, Names
  <2> QED BY <1>2, <2>1, SameMeaning, Primes DEF Safe
<1>5. Saving[p] # Absent /\ Saving[p] = saver[p].val
  BY <1>1, SavingWhenBusy
<1>6. PICK r \in {"ok", "failed", "none"} :
        /\ Report(p, r)
        /\ Rename(p) => r = "ok"
        /\ ~Rename(p) => r \in {"failed", "none"}
  BY DEF Rename, Cleanup, Kill
<1>7. Saving' = [Saving EXCEPT ![p] = Absent] /\ last' = [last EXCEPT ![p] = r]
  <2>1. \A q \in Savers : saver'[q].val = IF q = p THEN Absent ELSE saver[q].val
    BY <1>1, <1>6, Returns DEF Idle
  <2> QED BY <1>6, <2>1, Primes DEF Saving, Report
<1>8. Promise!End(p, r)
  BY <1>2, <1>4, <1>5, <1>7 DEF Promise!End, Safe, Saving
<1>9. CASE Rename(p)
  <2>1. saver[p].val \in Values
    BY <1>1 DEF SaversOK
  <2>2. File' = Saving[p]
    BY <1>3, <1>5, <1>9, <2>1, MeaningOfText, Primes
  <2> QED BY <1>6, <1>8, <1>9, <2>2 DEF Promise!Install, File, Saving
<1>10. CASE ~Rename(p)
  <2>1. dir.path # NoInode => data'[dir.path] = data[dir.path]
    BY <1>1, <1>3, <1>10 DEF TypeOK, Names
  <2>2. File' = File
    BY <1>3, <1>10, <2>1, SameMeaning, Primes DEF File
  <2> QED BY <1>6, <1>8, <1>10, <2>2 DEF Promise!Fail, Promise!Abandon, File
<1> QED BY <1>9, <1>10

\* A deletion is one, the disk that catches up with a rename installs for good.
LEMMA RefinesOthers ==
  ASSUME IInv, ~clash, Invalidate \/ FlushDir
  PROVE  Promise!Remove \/ Promise!Flush
<1>1. TypeOK /\ SaversOK /\ OnDisk
  BY DEF IInv, InTurn
<1>2. saver' = saver /\ last' = last /\ clash' = clash
  BY <1>1 DEF Invalidate, FlushDir, ClashAfter, TypeOK
<1>3. Saving' = Saving
  BY <1>2, Primes DEF Saving
<1>4. \A j \in Inodes : j \in {dir'.path, durDir'.path} => data'[j] = data[j] /\ disk'[j] = disk[j]
  BY TurnOthers
<1>5. ASSUME dir'.path = dir.path PROVE File' = File
  <2>1. dir.path # NoInode => data'[dir.path] = data[dir.path]
    BY <1>1, <1>4, <1>5 DEF TypeOK, Names
  <2> QED BY <1>5, <2>1, SameMeaning, Primes DEF File
<1>6. ASSUME durDir' = durDir PROVE Safe' = Safe
  <2>1. durDir.path # NoInode => disk'[durDir.path] = disk[durDir.path]
    BY <1>1, <1>4, <1>6 DEF TypeOK, Names
  <2> QED BY <1>6, <2>1, SameMeaning, Primes DEF Safe
<1>7. CASE Invalidate
  <2>1. dir'.path = NoInode /\ durDir' = durDir
    BY <1>1, <1>7 DEF Invalidate, TypeOK, Names
  <2>2. File' = Absent
    BY <2>1, Primes DEF Meaning
  <2> QED BY <1>2, <1>3, <1>6, <2>1, <2>2 DEF Promise!Remove, File, Safe, Saving
<1>8. CASE FlushDir
  <2>1. dir' = dir /\ durDir' = dir
    BY <1>8 DEF FlushDir
  <2>2. dir.path # NoInode => disk'[dir.path] = data[dir.path]
    BY <1>1, <1>4, <2>1 DEF OnDisk, TypeOK, Names
  <2>3. Safe' = File
    BY <2>1, <2>2, SameMeaning, Primes DEF File
  <2> QED BY <1>2, <1>3, <1>5, <2>1, <2>3 DEF Promise!Flush, File, Safe, Saving
<1> QED BY <1>7, <1>8

LEMMA RefinesPowerCut ==
  ASSUME IInv, PowerCut
  PROVE  Promise!PowerCut
<1>1. Static /\ TypeOK
  BY DEF IInv, Static
<1>2. /\ ~clash' /\ dir' = durDir /\ durDir' = durDir
      /\ \A j \in Inodes : j = durDir.path => data'[j] = disk[j] /\ disk'[j] = disk[j]
  BY <1>1, TurnPowerCut
<1>3. clash' = FALSE
  <2>1. clash' \in BOOLEAN
    BY DEF PowerCut, ClashAfter
  <2> QED BY <1>2, <2>1
<1>4. durDir.path # NoInode => /\ data'[durDir.path] = disk[durDir.path]
                               /\ disk'[durDir.path] = disk[durDir.path]
  BY <1>1, <1>2 DEF TypeOK, Names
<1>5. File' = Safe /\ Safe' = Safe
  BY <1>2, <1>4, SameMeaning, Primes DEF Safe
<1>6. Saving' = [p \in Savers |-> Absent] /\ last' = [p \in Savers |-> "none"]
  BY Primes DEF PowerCut, Idle
<1> QED BY <1>3, <1>5, <1>6 DEF Promise!PowerCut, File, Safe, Saving

\* Savers that overlap.
LEMMA RefinesClash ==
  ASSUME IInv, IInv', clash = TRUE, [Next]_vars,
         \/ \E p \in Savers : WriteBlock(p) \/ Sync(p) \/ Rename(p) \/ Cleanup(p) \/ Kill(p)
         \/ \E i \in Inodes : FlushData(i)
         \/ Invalidate \/ FlushDir
  PROVE  Promise!Muddle
<1>1. SaversOK /\ SaversOK' /\ TypeOK /\ TypeOK'
  BY DEF IInv
<1>2. ~clash' => \A p \in Savers : ~Busy(p)'
  BY ClashSettles DEF Settled, Busy
<1>3. ASSUME NEW p \in Savers, Rename(p) \/ Cleanup(p) \/ Kill(p)
      PROVE  Promise!Muddle
  <2>1. \A q \in Savers : saver'[q].val = IF q \in {p} THEN Absent ELSE saver[q].val
    <3>1. saver'[p] = Idle /\ \A q \in Savers \ {p} : saver'[q] = saver[q]
      BY <1>1, <1>3, Returns DEF Rename, Cleanup, Kill
    <3> QED BY <3>1 DEF Idle
  <2>2. Saving' = [q \in Savers |-> IF q \in {p} THEN Absent ELSE Saving[q]]
    BY <2>1, Primes DEF Saving
  <2>3. \A q \in Savers \ {p} : last'[q] = last[q]
    BY <1>1, <1>3 DEF Rename, Cleanup, Kill, Report, TypeOK
  <2> QED BY <1>1, <1>2, <2>2, <2>3, Muddles
<1>4. ASSUME \/ \E p \in Savers : WriteBlock(p) \/ Sync(p)
             \/ \E i \in Inodes : FlushData(i)
             \/ Invalidate \/ FlushDir
      PROVE  Promise!Muddle
  <2>1. \A q \in Savers : saver'[q].val = saver[q].val
    BY <1>1, <1>4, Advances, Goes DEF WriteBlock, Sync, FlushData, Invalidate, FlushDir, Busy
  <2>2. Saving' = [q \in Savers |-> IF q \in {} THEN Absent ELSE Saving[q]]
    BY <2>1, Primes DEF Saving
  <2>3. \A q \in Savers \ {} : last'[q] = last[q]
    BY <1>4 DEF WriteBlock, Sync, FlushData, Invalidate, FlushDir
  <2>4. {} \in SUBSET Savers
    OBVIOUS
  <2> QED BY <1>1, <1>2, <2>2, <2>3, <2>4, Muddles
<1> QED BY <1>3, <1>4

LEMMA RefinesReaders ==
  ASSUME IInv, ReadOpen \/ ReadClose
  PROVE  UNCHANGED Promise!vars
<1>1. TypeOK
  BY DEF IInv
<1>2. UNCHANGED <<dir, durDir, saver, last, clash>>
  BY DEF ReadOpen, ReadClose
<1>3. Unmoved
  <2>1. CASE ReadOpen
    BY <2>1 DEF ReadOpen, Unmoved
  <2>2. CASE ReadClose
    <3>1. Files(data, disk)
      BY <2>2 DEF ReadClose
    <3> QED BY <1>2, <3>1, FilesKept DEF Unmoved
  <2> QED BY <2>1, <2>2
<1>4. File' = File /\ Safe' = Safe
  BY <1>1, <1>2, <1>3, UnmovedMeaning
<1>5. Saving' = Saving
  BY <1>2, Primes DEF Saving
<1> QED BY <1>2, <1>4, <1>5, Stutters

LEMMA RefinesStep ==
  ASSUME IInv, IInv', [Next]_vars
  PROVE  [Promise!Next]_(Promise!vars)
<1>0. clash \in BOOLEAN
  BY DEF IInv, TypeOK
<1>1. CASE UNCHANGED vars
  <2>1. File' = File /\ Safe' = Safe /\ Saving' = Saving
    BY <1>1, Primes DEF vars, File, Safe, Saving
  <2> QED BY <1>1, <2>1, Stutters DEF vars
<1>2. ASSUME NEW p \in Savers, NEW v \in Values, Begin(p, v) PROVE Promise!Next
  BY <1>2, RefinesBegin DEF Promise!Next
<1>2a. ASSUME NEW p \in Savers, StreamFails(p) PROVE Promise!Next
  BY <1>2a, RefinesStreamFails DEF Promise!Next
<1>3. ASSUME NEW p \in Savers,
             BeginFails(p) \/ WriteFails(p) \/ SyncFails(p) \/ RenameFails(p)
      PROVE  [Promise!Next]_(Promise!vars)
  BY <1>3, RefinesInside DEF Promise!Next
<1>4. ASSUME \/ \E p \in Savers : WriteBlock(p) \/ Sync(p)
             \/ \E i \in Inodes : FlushData(i)
      PROVE  [Promise!Next]_(Promise!vars)
  <2>1. CASE clash
    BY <1>0, <1>4, <2>1, RefinesClash DEF Promise!Next
  <2>2. CASE ~clash
    BY <1>4, <2>2, RefinesContent
  <2> QED BY <2>1, <2>2
<1>5. ASSUME NEW p \in Savers, Rename(p) \/ Cleanup(p) \/ Kill(p) PROVE Promise!Next
  <2>1. CASE clash
    BY <1>0, <1>5, <2>1, RefinesClash DEF Promise!Next
  <2>2. CASE ~clash
    BY <1>5, <2>2, RefinesEnd DEF Promise!Next
  <2> QED BY <2>1, <2>2
<1>6. ASSUME Invalidate \/ FlushDir PROVE [Promise!Next]_(Promise!vars)
  <2>1. CASE clash
    BY <1>0, <1>6, <2>1, RefinesClash DEF Promise!Next
  <2>2. CASE ~clash
    BY <1>6, <2>2, RefinesOthers DEF Promise!Next
  <2> QED BY <2>1, <2>2
<1>7. CASE ReadOpen \/ ReadClose
  BY <1>7, RefinesReaders
<1>8. CASE PowerCut
  BY <1>8, RefinesPowerCut DEF Promise!Next
<1> QED BY <1>1, <1>2, <1>2a, <1>3, <1>4, <1>5, <1>6, <1>7, <1>8 DEF Next, SaverStep

LEMMA RefinesInit == Init => Promise!Init
<1> SUFFICES ASSUME Init PROVE Promise!Init
  OBVIOUS
<1>1. dir.path = NoInode /\ durDir.path = NoInode
  BY DEF Init, Names
<1>2. File = Absent /\ Safe = Absent
  BY <1>1 DEF File, Safe, Meaning
<1>3. Saving = [p \in Savers |-> Absent]
  BY DEF Init, Saving, Idle
<1> QED BY <1>2, <1>3 DEF Promise!Init, File, Safe, Saving, Init

(***************************************************************************)
(* Saving by a temporary file, a sync and a rename implements AtomicFile:  *)
(* what config_save and cache_save leave, to a reader and to a power cut,  *)
(* is at every moment the whole of one saved value or no file, as long as  *)
(* savers take turns.                                                      *)
(***************************************************************************)
THEOREM SavesAreAtomic == Spec => Implements
<1>1. Spec => Promise!Spec
  BY RefinesInit, RefinesStep, Inductive, PTL DEF Spec, Promise!Spec
<1> QED BY <1>1 DEF Implements
=============================================================================
