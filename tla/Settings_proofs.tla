--------------------------- MODULE Settings_proofs ---------------------------
(***************************************************************************)
(* Proofs about Settings.  The loops over the lists of repositories are    *)
(* recursive functions; what they compute for a list of any length is      *)
(* proved by induction over the naturals in the form of sets, from the     *)
(* least element of a set of naturals.                                     *)
(***************************************************************************)
EXTENDS Settings, WellFoundedInduction, TLAPS

-----------------------------------------------------------------------------
(* Induction and recursion                                                 *)

\* A set of naturals with an element has a least one.
LEMMA LeastNatural ==
  ASSUME NEW T \in SUBSET Nat, T # {}
  PROVE  \E m \in T : \A k \in T : m <= k
<1>1. PICK m \in T : \A k \in T : ~(<<k, m>> \in OpToRel(<, Nat))
  BY NatLessThanWellFounded, WFMin
<1>2. ASSUME NEW k \in T PROVE m <= k
  <2>1. ~(<<k, m>> \in OpToRel(<, Nat))
    BY <1>1
  <2>2. OpToRel(<, Nat) = {ss \in Nat \X Nat : ss[1] < ss[2]}
    BY DEF OpToRel
  <2>3. ~(k < m)
    BY <2>1, <2>2
  <2>q. QED BY <2>3
<1>q. QED BY <1>2

\* A set with 0 and with the successor of each of its elements below n has all
\* naturals up to n.
LEMMA UpTo ==
  ASSUME NEW n \in Nat, NEW T, 0 \in T, \A m \in 0..(n - 1) : m \in T => m + 1 \in T
  PROVE  \A m \in 0..n : m \in T
<1>1. SUFFICES ASSUME (0..n) \ T # {} PROVE FALSE
  OBVIOUS
<1>2. PICK m \in (0..n) \ T : \A k \in (0..n) \ T : m <= k
  <2>1. (0..n) \ T \in SUBSET Nat
    OBVIOUS
  <2>q. QED BY <1>1, <2>1, LeastNatural
<1>3. m # 0 /\ m - 1 \in 0..(n - 1) /\ m - 1 \in T
  BY <1>2
<1>q. QED BY <1>2, <1>3

\* The values in D that a loop of n turns goes through: from start, by one step
\* for each turn.
Run(n, D, start, step) ==
  {g \in [0..n -> D] : g[0] = start /\ \A i \in 1..n : g[i] = step[i][g[i - 1]]}

LEMMA LoopRuns ==
  ASSUME NEW n \in Nat, NEW D, NEW start \in D, NEW step \in [1..n -> [D -> D]]
  PROVE  Run(n, D, start, step) # {}
<1> DEFINE Runs(m) == \E g \in [0..m -> D] :
                         g[0] = start /\ \A i \in 1..m : g[i] = step[i][g[i - 1]]
           T == {m \in 0..n : Runs(m)}
<1>1. Runs(0)
  <2> DEFINE g == [i \in 0..0 |-> start]
  <2>1. g \in [0..0 -> D] /\ g[0] = start /\ 1..0 = {}
    OBVIOUS
  <2> HIDE DEF g
  <2>q. QED BY <2>1
<1>2. ASSUME NEW m \in 0..(n - 1), Runs(m) PROVE Runs(m + 1)
  <2>1. PICK g \in [0..m -> D] : g[0] = start /\ \A i \in 1..m : g[i] = step[i][g[i - 1]]
    BY <1>2
  <2> DEFINE h == [i \in 0..(m + 1) |-> IF i <= m THEN g[i] ELSE step[m + 1][g[m]]]
  <2>2. step[m + 1][g[m]] \in D
    <3>1. m + 1 \in 1..n /\ g[m] \in D
      OBVIOUS
    <3>q. QED BY <3>1
  <2>3. h \in [0..(m + 1) -> D]
    BY <2>2
  <2>4. h[m + 1] = step[m + 1][g[m]] /\ \A i \in 0..m : h[i] = g[i]
    OBVIOUS
  <2> HIDE DEF h
  <2>5. h[0] = start
    BY <2>1, <2>4
  <2>6. ASSUME NEW i \in 1..(m + 1) PROVE h[i] = step[i][h[i - 1]]
    <3>1. CASE i = m + 1
      BY <2>4, <3>1
    <3>2. CASE i \in 1..m
      BY <2>1, <2>4, <3>2
    <3>q. QED BY <3>1, <3>2
  <2>q. QED BY <2>3, <2>5, <2>6
<1> HIDE DEF Runs
<1>3. 0 \in T
  BY <1>1
<1>4. \A m \in 0..(n - 1) : m \in T => m + 1 \in T
  BY <1>2
<1>5. n \in T
  <2>1. n \in 0..n
    OBVIOUS
  <2> HIDE DEF T
  <2>2. \A m \in 0..n : m \in T
    BY <1>3, <1>4, UpTo
  <2>q. QED BY <2>1, <2>2
<1>6. Runs(n)
  BY <1>5
<1>q. QED BY <1>6 DEF Runs, Run

-----------------------------------------------------------------------------
(* The lists                                                               *)

\* Among takes one source after the other.
LEMMA AmongRuns ==
  ASSUME NEW s \in Seq(Sources), NEW W
  PROVE  \E g \in [0..Len(s) -> Seq(Sources)] :
            /\ g[0] = <<>>
            /\ \A n \in 1..Len(s) : g[n] = IF s[n] \in W THEN Append(g[n - 1], s[n]) ELSE g[n - 1]
            /\ Among(s, W) = g[Len(s)]
<1> DEFINE D == Seq(Sources)
           start == <<>>
           length == Len(s)
           step == [n \in 1..length |->
                      [x \in D |-> IF s[n] \in W THEN Append(x, s[n]) ELSE x]]
           Turns(f) == [n \in 0..length |->
                          IF n = 0 THEN start
                          ELSE IF s[n] \in W THEN Append(f[n - 1], s[n]) ELSE f[n - 1]]
           kept == CHOOSE f : f = Turns(f)
<1>1. length \in Nat /\ start \in D /\ step \in [1..length -> [D -> D]]
  OBVIOUS
<1>2. \A n \in 1..length : \A x \in D : step[n][x] = IF s[n] \in W THEN Append(x, s[n]) ELSE x
  OBVIOUS
<1>3. Among(s, W) = kept[length]
  BY DEF Among
<1> HIDE DEF D, start, length, step
<1>4. PICK g \in Run(length, D, start, step) : TRUE
  BY <1>1, LoopRuns
<1>5. /\ g \in [0..length -> D] /\ g[0] = start
      /\ \A n \in 1..length : g[n] = IF s[n] \in W THEN Append(g[n - 1], s[n]) ELSE g[n - 1]
  <2>1. g \in [0..length -> D] /\ g[0] = start /\ \A n \in 1..length : g[n] = step[n][g[n - 1]]
    BY <1>4 DEF Run
  <2>q. QED BY <1>1, <1>2, <2>1
<1>6. g = Turns(g)
  <2>1. ASSUME NEW n \in 0..length PROVE g[n] = Turns(g)[n]
    <3>1. CASE n = 0
      BY <1>5, <3>1
    <3>2. CASE n \in 1..length
      BY <1>5, <3>2
    <3>q. QED BY <1>1, <3>1, <3>2
  <2> DEFINE h == Turns(g)
  <2>2. h = [n \in 0..length |-> h[n]] /\ g = [n \in 0..length |-> g[n]]
    BY <1>5
  <2>3. \A n \in 0..length : g[n] = h[n]
    BY <2>1
  <2> HIDE DEF h
  <2>q. QED BY <2>2, <2>3 DEF h
<1>7. kept = Turns(kept)
  BY <1>6
<1>8. /\ kept[0] = start
      /\ \A n \in 1..length : kept[n] = IF s[n] \in W THEN Append(kept[n - 1], s[n]) ELSE kept[n - 1]
  <2> HIDE DEF kept
  <2>1. kept[0] = start
    BY <1>1, <1>7
  <2>2. ASSUME NEW n \in 1..length
        PROVE  kept[n] = IF s[n] \in W THEN Append(kept[n - 1], s[n]) ELSE kept[n - 1]
    <3>1. n \in 0..length /\ n # 0
      BY <1>1
    <3>2. Turns(kept)[n] = IF s[n] \in W THEN Append(kept[n - 1], s[n]) ELSE kept[n - 1]
      BY <3>1
    <3> HIDE DEF Turns
    <3>q. QED BY <1>7, <3>2
  <2>q. QED BY <2>1, <2>2
<1> HIDE DEF kept
<1> DEFINE T == {n \in 0..length : kept[n] = g[n]}
<1>9. 0 \in T
  BY <1>1, <1>5, <1>8
<1>10. \A n \in 0..(length - 1) : n \in T => n + 1 \in T
  BY <1>1, <1>5, <1>8
<1>11. length \in T
  <2> HIDE DEF T
  <2>1. \A n \in 0..length : n \in T
    BY <1>1, <1>9, <1>10, UpTo
  <2>q. QED BY <1>1, <2>1
<1>12. Among(s, W) = g[length]
  BY <1>3, <1>11
<1>q. QED BY <1>5, <1>12 DEF D, length, start

\* What is left of a list is a list, and no longer.
LEMMA AmongTyped ==
  ASSUME NEW s \in Seq(Sources), NEW W
  PROVE  Among(s, W) \in Seq(Sources) /\ Len(Among(s, W)) <= Len(s)
<1>1. PICK g \in [0..Len(s) -> Seq(Sources)] :
         /\ g[0] = <<>>
         /\ \A n \in 1..Len(s) : g[n] = IF s[n] \in W THEN Append(g[n - 1], s[n]) ELSE g[n - 1]
         /\ Among(s, W) = g[Len(s)]
  BY AmongRuns
<1> DEFINE length == Len(s)
           T == {n \in 0..length : Len(g[n]) <= n}
<1>2. length \in Nat
  OBVIOUS
<1>3. 0 \in T
  BY <1>1
<1>4. ASSUME NEW n \in 0..(length - 1), n \in T PROVE n + 1 \in T
  <2>1. n + 1 \in 1..length /\ g[n] \in Seq(Sources) /\ Len(g[n]) <= n
    BY <1>4
  <2>2. g[n + 1] = IF s[n + 1] \in W THEN Append(g[n], s[n + 1]) ELSE g[n]
    BY <1>1, <2>1
  <2>3. Len(g[n + 1]) <= n + 1
    BY <2>1, <2>2
  <2>q. QED BY <2>1, <2>3
<1>5. \A n \in 0..length : n \in T
  <2> HIDE DEF T, length
  <2>q. QED BY <1>2, <1>3, <1>4, UpTo
<1>q. QED BY <1>1, <1>2, <1>5

\* A list with all of its sources wanted but one loses that one.
LEMMA AmongButOne ==
  ASSUME NEW s \in Seq(Sources), NEW W, NEW k \in DOMAIN s, s[k] \notin W,
         \A i \in DOMAIN s \ {k} : s[i] \in W
  PROVE  /\ Len(Among(s, W)) = Len(s) - 1
         /\ \A i \in 1..(Len(s) - 1) : Among(s, W)[i] = IF i < k THEN s[i] ELSE s[i + 1]
<1>1. PICK g \in [0..Len(s) -> Seq(Sources)] :
         /\ g[0] = <<>>
         /\ \A n \in 1..Len(s) : g[n] = IF s[n] \in W THEN Append(g[n - 1], s[n]) ELSE g[n - 1]
         /\ Among(s, W) = g[Len(s)]
  BY AmongRuns
<1> DEFINE length == Len(s)
           T == {n \in 0..length :
                   /\ Len(g[n]) = IF n < k THEN n ELSE n - 1
                   /\ \A i \in 1..Len(g[n]) : g[n][i] = IF i < k THEN s[i] ELSE s[i + 1]}
<1>2. length \in Nat /\ k \in 1..length /\ DOMAIN s = 1..length
  OBVIOUS
<1>3. 0 \in T
  BY <1>1
<1>4. ASSUME NEW n \in 0..(length - 1), n \in T PROVE n + 1 \in T
  <2>1. /\ n + 1 \in 1..length /\ g[n] \in Seq(Sources)
        /\ Len(g[n]) = IF n < k THEN n ELSE n - 1
        /\ \A i \in 1..Len(g[n]) : g[n][i] = IF i < k THEN s[i] ELSE s[i + 1]
    BY <1>4
  <2>2. g[n + 1] = IF s[n + 1] \in W THEN Append(g[n], s[n + 1]) ELSE g[n]
    BY <1>1, <2>1
  <2>3. CASE n + 1 = k
    BY <2>1, <2>2, <2>3, <1>2
  <2>4. CASE n + 1 # k
    <3>1. g[n + 1] = Append(g[n], s[n + 1])
      BY <1>2, <2>1, <2>2, <2>4
    <3>2. Len(g[n + 1]) = Len(g[n]) + 1 /\ g[n + 1][Len(g[n]) + 1] = s[n + 1]
          /\ \A i \in 1..Len(g[n]) : g[n + 1][i] = g[n][i]
      <4>1. s[n + 1] \in Sources
        BY <2>1
      <4>q. QED BY <2>1, <3>1, <4>1
    <3>3. Len(g[n + 1]) = IF n + 1 < k THEN n + 1 ELSE n
      BY <1>2, <2>1, <2>4, <3>2
    <3>4. ASSUME NEW i \in 1..Len(g[n + 1])
          PROVE  g[n + 1][i] = IF i < k THEN s[i] ELSE s[i + 1]
      <4>1. Len(g[n]) \in Nat
        BY <2>1
      <4>2. CASE i = Len(g[n]) + 1
        <5>1. g[n + 1][i] = s[n + 1]
          BY <3>2, <4>2
        <5>q. QED BY <1>2, <2>1, <2>4, <4>2, <5>1
      <4>3. CASE i \in 1..Len(g[n])
        BY <2>1, <3>2, <4>3
      <4>q. QED BY <3>2, <4>1, <4>2, <4>3
    <3>q. QED BY <1>2, <2>1, <3>3, <3>4
  <2>q. QED BY <2>3, <2>4
<1>5. \A n \in 0..length : n \in T
  <2> HIDE DEF T, length
  <2>q. QED BY <1>2, <1>3, <1>4, UpTo
<1>6. length \in T
  <2>1. length \in 0..length
    BY <1>2
  <2> HIDE DEF T, length
  <2>q. QED BY <2>1, <1>5
<1>7. /\ Len(g[length]) = length - 1
      /\ \A i \in 1..Len(g[length]) : g[length][i] = IF i < k THEN s[i] ELSE s[i + 1]
  <2> HIDE DEF length
  <2>q. QED BY <1>2, <1>6
<1>q. QED BY <1>1, <1>7

-----------------------------------------------------------------------------
(* The rows                                                                *)

Rows == [1..Len(rows) -> Sources]
Shifting == [at : Rows, to : Nat]

\* The shift begins at a row with the id of row k, the first one.
LEMMA FirstLikeIs ==
  ASSUME rows \in Seq(Sources), NEW k \in DOMAIN rows
  PROVE  /\ FirstLike(k) \in 1..Len(rows) /\ FirstLike(k) <= k
         /\ rows[FirstLike(k)].id = rows[k].id
<1> DEFINE T == {j \in DOMAIN rows : rows[j].id = rows[k].id}
<1>1. T \in SUBSET Nat /\ k \in T
  OBVIOUS
<1>2. PICK m \in T : \A j \in T : m <= j
  <2> HIDE DEF T
  <2>q. QED BY <1>1, LeastNatural
<1>3. m \in DOMAIN rows /\ rows[m].id = rows[k].id /\ \A i \in 1..(m - 1) : rows[i].id # rows[k].id
  BY <1>2
<1>4. /\ FirstLike(k) \in DOMAIN rows /\ rows[FirstLike(k)].id = rows[k].id
      /\ \A i \in 1..(FirstLike(k) - 1) : rows[i].id # rows[k].id
  BY <1>3 DEF FirstLike
<1>q. QED BY <1>1, <1>4

\* A turn keeps the rows' type, and the first free place moves by one at most.
LEMMA TurnTyped ==
  ASSUME rows \in Seq(Sources), NEW k \in DOMAIN rows, NEW n \in 1..Len(rows), NEW now \in Shifting
  PROVE  /\ ShiftTurn(now, n, k) \in Shifting
         /\ ShiftTurn(now, n, k).to \in {now.to, now.to + 1}
<1>1. now.at \in Rows /\ now.to \in Nat /\ now.at[n] \in Sources
  BY DEF Shifting, Rows
<1>2. [now.at EXCEPT ![now.to] = now.at[n]] \in Rows
  BY <1>1 DEF Rows
<1>3. now.to + 1 \in Nat
  BY <1>1
<1> DEFINE moved == [at |-> [now.at EXCEPT ![now.to] = now.at[n]], to |-> now.to + 1]
<1>4. moved \in Shifting /\ moved.to = now.to + 1
  BY <1>2, <1>3 DEF Shifting
<1>5. ShiftTurn(now, n, k) \in {now, moved}
  BY DEF ShiftTurn
<1> HIDE DEF moved
<1>q. QED BY <1>4, <1>5

\* Shifted takes one turn after the other.
LEMMA ShiftedRuns ==
  ASSUME rows \in Seq(Sources), NEW k \in DOMAIN rows
  PROVE  \E g \in [0..Len(rows) -> Shifting] :
            /\ \A n \in 0..Len(rows) :
                  g[n] = IF n <= FirstLike(k) THEN [at |-> rows, to |-> FirstLike(k)]
                         ELSE ShiftTurn(g[n - 1], n, k)
            /\ Shifted(k) = g[Len(rows)]
<1> DEFINE start == [at |-> rows, to |-> FirstLike(k)]
           length == Len(rows)
           first == FirstLike(k)
           step == [n \in 1..length |->
                      [x \in Shifting |-> IF n <= first THEN start ELSE ShiftTurn(x, n, k)]]
           Turns(f) == [n \in 0..length |->
                          IF n <= first THEN start ELSE ShiftTurn(f[n - 1], n, k)]
           after == CHOOSE f : f = Turns(f)
<1>1. length \in Nat /\ first \in 1..length
  BY FirstLikeIs
<1>2. start \in Shifting
  BY <1>1 DEF Shifting, Rows
<1>3. step \in [1..length -> [Shifting -> Shifting]]
  <2>1. ASSUME NEW n \in 1..length, NEW x \in Shifting PROVE ShiftTurn(x, n, k) \in Shifting
    BY TurnTyped
  <2> HIDE DEF start, first, length
  <2>q. QED BY <1>2, <2>1
<1>4. \A n \in 1..length : \A x \in Shifting :
         step[n][x] = IF n <= first THEN start ELSE ShiftTurn(x, n, k)
  OBVIOUS
<1>5. Shifted(k) = after[length]
  BY DEF Shifted
<1> HIDE DEF start, length, step, first
<1>6. PICK g \in Run(length, Shifting, start, step) : TRUE
  BY <1>1, <1>2, <1>3, LoopRuns
<1>7. /\ g \in [0..length -> Shifting] /\ g[0] = start
      /\ \A n \in 1..length : g[n] = IF n <= first THEN start ELSE ShiftTurn(g[n - 1], n, k)
  <2>1. g \in [0..length -> Shifting] /\ g[0] = start /\ \A n \in 1..length : g[n] = step[n][g[n - 1]]
    BY <1>6 DEF Run
  <2>q. QED BY <1>1, <1>4, <2>1
<1>8. g = Turns(g)
  <2>1. ASSUME NEW n \in 0..length PROVE g[n] = Turns(g)[n]
    <3>1. CASE n = 0
      BY <1>1, <1>7, <3>1
    <3>2. CASE n \in 1..length
      BY <1>7, <3>2
    <3>q. QED BY <1>1, <3>1, <3>2
  <2> DEFINE h == Turns(g)
  <2>2. h = [n \in 0..length |-> h[n]] /\ g = [n \in 0..length |-> g[n]]
    BY <1>7
  <2>3. \A n \in 0..length : g[n] = h[n]
    BY <2>1
  <2> HIDE DEF h
  <2>q. QED BY <2>2, <2>3 DEF h
<1>9. after = Turns(after)
  BY <1>8
<1>10. \A n \in 0..length : after[n] = IF n <= first THEN start ELSE ShiftTurn(after[n - 1], n, k)
  <2> HIDE DEF after
  <2>1. ASSUME NEW n \in 0..length
        PROVE  after[n] = IF n <= first THEN start ELSE ShiftTurn(after[n - 1], n, k)
    <3>1. Turns(after)[n] = IF n <= first THEN start ELSE ShiftTurn(after[n - 1], n, k)
      OBVIOUS
    <3> HIDE DEF Turns
    <3>q. QED BY <1>9, <3>1
  <2>q. QED BY <2>1
<1> HIDE DEF after
<1> DEFINE T == {n \in 0..length : after[n] = g[n]}
<1>11. 0 \in T
  BY <1>1, <1>7, <1>10
<1>12. \A n \in 0..(length - 1) : n \in T => n + 1 \in T
  BY <1>1, <1>7, <1>10
<1>13. \A n \in 0..length : n \in T
  <2> HIDE DEF T
  <2>q. QED BY <1>1, <1>11, <1>12, UpTo
<1>14. /\ \A n \in 0..length : g[n] = IF n <= first THEN start ELSE ShiftTurn(g[n - 1], n, k)
       /\ Shifted(k) = g[length]
  BY <1>1, <1>5, <1>7, <1>13
<1>q. QED BY <1>7, <1>14 DEF length, first, start

LEMMA PrefixTyped ==
  ASSUME NEW L \in Nat, NEW at \in [1..L -> Sources], NEW m \in 0..L
  PROVE  /\ SubSeq(at, 1, m) \in Seq(Sources) /\ Len(SubSeq(at, 1, m)) = m
         /\ \A i \in 1..m : SubSeq(at, 1, m)[i] = at[i]
<1>1. at \in Seq(Sources) /\ Len(at) = L
  OBVIOUS
<1>q. QED BY <1>1

\* Whatever the ids, what is left of the rows are rows, and no more.
LEMMA EraseTyped ==
  ASSUME rows \in Seq(Sources), NEW k \in DOMAIN rows
  PROVE  EraseRow(k) \in Seq(Sources) /\ Len(EraseRow(k)) <= Len(rows)
<1> DEFINE length == Len(rows)
           first == FirstLike(k)
<1>1. length \in Nat /\ first \in 1..length
  BY FirstLikeIs
<1>2. PICK g \in [0..length -> Shifting] :
         /\ \A n \in 0..length :
               g[n] = IF n <= first THEN [at |-> rows, to |-> first] ELSE ShiftTurn(g[n - 1], n, k)
         /\ Shifted(k) = g[length]
  BY ShiftedRuns
<1> DEFINE T == {n \in 0..length : g[n].to <= IF n <= first THEN first ELSE n}
<1>3. 0 \in T
  BY <1>1, <1>2
<1>4. ASSUME NEW n \in 0..(length - 1), n \in T PROVE n + 1 \in T
  <2>1. n + 1 \in 1..length /\ g[n] \in Shifting
    BY <1>1, <1>2
  <2>2. CASE n + 1 <= first
    BY <1>1, <1>2, <2>1, <2>2
  <2>3. CASE ~(n + 1 <= first)
    <3>1. g[n + 1] = ShiftTurn(g[n], n + 1, k)
      BY <1>1, <1>2, <2>1, <2>3
    <3>2. g[n + 1].to \in {g[n].to, g[n].to + 1}
      BY <2>1, <3>1, TurnTyped
    <3>3. g[n].to <= n /\ g[n].to \in Nat
      BY <1>1, <1>4, <2>1, <2>3 DEF Shifting
    <3>q. QED BY <1>1, <2>1, <2>3, <3>2, <3>3
  <2>q. QED BY <2>2, <2>3
<1>5. \A n \in 0..length : n \in T
  <2> HIDE DEF T, length
  <2>q. QED BY <1>1, <1>3, <1>4, UpTo
<1>6. length \in T
  <2>1. length \in 0..length
    BY <1>1
  <2> HIDE DEF T, length
  <2>q. QED BY <2>1, <1>5
<1>7. Shifted(k).at \in [1..length -> Sources] /\ Shifted(k).to \in Nat /\ Shifted(k).to <= length
  BY <1>1, <1>2, <1>6 DEF Shifting, Rows
<1>8. CASE Shifted(k).to = 0
  BY <1>1, <1>7, <1>8 DEF EraseRow
<1>9. CASE Shifted(k).to # 0
  <2> DEFINE at == Shifted(k).at
             m == Shifted(k).to - 1
  <2>1. m \in 0..length /\ at \in [1..length -> Sources] /\ EraseRow(k) = SubSeq(at, 1, m)
    BY <1>1, <1>7, <1>9 DEF EraseRow
  <2> HIDE DEF at, m, length
  <2>2. SubSeq(at, 1, m) \in Seq(Sources) /\ Len(SubSeq(at, 1, m)) = m
    BY <1>1, <2>1, PrefixTyped
  <2>3. Len(EraseRow(k)) <= length
    BY <1>1, <2>1, <2>2
  <2>q. QED BY <2>1, <2>2, <2>3 DEF length
<1>q. QED BY <1>8, <1>9

\* Where no id occurs twice, the button removes its row and no other.
LEMMA EraseOne ==
  ASSUME rows \in Seq(Sources), NEW k \in DOMAIN rows, Distinct(rows)
  PROVE  /\ Len(EraseRow(k)) = Len(rows) - 1
         /\ \A i \in 1..(Len(rows) - 1) : EraseRow(k)[i] = IF i < k THEN rows[i] ELSE rows[i + 1]
<1> DEFINE length == Len(rows)
<1>1. length \in Nat /\ k \in 1..length /\ DOMAIN rows = 1..length
  OBVIOUS
<1>2. FirstLike(k) = k
  BY <1>1, FirstLikeIs DEF Distinct
<1>3. PICK g \in [0..length -> Shifting] :
         /\ \A n \in 0..length :
               g[n] = IF n <= k THEN [at |-> rows, to |-> k] ELSE ShiftTurn(g[n - 1], n, k)
         /\ Shifted(k) = g[length]
  BY <1>2, ShiftedRuns
<1> DEFINE T == {n \in 0..length :
                   /\ g[n].to = IF n <= k THEN k ELSE n
                   /\ \A i \in 1..length :
                        g[n].at[i] = IF i < k \/ i >= n THEN rows[i] ELSE rows[i + 1]}
<1>4. 0 \in T
  BY <1>1, <1>3
<1>5. ASSUME NEW n \in 0..(length - 1), n \in T PROVE n + 1 \in T
  <2>1. n + 1 \in 1..length /\ g[n] \in Shifting
    BY <1>1, <1>3
  <2>2. CASE n + 1 <= k
    BY <1>1, <1>3, <2>1, <2>2
  <2>3. CASE ~(n + 1 <= k)
    <3>1. g[n + 1] = ShiftTurn(g[n], n + 1, k)
      BY <1>1, <1>3, <2>1, <2>3
    <3>2. g[n].to = n /\ g[n].at[n + 1] = rows[n + 1]
      BY <1>1, <1>5, <2>1, <2>3
    <3>3. g[n].at[k] = IF n = k THEN rows[k] ELSE rows[k + 1]
      BY <1>1, <1>5, <2>1, <2>3
    <3>4. g[n].at[n + 1].id # g[n].at[k].id
      BY <1>1, <2>1, <2>3, <3>2, <3>3 DEF Distinct
    <3>5. g[n + 1] = [at |-> [g[n].at EXCEPT ![n] = rows[n + 1]], to |-> n + 1]
      BY <3>1, <3>2, <3>4 DEF ShiftTurn
    <3>6. g[n].at \in Rows
      BY <2>1 DEF Shifting
    <3>7. ASSUME NEW i \in 1..length
          PROVE  g[n + 1].at[i] = IF i < k \/ i >= n + 1 THEN rows[i] ELSE rows[i + 1]
      BY <1>1, <1>5, <2>1, <2>3, <3>5, <3>6 DEF Rows
    <3>8. g[n + 1].to = n + 1
      BY <3>5
    <3>q. QED BY <1>1, <2>1, <2>3, <3>7, <3>8
  <2>q. QED BY <2>2, <2>3
<1>6. \A n \in 0..length : n \in T
  <2> HIDE DEF T, length
  <2>q. QED BY <1>1, <1>4, <1>5, UpTo
<1>7. length \in T
  <2>1. length \in 0..length
    BY <1>1
  <2> HIDE DEF T, length
  <2>q. QED BY <2>1, <1>6
<1>8. /\ Shifted(k).at \in [1..length -> Sources] /\ Shifted(k).to = length
      /\ \A i \in 1..length :
           Shifted(k).at[i] = IF i < k \/ i >= length THEN rows[i] ELSE rows[i + 1]
  BY <1>1, <1>3, <1>7 DEF Shifting, Rows
<1>9. length - 1 \in 0..length
  BY <1>1
<1>10. /\ EraseRow(k) = SubSeq(Shifted(k).at, 1, length - 1)
       /\ Len(EraseRow(k)) = length - 1
       /\ \A i \in 1..(length - 1) : EraseRow(k)[i] = Shifted(k).at[i]
  BY <1>1, <1>8, <1>9, PrefixTyped DEF EraseRow
<1>11. ASSUME NEW i \in 1..(length - 1)
       PROVE  EraseRow(k)[i] = IF i < k THEN rows[i] ELSE rows[i + 1]
  <2>1. i \in 1..length /\ ~(i >= length)
    BY <1>1
  <2>q. QED BY <1>8, <1>10, <2>1
<1>q. QED BY <1>10, <1>11

-----------------------------------------------------------------------------
(* Applying the rows                                                       *)

\* A row changes flags only.
LEMMA ApplyRowTyped ==
  ASSUME NEW L \in Nat, NEW sources \in [1..L -> Sources], NEW row \in Sources
  PROVE  /\ ApplyRow(sources, row) \in [1..L -> Sources]
         /\ \A i \in 1..L : /\ ApplyRow(sources, row)[i].id = sources[i].id
                            /\ ApplyRow(sources, row)[i].url = sources[i].url
<1>1. ASSUME NEW i \in 1..L
      PROVE  /\ [sources[i] EXCEPT !.enabled = row.enabled] \in Sources
             /\ [sources[i] EXCEPT !.enabled = row.enabled].id = sources[i].id
             /\ [sources[i] EXCEPT !.enabled = row.enabled].url = sources[i].url
  BY DEF Sources
<1> DEFINE same == {i \in DOMAIN sources : sources[i].id = row.id}
           Hit(i) == i \in same /\ \A j \in same : i <= j
<1>2. ApplyRow(sources, row) =
         [i \in 1..L |-> IF Hit(i) THEN [sources[i] EXCEPT !.enabled = row.enabled] ELSE sources[i]]
  BY DEF ApplyRow
<1> HIDE DEF Hit
<1>q. QED BY <1>1, <1>2

\* ApplyRows takes one row after the other.
LEMMA ApplyRowsRuns ==
  ASSUME rows \in Seq(Sources), NEW sources \in Seq(Sources)
  PROVE  \E g \in [0..Len(rows) -> [1..Len(sources) -> Sources]] :
            /\ g[0] = sources
            /\ \A n \in 1..Len(rows) : g[n] = ApplyRow(g[n - 1], rows[n])
            /\ ApplyRows(sources) = g[Len(rows)]
<1> DEFINE D == [1..Len(sources) -> Sources]
           length == Len(rows)
           step == [n \in 1..length |-> [x \in D |-> ApplyRow(x, rows[n])]]
           Turns(f) == [n \in 0..length |->
                          IF n = 0 THEN sources ELSE ApplyRow(f[n - 1], rows[n])]
           after == CHOOSE f : f = Turns(f)
<1>1. length \in Nat /\ sources \in D
  OBVIOUS
<1>2. step \in [1..length -> [D -> D]]
  <2>1. ASSUME NEW n \in 1..length, NEW x \in D PROVE ApplyRow(x, rows[n]) \in D
    <3>1. Len(sources) \in Nat /\ rows[n] \in Sources
      OBVIOUS
    <3>q. QED BY <3>1, ApplyRowTyped
  <2> HIDE DEF D, length
  <2>q. QED BY <2>1
<1>3. \A n \in 1..length : \A x \in D : step[n][x] = ApplyRow(x, rows[n])
  OBVIOUS
<1>4. ApplyRows(sources) = after[length]
  BY DEF ApplyRows
<1> HIDE DEF D, length, step
<1>5. PICK g \in Run(length, D, sources, step) : TRUE
  BY <1>1, <1>2, LoopRuns
<1>6. /\ g \in [0..length -> D] /\ g[0] = sources
      /\ \A n \in 1..length : g[n] = ApplyRow(g[n - 1], rows[n])
  <2>1. g \in [0..length -> D] /\ g[0] = sources /\ \A n \in 1..length : g[n] = step[n][g[n - 1]]
    BY <1>5 DEF Run
  <2>q. QED BY <1>1, <1>3, <2>1
<1>7. g = Turns(g)
  <2>1. ASSUME NEW n \in 0..length PROVE g[n] = Turns(g)[n]
    <3>1. CASE n = 0
      BY <1>6, <3>1
    <3>2. CASE n \in 1..length
      BY <1>6, <3>2
    <3>q. QED BY <1>1, <3>1, <3>2
  <2> DEFINE h == Turns(g)
  <2>2. h = [n \in 0..length |-> h[n]] /\ g = [n \in 0..length |-> g[n]]
    BY <1>6
  <2>3. \A n \in 0..length : g[n] = h[n]
    BY <2>1
  <2> HIDE DEF h
  <2>q. QED BY <2>2, <2>3 DEF h
<1>8. after = Turns(after)
  BY <1>7
<1>9. \A n \in 0..length : after[n] = IF n = 0 THEN sources ELSE ApplyRow(after[n - 1], rows[n])
  <2> HIDE DEF after
  <2>1. ASSUME NEW n \in 0..length
        PROVE  after[n] = IF n = 0 THEN sources ELSE ApplyRow(after[n - 1], rows[n])
    <3>1. Turns(after)[n] = IF n = 0 THEN sources ELSE ApplyRow(after[n - 1], rows[n])
      OBVIOUS
    <3> HIDE DEF Turns
    <3>q. QED BY <1>8, <3>1
  <2>q. QED BY <2>1
<1> HIDE DEF after
<1> DEFINE T == {n \in 0..length : after[n] = g[n]}
<1>10. 0 \in T
  BY <1>1, <1>6, <1>9
<1>11. \A n \in 0..(length - 1) : n \in T => n + 1 \in T
  BY <1>1, <1>6, <1>9
<1>12. \A n \in 0..length : n \in T
  <2> HIDE DEF T
  <2>q. QED BY <1>1, <1>10, <1>11, UpTo
<1>13. ApplyRows(sources) = g[length]
  BY <1>1, <1>4, <1>12
<1>q. QED BY <1>6, <1>13 DEF D, length

\* Applying the rows leaves the list as it is but for flags.
LEMMA ApplyRowsTyped ==
  ASSUME rows \in Seq(Sources), NEW sources \in Seq(Sources)
  PROVE  /\ ApplyRows(sources) \in Seq(Sources) /\ Len(ApplyRows(sources)) = Len(sources)
         /\ \A i \in 1..Len(sources) : /\ ApplyRows(sources)[i].id = sources[i].id
                                       /\ ApplyRows(sources)[i].url = sources[i].url
<1> DEFINE D == [1..Len(sources) -> Sources]
           length == Len(rows)
<1>1. PICK g \in [0..length -> D] :
         /\ g[0] = sources
         /\ \A n \in 1..length : g[n] = ApplyRow(g[n - 1], rows[n])
         /\ ApplyRows(sources) = g[length]
  BY ApplyRowsRuns
<1> DEFINE T == {n \in 0..length : \A i \in 1..Len(sources) :
                   g[n][i].id = sources[i].id /\ g[n][i].url = sources[i].url}
<1>2. length \in Nat /\ Len(sources) \in Nat
  OBVIOUS
<1>3. 0 \in T
  BY <1>1, <1>2
<1>4. ASSUME NEW n \in 0..(length - 1), n \in T PROVE n + 1 \in T
  <2>1. n + 1 \in 1..length /\ g[n] \in D /\ rows[n + 1] \in Sources
    BY <1>2
  <2>2. g[n + 1] = ApplyRow(g[n], rows[n + 1])
    BY <1>1, <1>2, <2>1
  <2>3. \A i \in 1..Len(sources) : /\ g[n + 1][i].id = g[n][i].id
                                   /\ g[n + 1][i].url = g[n][i].url
    <3> DEFINE now == g[n]
               row == rows[n + 1]
               L == Len(sources)
    <3>1. L \in Nat /\ now \in [1..L -> Sources] /\ row \in Sources
      BY <1>2, <2>1
    <3> HIDE DEF now, row, L
    <3>2. \A i \in 1..L : /\ ApplyRow(now, row)[i].id = now[i].id
                          /\ ApplyRow(now, row)[i].url = now[i].url
      BY <3>1, ApplyRowTyped
    <3>q. QED BY <2>2, <3>2 DEF now, row, L
  <2>q. QED BY <1>2, <1>4, <2>1, <2>3
<1>5. \A n \in 0..length : n \in T
  <2> HIDE DEF T, length
  <2>q. QED BY <1>2, <1>3, <1>4, UpTo
<1>6. length \in T
  <2>1. length \in 0..length
    BY <1>2
  <2> HIDE DEF T, length
  <2>q. QED BY <2>1, <1>5
<1>7. ApplyRows(sources) \in D
  BY <1>1, <1>2
<1>8. \A i \in 1..Len(sources) : /\ ApplyRows(sources)[i].id = sources[i].id
                                 /\ ApplyRows(sources)[i].url = sources[i].url
  <2> HIDE DEF length
  <2>q. QED BY <1>1, <1>6
<1>9. ApplyRows(sources) \in Seq(Sources) /\ Len(ApplyRows(sources)) = Len(sources)
  BY <1>2, <1>7
<1>q. QED BY <1>8, <1>9

\* Where rows and list have the same ids in the same order, and none twice, each
\* row sets the flag of its own repository.
LEMMA ApplyRowsSets ==
  ASSUME rows \in Seq(Sources), NEW sources \in Seq(Sources), Distinct(rows),
         Len(sources) = Len(rows),
         \A i \in 1..Len(rows) : sources[i].id = rows[i].id /\ sources[i].url = rows[i].url
  PROVE  ApplyRows(sources) = rows
<1> DEFINE length == Len(rows)
           D == [1..length -> Sources]
<1>1. PICK g \in [0..length -> D] :
         /\ g[0] = sources
         /\ \A n \in 1..length : g[n] = ApplyRow(g[n - 1], rows[n])
         /\ ApplyRows(sources) = g[length]
  BY ApplyRowsRuns
<1> DEFINE T == {n \in 0..length : \A i \in 1..length :
                   g[n][i] = IF i <= n THEN rows[i] ELSE sources[i]}
<1>2. length \in Nat /\ DOMAIN rows = 1..length /\ rows \in D /\ sources \in D
  OBVIOUS
<1>3. 0 \in T
  BY <1>1, <1>2
<1>4. ASSUME NEW n \in 0..(length - 1), n \in T PROVE n + 1 \in T
  <2>1. /\ n + 1 \in 1..length /\ g[n] \in D /\ rows[n + 1] \in Sources
        /\ \A i \in 1..length : g[n][i] = IF i <= n THEN rows[i] ELSE sources[i]
    BY <1>2, <1>4
  <2>2. g[n + 1] = ApplyRow(g[n], rows[n + 1])
    BY <1>1, <1>2, <2>1
  <2> DEFINE same == {i \in DOMAIN g[n] : g[n][i].id = rows[n + 1].id}
             Hit(i) == i \in same /\ \A j \in same : i <= j
  <2>3. \A i \in 1..length : g[n][i].id = rows[i].id
    BY <1>2, <2>1
  <2>4. same = {n + 1}
    <3>1. \A i \in 1..length : rows[i].id = rows[n + 1].id => i = n + 1
      BY <1>2, <2>1 DEF Distinct
    <3>2. same = {i \in 1..length : rows[i].id = rows[n + 1].id}
      BY <2>1, <2>3
    <3> HIDE DEF same, length
    <3>q. QED BY <2>1, <3>1, <3>2
  <2>5. g[n + 1] = [i \in 1..length |-> IF Hit(i) THEN [g[n][i] EXCEPT !.enabled = rows[n + 1].enabled]
                                        ELSE g[n][i]]
    <3>1. DOMAIN g[n] = 1..length
      BY <2>1
    <3>q. QED BY <2>2, <3>1 DEF ApplyRow
  <2> HIDE DEF same
  <2>6. \A i \in 1..length : Hit(i) <=> i = n + 1
    BY <1>2, <2>1, <2>4
  <2> HIDE DEF Hit
  <2>7. [g[n][n + 1] EXCEPT !.enabled = rows[n + 1].enabled] = rows[n + 1]
    <3>1. g[n][n + 1] = sources[n + 1] /\ sources[n + 1] \in Sources
      BY <1>2, <2>1
    <3>2. sources[n + 1].id = rows[n + 1].id /\ sources[n + 1].url = rows[n + 1].url
      BY <1>2, <2>1
    <3>q. QED BY <2>1, <3>1, <3>2 DEF Sources
  <2>8. ASSUME NEW i \in 1..length PROVE g[n + 1][i] = IF i <= n + 1 THEN rows[i] ELSE sources[i]
    <3>1. CASE i = n + 1
      BY <1>2, <2>5, <2>6, <2>7, <3>1
    <3>2. CASE i # n + 1
      BY <1>2, <2>1, <2>5, <2>6, <3>2
    <3>q. QED BY <3>1, <3>2
  <2>q. QED BY <1>2, <2>1, <2>8
<1>5. \A n \in 0..length : n \in T
  <2> HIDE DEF T, length
  <2>q. QED BY <1>2, <1>3, <1>4, UpTo
<1>6. length \in T
  <2>1. length \in 0..length
    BY <1>2
  <2> HIDE DEF T, length
  <2>q. QED BY <2>1, <1>5
<1>7. g[length] \in D /\ \A i \in 1..length : g[length][i] = rows[i]
  BY <1>1, <1>2, <1>6
<1>8. g[length] = rows
  <2> HIDE DEF length
  <2>q. QED BY <1>2, <1>7
<1>q. QED BY <1>1, <1>8

-----------------------------------------------------------------------------
(* The settings in memory and on disk                                      *)

\* A list that the screen can show.
Fits(settings) == settings \in SettingsData /\ Len(settings.repositories) <= MaxRows

LEMMA DefaultsFit == Fits(Defaults)
BY MaxRowsHoldFile DEF Fits, Defaults, SettingsData

LEMMA FilesAre ==
  /\ NoText("cut") \in Files /\ NoText("missing") \in Files
  /\ \A settings \in SettingsData : Json(settings) \in Files
BY DefaultsFit DEF Fits, NoText, Json, Files

\* What a person may have left is a file, with two repositories at most.
LEMMA HandwrittenFits ==
  ASSUME NEW f \in Handwritten
  PROVE  f \in Files /\ Fits(f.settings)
<1> DEFINE sources == [id : {0, 1, MaxIds + 1}, url : Urls \ NotUtf8, enabled : {TRUE}]
           lists == UNION {[1..n -> sources] : n \in 0..2}
<1>1. sources \subseteq Sources
  <2>1. {0, 1, MaxIds + 1} \subseteq 0..(MaxIds + 1)
    BY MaxIdsIsNat
  <2>2. Urls \ NotUtf8 \subseteq Urls /\ {TRUE} \subseteq BOOLEAN
    OBVIOUS
  <2>q. QED BY <2>1, <2>2 DEF Sources
<1> HIDE DEF sources
<1>2. ASSUME NEW list \in lists PROVE list \in Seq(Sources) /\ Len(list) <= 2
  <2>1. PICK n \in 0..2 : list \in [1..n -> sources]
    OBVIOUS
  <2>2. list \in [1..n -> Sources]
    BY <1>1, <2>1
  <2> HIDE DEF lists
  <2>q. QED BY <2>2
<1>3. CASE f = NoText("missing")
  BY <1>3, FilesAre, DefaultsFit DEF NoText
<1>4. CASE f # NoText("missing")
  <2> DEFINE some == {list \in lists : list # <<>> => list[1].id = 0}
  <2>1. f \in [text : {"json"}, settings : [verify : {FALSE}, repositories : some],
               breaksAt : {"nowhere", "scalars", "ui", "repositories"}]
    BY <1>4 DEF Handwritten, sources
  <2> HIDE DEF lists
  <2>2. \A list \in some : list \in Seq(Sources) /\ Len(list) <= MaxRows
    BY <1>2, MaxRowsHoldFile
  <2> HIDE DEF some
  <2>3. f.settings \in SettingsData /\ Len(f.settings.repositories) <= MaxRows
    BY <2>1, <2>2 DEF SettingsData
  <2>4. f = [text |-> f.text, settings |-> f.settings, breaksAt |-> f.breaksAt]
    BY <2>1
  <2>5. f.text = "json" /\ f.breaksAt \in {"nowhere", "scalars", "ui", "repositories"}
    BY <2>1
  <2>q. QED BY <2>3, <2>4, <2>5 DEF Files, Fits
<1>q. QED BY <1>3, <1>4

\* What is loaded of a file fits where the file does.
LEMMA FromJsonFits ==
  ASSUME NEW f \in Files, Fits(f.settings)
  PROVE  Fits(FromJson(f))
<1>1. f.settings.verify \in BOOLEAN /\ f.settings.repositories \in Seq(Sources)
      /\ Len(f.settings.repositories) <= MaxRows
  BY DEF Fits, SettingsData
<1>2. CASE f.breaksAt = "nowhere"
  BY <1>2 DEF FromJson
<1>3. CASE f.breaksAt = "scalars"
  BY <1>3, DefaultsFit DEF FromJson
<1>4. CASE f.breaksAt = "ui"
  <2>1. FromJson(f) = [verify |-> f.settings.verify, repositories |-> <<>>]
    BY <1>4 DEF FromJson, Defaults
  <2>q. QED BY <1>1, <2>1, MaxRowsHoldFile DEF Fits, SettingsData
<1>5. CASE f.breaksAt = "repositories"
  <2> DEFINE list == f.settings.repositories
             left == IF list = <<>> THEN list ELSE SubSeq(list, 1, Len(list) - 1)
  <2>1. FromJson(f) = [f.settings EXCEPT !.repositories = left]
    BY <1>5 DEF FromJson
  <2>2. left \in Seq(Sources) /\ Len(left) <= MaxRows
    <3>1. CASE list = <<>>
      BY <1>1, <3>1
    <3>2. CASE list # <<>>
      <4>1. Len(list) \in Nat /\ Len(list) - 1 \in 0..Len(list) /\ list \in [1..Len(list) -> Sources]
        BY <1>1, <3>2
      <4> HIDE DEF list
      <4>2. left = SubSeq(list, 1, Len(list) - 1)
        BY <3>2
      <4>3. left \in Seq(Sources) /\ Len(left) = Len(list) - 1
        <5> DEFINE L == Len(list)
                   m == L - 1
        <5>1. L \in Nat /\ m \in 0..L /\ list \in [1..L -> Sources] /\ left = SubSeq(list, 1, m)
          BY <4>1, <4>2
        <5> HIDE DEF L, m, left
        <5>2. left \in Seq(Sources) /\ Len(left) = m
          BY <5>1, PrefixTyped
        <5>q. QED BY <5>2 DEF L, m
      <4>q. QED BY <1>1, <4>1, <4>3, MaxRowsHoldFile DEF list
    <3>q. QED BY <3>1, <3>2
  <2> HIDE DEF left
  <2>q. QED BY <1>1, <2>1, <2>2 DEF Fits, SettingsData
<1>q. QED BY <1>2, <1>3, <1>4, <1>5 DEF Files

-----------------------------------------------------------------------------
(* The two lists                                                           *)

\* The same repositories in the same order.
Same(r, c) == Len(r) = Len(c) /\ \A i \in 1..Len(r) : r[i].id = c[i].id /\ r[i].url = c[i].url

\* To show a repository as enabled forgets its flag and no more.
LEMMA FlagForgotten ==
  ASSUME NEW s \in Sources, NEW t \in Sources
  PROVE  [s EXCEPT !.enabled = TRUE] = [t EXCEPT !.enabled = TRUE] <=> s.id = t.id /\ s.url = t.url
<1>1. ASSUME NEW r \in Sources
      PROVE  [r EXCEPT !.enabled = TRUE] = [id |-> r.id, url |-> r.url, enabled |-> TRUE]
  <2> DEFINE q == [r EXCEPT !.enabled = TRUE]
  <2>1. q \in Sources /\ q.id = r.id /\ q.url = r.url /\ q.enabled = TRUE
    BY DEF Sources
  <2> HIDE DEF q
  <2>2. q = [id |-> q.id, url |-> q.url, enabled |-> q.enabled]
    BY <2>1 DEF Sources
  <2>q. QED BY <2>1, <2>2 DEF q
<1>q. QED BY <1>1

LEMMA IntervalsAreEqual ==
  ASSUME NEW m \in Nat, NEW n \in Nat, 1..m = 1..n
  PROVE  m = n
<1>1. m # 0 => m \in 1..n
  OBVIOUS
<1>2. n # 0 => n \in 1..m
  OBVIOUS
<1>q. QED BY <1>1, <1>2

LEMMA SameIs ==
  ASSUME NEW r \in Seq(Sources), NEW c \in Seq(Sources)
  PROVE  [i \in DOMAIN r |-> [r[i] EXCEPT !.enabled = TRUE]]
           = [i \in DOMAIN c |-> [c[i] EXCEPT !.enabled = TRUE]]  <=> Same(r, c)
<1> DEFINE Flat(q) == [i \in DOMAIN q |-> [q[i] EXCEPT !.enabled = TRUE]]
<1>1. Len(r) \in Nat /\ Len(c) \in Nat /\ DOMAIN r = 1..Len(r) /\ DOMAIN c = 1..Len(c)
  OBVIOUS
<1>2. /\ \A i \in 1..Len(r) : r[i] \in Sources
      /\ \A i \in 1..Len(c) : c[i] \in Sources
  OBVIOUS
<1>3. ASSUME Same(r, c) PROVE Flat(r) = Flat(c)
  <2>1. \A i \in 1..Len(r) : [r[i] EXCEPT !.enabled = TRUE] = [c[i] EXCEPT !.enabled = TRUE]
    BY <1>2, <1>3, FlagForgotten DEF Same
  <2>q. QED BY <1>1, <1>3, <2>1 DEF Same
<1>4. ASSUME Flat(r) = Flat(c) PROVE Same(r, c)
  <2>1. DOMAIN Flat(r) = 1..Len(r) /\ DOMAIN Flat(c) = 1..Len(c)
    BY <1>1
  <2>2. 1..Len(r) = 1..Len(c)
    BY <1>4, <2>1
  <2>3. Len(r) = Len(c)
    BY <1>1, <2>2, IntervalsAreEqual
  <2>4. ASSUME NEW i \in 1..Len(r) PROVE r[i].id = c[i].id /\ r[i].url = c[i].url
    <3>1. Flat(r)[i] = [r[i] EXCEPT !.enabled = TRUE] /\ Flat(c)[i] = [c[i] EXCEPT !.enabled = TRUE]
      BY <1>1, <2>3
    <3>2. [r[i] EXCEPT !.enabled = TRUE] = [c[i] EXCEPT !.enabled = TRUE]
      BY <1>4, <3>1
    <3>3. r[i] \in Sources /\ c[i] \in Sources
      BY <1>2, <2>3
    <3>q. QED BY <3>2, <3>3, FlagForgotten
  <2>q. QED BY <2>3, <2>4 DEF Same
<1>q. QED BY <1>3, <1>4

-----------------------------------------------------------------------------
(* The inductive invariant                                                 *)

\* A list of repositories never outgrows the screen.
SizesOK == Fits(config) /\ Fits(configFile.settings)

\* Without a process there is no screen and no save under way.
ScreenOK == process = "off" => ~onScreen /\ ~saving

\* What was pressed is in memory until the save ends, and in the file then.
SavedOK ==
  /\ saving /\ seen.known => Applied(config) = seen.settings /\ IsUtf8(config)
  /\ ~saving /\ seen.known /\ ~cutShort /\ NoFaultYet =>
        /\ configFile.text = "json" /\ configFile.breaksAt = "nowhere"
        /\ Applied(configFile.settings) = seen.settings

IInv == TypeOK /\ SizesOK /\ ScreenOK /\ SavedOK

LEMMA InitInv == ASSUME Init PROVE IInv
<1>1. StorageTypeOK
  BY MaxFaultsIsNat DEF Init, StorageInit, StorageTypeOK
<1>2. configFile \in Files /\ Fits(configFile.settings) /\ config = Defaults /\ Fits(Defaults)
  BY HandwrittenFits, DefaultsFit DEF Init, ConfigInit
<1>3. rows \in Seq(Sources) /\ Len(rows) <= MaxRows
  BY MaxRowsHoldFile DEF Init
<1>4. ids \in 0..MaxIds
  BY MaxIdsIsNat DEF Init
<1>5. seen = Nothing /\ Nothing \in [known : BOOLEAN, settings : SettingsData] /\ ~seen.known
  BY <1>2 DEF Init, Nothing, Fits
<1>6. TypeOK
  BY <1>1, <1>2, <1>3, <1>4, <1>5 DEF Init, TypeOK, ConfigTypeOK, Fits
<1>q. QED BY <1>2, <1>5, <1>6 DEF Init, IInv, SizesOK, ScreenOK, SavedOK

\* A mutation of the file system, failed or not, stays within the budget, and
\* none that failed is forgotten.
LEMMA MutationKept ==
  ASSUME StorageTypeOK, NEW fails \in BOOLEAN, Mutation(fails)
  PROVE  StorageTypeOK' /\ (NoFaultYet' => NoFaultYet /\ ~fails)
BY MaxFaultsIsNat DEF StorageTypeOK, Mutation, NoFaultYet

LEMMA BootKeeps == ASSUME IInv, Boot PROVE IInv'
<1> USE DEF IInv, Boot
<1>1. PICK fails \in BOOLEAN :
         /\ Mutation(fails)
         /\ config' = IF fails \/ configFile.text # "json" THEN Defaults ELSE FromJson(configFile)
         /\ configFile' = configFile
  BY DEF Load
<1>2. StorageTypeOK' /\ (NoFaultYet' => NoFaultYet)
  BY <1>1, MutationKept DEF TypeOK
<1>3. Fits(config)'
  <2>1. configFile \in Files /\ Fits(configFile.settings)
    BY DEF TypeOK, ConfigTypeOK, SizesOK
  <2>2. config' = Defaults \/ config' = FromJson(configFile)
    BY <1>1
  <2>3. Fits(config') <=> Fits(config)'
    BY DEF Fits
  <2>q. QED BY <2>1, <2>2, <2>3, DefaultsFit, FromJsonFits
<1>4. TypeOK'
  BY <1>1, <1>2, <1>3 DEF TypeOK, ConfigTypeOK, screenVars, Fits
<1>5. SizesOK'
  BY <1>1, <1>3 DEF SizesOK, Fits
<1>6. ScreenOK' /\ SavedOK'
  BY <1>1, <1>2 DEF ScreenOK, SavedOK, screenVars, Applied
<1>q. QED BY <1>4, <1>5, <1>6

\* The end of a process keeps what is on disk.
LEMMA EndKeeps == ASSUME IInv, Exit \/ Crash PROVE IInv'
<1> USE DEF IInv
<1>1. /\ process' = "off" /\ config' = Defaults /\ onScreen' = FALSE /\ rows' = <<>>
      /\ verifyToggle' = TRUE /\ ids' = 0 /\ configFile' = configFile /\ faults' = faults
      /\ seen' = seen /\ saving' = FALSE
      /\ (saving => cutShort' = TRUE) /\ (~saving => cutShort' = cutShort)
  BY DEF Exit, Crash, Forget, TypeOK
<1>2. TypeOK'
  <2>1. Defaults \in SettingsData /\ 0 \in 0..MaxIds /\ <<>> \in Seq(Sources) /\ Len(<<>>) <= MaxRows
    BY DefaultsFit, MaxIdsIsNat, MaxRowsHoldFile DEF Fits
  <2>2. cutShort' \in BOOLEAN /\ StorageTypeOK' /\ seen' \in [known : BOOLEAN, settings : SettingsData]
    BY <1>1 DEF TypeOK, StorageTypeOK
  <2>q. QED BY <1>1, <2>1, <2>2 DEF TypeOK, ConfigTypeOK
<1>3. SizesOK'
  BY <1>1, DefaultsFit DEF SizesOK, Fits
<1>4. ScreenOK' /\ SavedOK'
  BY <1>1 DEF ScreenOK, SavedOK, NoFaultYet, Applied, TypeOK
<1>q. QED BY <1>2, <1>3, <1>4

\* Between two saves, with the file and the process as they are, what was saved
\* does not depend on what is shown or changed in memory.
LEMMA IdleKeepsSaved ==
  ASSUME IInv, Idle,
         UNCHANGED <<configFile, faults, process, saving, seen, cutShort>>
  PROVE  ScreenOK' /\ SavedOK'
BY DEF IInv, Idle, ScreenOK, SavedOK, NoFaultYet, Applied

LEMMA ShownKeeps ==
  ASSUME IInv, Enter \/ ToggleVerify \/ \E i \in DOMAIN rows : ToggleRow(i)
  PROVE  IInv'
<1> USE DEF IInv
<1>1. /\ Idle
      /\ UNCHANGED <<configFile, config, faults, process, saving, ids, seen, cutShort>>
      /\ onScreen' \in BOOLEAN
  BY DEF Enter, ToggleVerify, ToggleRow, Shows, configVars, TypeOK
<1>2. rows' \in Seq(Sources) /\ Len(rows') <= MaxRows /\ verifyToggle' \in BOOLEAN
  <2>1. CASE Enter
    BY <2>1 DEF Enter, TypeOK, ConfigTypeOK, SizesOK, Fits, SettingsData
  <2>2. CASE ToggleVerify
    BY <2>2 DEF ToggleVerify, TypeOK
  <2>3. ASSUME NEW k \in DOMAIN rows, ToggleRow(k)
        PROVE  rows' \in Seq(Sources) /\ Len(rows') <= MaxRows /\ verifyToggle' \in BOOLEAN
    <3>1. [rows[k] EXCEPT !.enabled = ~@] \in Sources
      <4>1. rows[k] \in Sources
        BY DEF TypeOK
      <4>2. (~rows[k].enabled) \in BOOLEAN
        OBVIOUS
      <4>q. QED BY <4>1, <4>2 DEF Sources
    <3>2. rows' = [rows EXCEPT ![k] = [rows[k] EXCEPT !.enabled = ~@]]
      BY <2>3 DEF ToggleRow
    <3> DEFINE row == [rows[k] EXCEPT !.enabled = ~@]
    <3> HIDE DEF row
    <3>3. [rows EXCEPT ![k] = row] \in Seq(Sources) /\ Len([rows EXCEPT ![k] = row]) = Len(rows)
      BY <3>1 DEF TypeOK, row
    <3>q. QED BY <2>3, <3>2, <3>3 DEF ToggleRow, TypeOK, row
  <2>q. QED BY <2>1, <2>2, <2>3
<1>3. TypeOK'
  BY <1>1, <1>2 DEF TypeOK, ConfigTypeOK, StorageTypeOK
<1>4. SizesOK'
  BY <1>1 DEF SizesOK, Fits
<1>q. QED BY <1>1, <1>3, <1>4, IdleKeepsSaved

LEMMA RemoveKeeps == ASSUME IInv, NEW k \in DOMAIN rows, RemoveRow(k) PROVE IInv'
<1> USE DEF IInv
<1>1. /\ Idle
      /\ UNCHANGED <<configFile, faults, process, onScreen, verifyToggle, saving, seen, cutShort, ids>>
  BY DEF RemoveRow, Edits
<1>2. rows' \in Seq(Sources) /\ Len(rows') <= MaxRows
  <2>1. rows \in Seq(Sources) /\ Len(rows) <= MaxRows /\ Len(rows) \in Nat
    BY DEF TypeOK
  <2>2. rows' = EraseRow(k) /\ EraseRow(k) \in Seq(Sources) /\ Len(EraseRow(k)) <= Len(rows)
    BY <2>1, EraseTyped DEF RemoveRow
  <2>3. Len(EraseRow(k)) \in Nat
    BY <2>2
  <2>q. QED BY <2>1, <2>2, <2>3, MaxRowsHoldFile
<1>3. config' \in SettingsData /\ Len(config'.repositories) <= MaxRows
  <2> DEFINE list == config.repositories
             W == {s \in Sources : s.id # rows[k].id}
             left == Among(list, W)
  <2>1. list \in Seq(Sources) /\ Len(list) <= MaxRows /\ config.verify \in BOOLEAN /\ Len(list) \in Nat
    BY DEF TypeOK, ConfigTypeOK, SizesOK, Fits, SettingsData
  <2>2. config' = [verify |-> config.verify, repositories |-> left]
    BY DEF RemoveRow, Removed, TypeOK, ConfigTypeOK, SettingsData
  <2> HIDE DEF list, W
  <2>3. left \in Seq(Sources) /\ Len(left) <= Len(list)
    BY <2>1, AmongTyped
  <2> HIDE DEF left
  <2>4. Len(left) \in Nat
    BY <2>3
  <2>q. QED BY <2>1, <2>2, <2>3, <2>4, MaxRowsHoldFile DEF SettingsData
<1>4. TypeOK'
  BY <1>1, <1>2, <1>3 DEF TypeOK, ConfigTypeOK, StorageTypeOK
<1>5. SizesOK'
  BY <1>1, <1>3 DEF SizesOK, Fits
<1>q. QED BY <1>1, <1>4, <1>5, IdleKeepsSaved

LEMMA AddKeeps == ASSUME IInv, NEW url \in Urls, AddRepository(url) PROVE IInv'
<1> USE DEF IInv
<1> DEFINE new == [id |-> ids + 1, url |-> url, enabled |-> TRUE]
<1>1. /\ Idle /\ ids < MaxIds /\ ids' = ids + 1
      /\ Len(rows) < MaxRows /\ Len(config.repositories) < MaxRows
      /\ UNCHANGED <<configFile, faults, process, onScreen, verifyToggle, saving, seen, cutShort>>
  BY DEF AddRepository, Edits
<1>2. ids \in Nat /\ ids' \in 0..MaxIds /\ new \in Sources
  BY <1>1, MaxIdsIsNat DEF TypeOK, Sources
<1>3. /\ rows \in Seq(Sources) /\ config.repositories \in Seq(Sources) /\ config.verify \in BOOLEAN
      /\ rows' = Append(rows, new)
      /\ config' = [verify |-> config.verify, repositories |-> Append(config.repositories, new)]
  BY DEF TypeOK, ConfigTypeOK, SettingsData, AddRepository, Added
<1> HIDE DEF new
<1>4. \A list \in Seq(Sources) :
         Len(list) < MaxRows => Append(list, new) \in Seq(Sources) /\ Len(Append(list, new)) <= MaxRows
  <2>1. ASSUME NEW list \in Seq(Sources), Len(list) < MaxRows
        PROVE  Append(list, new) \in Seq(Sources) /\ Len(Append(list, new)) <= MaxRows
    <3>1. Append(list, new) \in Seq(Sources) /\ Len(Append(list, new)) = Len(list) + 1
      BY <1>2
    <3>q. QED BY <2>1, <3>1, MaxRowsHoldFile
  <2>q. QED BY <2>1
<1>5. rows' \in Seq(Sources) /\ Len(rows') <= MaxRows
  BY <1>1, <1>3, <1>4
<1>6. config' \in SettingsData /\ Len(config'.repositories) <= MaxRows
  <2> DEFINE more == Append(config.repositories, new)
  <2>1. more \in Seq(Sources) /\ Len(more) <= MaxRows
    BY <1>1, <1>3, <1>4
  <2>2. config' = [verify |-> config.verify, repositories |-> more]
    BY <1>3
  <2> HIDE DEF more
  <2>q. QED BY <1>3, <2>1, <2>2 DEF SettingsData
<1>7. TypeOK'
  BY <1>1, <1>2, <1>5, <1>6 DEF TypeOK, ConfigTypeOK, StorageTypeOK
<1>8. SizesOK'
  BY <1>1, <1>6 DEF SizesOK, Fits
<1>q. QED BY <1>1, <1>7, <1>8, IdleKeepsSaved

\* What Save makes of the settings in memory: the flags of the rows, and nothing
\* that was not there.
LEMMA PressSaveSets ==
  ASSUME IInv, PressSave
  PROVE  /\ Fits(config)'
         /\ Agree /\ Distinct(rows) =>
               config' = [verify |-> verifyToggle, repositories |-> rows]
         /\ IsUtf8(config) => IsUtf8(config)'
<1> DEFINE list == config.repositories
           next == ApplyRows(list)
<1>1. /\ rows \in Seq(Sources) /\ list \in Seq(Sources) /\ Len(list) <= MaxRows
      /\ verifyToggle \in BOOLEAN
  BY DEF IInv, TypeOK, ConfigTypeOK, SizesOK, Fits, SettingsData
<1>2. config' = [verify |-> verifyToggle, repositories |-> next]
  BY DEF PressSave
<1>3. /\ next \in Seq(Sources) /\ Len(next) = Len(list)
      /\ \A i \in 1..Len(list) : next[i].url = list[i].url
  <2> HIDE DEF list
  <2>q. QED BY <1>1, ApplyRowsTyped
<1>4. ASSUME Agree, Distinct(rows) PROVE next = rows
  <2>1. Same(rows, list)
    BY <1>1, <1>4, SameIs DEF Agree
  <2>2. /\ Len(list) = Len(rows)
        /\ \A i \in 1..Len(rows) : list[i].id = rows[i].id /\ list[i].url = rows[i].url
    BY <2>1 DEF Same
  <2> HIDE DEF list
  <2>q. QED BY <1>1, <1>4, <2>2, ApplyRowsSets
<1>5. IsUtf8(config) => \A i \in DOMAIN next : next[i].url \notin NotUtf8
  <2>1. DOMAIN next = 1..Len(list) /\ DOMAIN list = 1..Len(list)
    <3> HIDE DEF next
    <3>q. QED BY <1>1, <1>3
  <2> HIDE DEF next
  <2>q. QED BY <1>3, <2>1 DEF IsUtf8
<1> HIDE DEF next
<1>6. Fits(config)'
  BY <1>1, <1>2, <1>3 DEF Fits, SettingsData
<1>7. IsUtf8(config) => IsUtf8(config)'
  BY <1>2, <1>5 DEF IsUtf8
<1>q. QED BY <1>2, <1>4, <1>6, <1>7

LEMMA PressKeeps == ASSUME IInv, PressSave PROVE IInv'
<1> USE DEF IInv
<1>1. /\ process = "running" /\ ~saving /\ saving' \in BOOLEAN
      /\ UNCHANGED <<process, onScreen, rows, verifyToggle, ids, cutShort>>
  BY DEF PressSave, Idle, screenVars, TypeOK
<1>2. \/ configFile' = NoText("cut") /\ saving' /\ faults' = faults
      \/ configFile' = configFile /\ saving' = saving /\ Mutation(TRUE)
  BY DEF PressSave, SaveOpens, SaveCannotOpen
<1>3. StorageTypeOK' /\ (~saving' => ~NoFaultYet')
  BY <1>1, <1>2, MutationKept DEF TypeOK, StorageTypeOK
<1>4. Fits(config)'
  BY PressSaveSets
<1>5. configFile' \in Files /\ Fits(configFile.settings)'
  <2>1. Fits(NoText("cut").settings)
    BY DefaultsFit DEF NoText
  <2>q. QED BY <1>2, <2>1, FilesAre DEF TypeOK, ConfigTypeOK, SizesOK, Fits
<1>6. seen' \in [known : BOOLEAN, settings : SettingsData]
  <2>1. Enabled(rows) \in Seq(Sources) /\ verifyToggle \in BOOLEAN
    BY AmongTyped DEF Enabled, TypeOK
  <2>2. [verify |-> verifyToggle, repositories |-> Enabled(rows)] \in SettingsData
    BY <2>1 DEF SettingsData
  <2>q. QED BY <2>2, DefaultsFit DEF PressSave, Known, Nothing, Fits
<1>7. TypeOK'
  BY <1>1, <1>3, <1>4, <1>5, <1>6 DEF TypeOK, ConfigTypeOK, Fits
<1>8. SizesOK'
  BY <1>4, <1>5 DEF SizesOK
<1>9. ScreenOK'
  BY <1>1 DEF ScreenOK
<1>10. saving' /\ seen'.known => Applied(config)' = seen'.settings /\ IsUtf8(config)'
  <2>1. SUFFICES ASSUME seen'.known PROVE Applied(config)' = seen'.settings /\ IsUtf8(config)'
    OBVIOUS
  <2>2. /\ Agree /\ Distinct(rows) /\ IsUtf8(config)
        /\ seen'.settings = [verify |-> verifyToggle, repositories |-> Enabled(rows)]
    BY <2>1 DEF PressSave, Known, Nothing
  <2>3. config' = [verify |-> verifyToggle, repositories |-> rows] /\ IsUtf8(config)'
    BY <2>2, PressSaveSets
  <2>4. Applied(config)' = [verify |-> verifyToggle, repositories |-> Enabled(rows)]
    <3>1. Applied(config)' = [config' EXCEPT !.repositories = Enabled(@)]
      BY DEF Applied
    <3>q. QED BY <2>3, <3>1
  <2>q. QED BY <2>2, <2>3, <2>4
<1>11. SavedOK'
  BY <1>3, <1>10 DEF SavedOK
<1>q. QED BY <1>7, <1>8, <1>9, <1>11

LEMMA FinishKeeps == ASSUME IInv, FinishSave PROVE IInv'
<1> USE DEF IInv
<1>1. /\ process = "running" /\ saving /\ ~saving' /\ ~cutShort'
      /\ saving' \in BOOLEAN /\ cutShort' \in BOOLEAN
      /\ UNCHANGED <<config, process, onScreen, rows, verifyToggle, ids, seen>>
  BY DEF FinishSave, SaveWrites, screenVars
<1>2. PICK fails \in BOOLEAN :
         /\ Mutation(fails)
         /\ configFile' = IF fails \/ ~IsUtf8(config) THEN NoText("cut") ELSE Json(config)
  BY DEF FinishSave, SaveWrites
<1>3. StorageTypeOK' /\ (NoFaultYet' => ~fails)
  BY <1>2, MutationKept DEF TypeOK
<1>4. configFile' \in Files /\ Fits(configFile.settings)'
  <2>1. Fits(NoText("cut").settings) /\ Json(config).settings = config
    BY DefaultsFit DEF NoText, Json
  <2>q. QED BY <1>2, <2>1, FilesAre DEF TypeOK, ConfigTypeOK, SizesOK, Fits
<1>5. TypeOK'
  BY <1>1, <1>3, <1>4 DEF TypeOK, ConfigTypeOK
<1>6. SizesOK'
  BY <1>1, <1>4 DEF SizesOK, Fits
<1>7. SavedOK'
  <2>1. SUFFICES ASSUME seen'.known, NoFaultYet'
        PROVE /\ configFile'.text = "json" /\ configFile'.breaksAt = "nowhere"
              /\ Applied(configFile'.settings) = seen'.settings
    BY <1>1 DEF SavedOK, Applied, Enabled, Among
  <2>2. Applied(config) = seen.settings /\ IsUtf8(config)
    BY <1>1, <2>1 DEF SavedOK
  <2>3. configFile' = Json(config)
    BY <1>2, <1>3, <2>1, <2>2
  <2>q. QED BY <1>1, <2>2, <2>3 DEF Json
<1>q. QED BY <1>1, <1>5, <1>6, <1>7 DEF ScreenOK

LEMMA StutterKeeps == ASSUME IInv, UNCHANGED vars PROVE IInv'
<1>1. /\ config' = config /\ configFile' = configFile /\ faults' = faults /\ process' = process
      /\ onScreen' = onScreen /\ rows' = rows /\ verifyToggle' = verifyToggle /\ saving' = saving
      /\ ids' = ids /\ seen' = seen /\ cutShort' = cutShort
  BY DEF vars, configVars, screenVars
<1>2. TypeOK'
  BY <1>1 DEF IInv, TypeOK, StorageTypeOK, ConfigTypeOK
<1>3. SizesOK' /\ ScreenOK'
  BY <1>1 DEF IInv, SizesOK, ScreenOK, Fits
<1>4. SavedOK'
  BY <1>1 DEF IInv, SavedOK, NoFaultYet, IsUtf8, Applied, Enabled, Among
<1>q. QED BY <1>2, <1>3, <1>4 DEF IInv

LEMMA NextInv == ASSUME IInv, [Next]_vars PROVE IInv'
<1>1. CASE Boot
  BY <1>1, BootKeeps
<1>2. CASE Exit \/ Crash
  BY <1>2, EndKeeps
<1>3. CASE Enter \/ ToggleVerify \/ \E i \in DOMAIN rows : ToggleRow(i)
  BY <1>3, ShownKeeps
<1>4. CASE \E i \in DOMAIN rows : RemoveRow(i)
  BY <1>4, RemoveKeeps
<1>5. CASE \E url \in Urls : AddRepository(url)
  BY <1>5, AddKeeps
<1>6. CASE PressSave
  BY <1>6, PressKeeps
<1>7. CASE FinishSave
  BY <1>7, FinishKeeps
<1>8. CASE UNCHANGED vars
  BY <1>8, StutterKeeps
<1>q. QED BY <1>1, <1>2, <1>3, <1>4, <1>5, <1>6, <1>7, <1>8 DEF Next

LEMMA Invariance == Spec => []IInv
<1>1. Init => IInv
  BY InitInv
<1>2. IInv /\ [Next]_vars => IInv'
  BY NextInv
<1>q. QED BY <1>1, <1>2, PTL DEF Spec

-----------------------------------------------------------------------------
(* Rows and settings                                                       *)

\* Each button makes the same of both lists.
LEMMA ButtonsMirror ==
  ASSUME IInv, Next, onScreen', onScreen /\ process = "running" => Agree /\ Distinct(rows)
  PROVE  Agree'
<1>1. rows \in Seq(Sources) /\ config.repositories \in Seq(Sources)
  BY DEF IInv, TypeOK, ConfigTypeOK, SettingsData
<1>2. rows' \in Seq(Sources) /\ config'.repositories \in Seq(Sources)
  BY NextInv DEF IInv, TypeOK, ConfigTypeOK, SettingsData
<1>3. Agree <=> Same(rows, config.repositories)
  BY <1>1, SameIs DEF Agree
<1>4. Agree' <=> Same(rows', config'.repositories)
  <2> DEFINE r == rows'
             c == config'.repositories
  <2>1. Agree' <=> [i \in DOMAIN r |-> [r[i] EXCEPT !.enabled = TRUE]]
                     = [i \in DOMAIN c |-> [c[i] EXCEPT !.enabled = TRUE]]
    BY DEF Agree
  <2>2. r \in Seq(Sources) /\ c \in Seq(Sources)
    BY <1>2
  <2> HIDE DEF r, c
  <2>3. Agree' <=> Same(r, c)
    BY <2>1, <2>2, SameIs
  <2>q. QED BY <2>3 DEF r, c
<1>5. CASE Boot
  BY <1>5 DEF Boot, screenVars, IInv, ScreenOK
<1>6. CASE Exit \/ Crash
  BY <1>6 DEF Exit, Crash, Forget
<1>7. CASE Enter
  BY <1>2, <1>4, <1>7 DEF Enter, configVars, Same
<1>8. CASE ToggleVerify \/ FinishSave
  <2>1. rows' = rows /\ config' = config /\ onScreen' = onScreen /\ process = "running"
    BY <1>8 DEF ToggleVerify, FinishSave, Shows, Idle, configVars, SaveWrites, screenVars
  <2>q. QED BY <1>3, <1>4, <2>1
<1>9. ASSUME NEW k \in DOMAIN rows, ToggleRow(k) PROVE Agree'
  <2>1. config' = config /\ onScreen /\ process = "running"
    BY <1>9 DEF ToggleRow, Shows, Idle, configVars
  <2>2. rows' = [rows EXCEPT ![k].enabled = ~@]
    BY <1>9 DEF ToggleRow
  <2>3. Len(rows') = Len(rows)
    BY <1>1, <2>2
  <2>4. ASSUME NEW i \in 1..Len(rows) PROVE rows'[i].id = rows[i].id /\ rows'[i].url = rows[i].url
    <3>1. rows[i] \in Sources
      BY <1>1
    <3>q. QED BY <1>1, <2>2, <3>1 DEF Sources
  <2>q. QED BY <1>3, <1>4, <2>1, <2>3, <2>4 DEF Same
<1>10. ASSUME NEW k \in DOMAIN rows, RemoveRow(k) PROVE Agree'
  <2> DEFINE list == config.repositories
             W == {s \in Sources : s.id # rows[k].id}
             left == Among(list, W)
             L == Len(rows)
  <2>1. Same(rows, list) /\ Distinct(rows)
    BY <1>3, <1>10 DEF RemoveRow, Edits, Idle
  <2>2. /\ rows' = EraseRow(k)
        /\ config'.repositories = left
    BY <1>10 DEF RemoveRow, Removed, IInv, TypeOK, ConfigTypeOK, SettingsData
  <2>3. L \in Nat /\ k \in 1..L /\ DOMAIN list = 1..L /\ Len(list) = L /\ DOMAIN rows = 1..L
    BY <1>1, <2>1 DEF Same
  <2>4. \A i \in 1..L : list[i].id = rows[i].id /\ list[i].url = rows[i].url /\ list[i] \in Sources
    BY <1>1, <2>1, <2>3 DEF Same
  <2> HIDE DEF list, L
  <2>5. list[k] \notin W /\ \A i \in 1..L \ {k} : list[i] \in W
    BY <2>1, <2>3, <2>4 DEF Distinct
  <2> HIDE DEF W
  <2>6. /\ Len(left) = L - 1
        /\ \A i \in 1..(L - 1) : left[i] = IF i < k THEN list[i] ELSE list[i + 1]
    <3>1. list \in Seq(Sources)
      BY <1>1 DEF list
    <3>q. QED BY <2>3, <2>5, <3>1, AmongButOne
  <2>7. /\ Len(EraseRow(k)) = L - 1
        /\ \A i \in 1..(L - 1) : EraseRow(k)[i] = IF i < k THEN rows[i] ELSE rows[i + 1]
    BY <1>1, <2>1, EraseOne DEF L
  <2> HIDE DEF left
  <2>8. ASSUME NEW i \in 1..(L - 1)
        PROVE  EraseRow(k)[i].id = left[i].id /\ EraseRow(k)[i].url = left[i].url
    <3>1. i \in 1..L /\ i + 1 \in 1..L
      BY <2>3
    <3>q. QED BY <2>4, <2>6, <2>7, <3>1
  <2>q. QED BY <1>4, <2>2, <2>6, <2>7, <2>8 DEF Same
<1>11. ASSUME NEW url \in Urls, AddRepository(url) PROVE Agree'
  <2> DEFINE new == [id |-> ids + 1, url |-> url, enabled |-> TRUE]
             list == config.repositories
  <2>1. Same(rows, list)
    BY <1>3, <1>11 DEF AddRepository, Edits, Idle
  <2>2. rows' = Append(rows, new) /\ config'.repositories = Append(list, new)
    BY <1>11 DEF AddRepository, Added, IInv, TypeOK, ConfigTypeOK, SettingsData
  <2>3. new \in Sources
    BY <1>11, MaxIdsIsNat DEF AddRepository, Sources, IInv, TypeOK
  <2> HIDE DEF new
  <2>4. rows \in Seq(Sources) /\ list \in Seq(Sources)
    BY <1>1
  <2> HIDE DEF list
  <2>5. Same(Append(rows, new), Append(list, new))
    <3>1. Len(rows) = Len(list) /\ Len(rows) \in Nat
      BY <2>1, <2>4 DEF Same
    <3>2. Len(Append(rows, new)) = Len(rows) + 1 /\ Len(Append(list, new)) = Len(rows) + 1
      BY <2>3, <2>4, <3>1
    <3>3. ASSUME NEW i \in 1..(Len(rows) + 1)
          PROVE  /\ Append(rows, new)[i].id = Append(list, new)[i].id
                 /\ Append(rows, new)[i].url = Append(list, new)[i].url
      <4>1. CASE i = Len(rows) + 1
        <5>1. Append(rows, new)[i] = new /\ Append(list, new)[i] = new
          BY <2>3, <2>4, <3>1, <4>1
        <5>q. QED BY <5>1
      <4>2. CASE i \in 1..Len(rows)
        <5>1. Append(rows, new)[i] = rows[i] /\ Append(list, new)[i] = list[i]
          BY <2>3, <2>4, <3>1, <4>2
        <5>q. QED BY <2>1, <4>2, <5>1 DEF Same
      <4>q. QED BY <3>1, <4>1, <4>2
    <3>q. QED BY <3>2, <3>3 DEF Same
  <2>q. QED BY <1>4, <2>2, <2>5
<1>12. CASE PressSave
  <2> DEFINE list == config.repositories
             next == ApplyRows(list)
  <2>1. Same(rows, list)
    BY <1>3, <1>12 DEF PressSave, Idle, screenVars
  <2>2. rows' = rows /\ config'.repositories = next
    BY <1>12 DEF PressSave, screenVars
  <2>3. list \in Seq(Sources)
    BY <1>1
  <2> HIDE DEF list
  <2>4. /\ Len(next) = Len(list)
        /\ \A i \in 1..Len(list) : next[i].id = list[i].id /\ next[i].url = list[i].url
    BY <1>1, <2>3, ApplyRowsTyped
  <2> HIDE DEF next
  <2>5. Same(rows, next)
    BY <2>1, <2>4 DEF Same
  <2>q. QED BY <1>4, <2>2, <2>5
<1>q. QED BY <1>5, <1>6, <1>7, <1>8, <1>9, <1>10, <1>11, <1>12 DEF Next

-----------------------------------------------------------------------------
(* Theorems                                                                *)

\* The settings in memory, the file and the rows of the screen are always what
\* the code takes them for: no text of config.json and no order of the buttons
\* makes a list longer than the screen has room for.
THEOREM SettingsTypeCorrect == Spec => []TypeOK
<1>1. IInv => TypeOK
  BY DEF IInv
<1>q. QED BY <1>1, Invariance, PTL

\* Whatever the lists of repositories, each button of the screen does the same
\* to the rows as to the settings, as long as no id occurs twice.
THEOREM RowsFollowSettings == Spec => RowsMirrorConfig
<1>1. IInv /\ [Next]_vars =>
         [onScreen' /\ (onScreen /\ process = "running" => Agree /\ Distinct(rows)) => Agree']_vars
  BY ButtonsMirror
<1>q. QED BY <1>1, Invariance, PTL DEF Spec, RowsMirrorConfig

\* What the screen showed when Save was last pressed is what the next start of
\* the client applies, unless storage failed, the process died in the middle of
\* the save, two repositories shared an id or a text was not UTF-8.
THEOREM NextStartAppliesScreen == Spec => NextStartFollowsScreen
<1>1. ASSUME IInv, Next, process = "off", process' = "running", seen.known, ~cutShort, NoFaultYet'
      PROVE  Applied(config') = seen.settings
  <2>1. Boot
    BY <1>1 DEF Next, Exit, Crash, Enter, ToggleVerify, ToggleRow, RemoveRow, AddRepository,
                PressSave, FinishSave, Shows, Edits, Idle
  <2>2. PICK fails \in BOOLEAN :
           /\ Mutation(fails)
           /\ config' = IF fails \/ configFile.text # "json" THEN Defaults ELSE FromJson(configFile)
    BY <2>1 DEF Boot, Load
  <2>3. NoFaultYet /\ ~fails
    BY <1>1, <2>2, MutationKept DEF IInv, TypeOK
  <2>4. /\ configFile.text = "json" /\ configFile.breaksAt = "nowhere"
        /\ Applied(configFile.settings) = seen.settings
    BY <1>1, <2>3 DEF IInv, ScreenOK, SavedOK
  <2>5. config' = configFile.settings
    BY <2>2, <2>3, <2>4 DEF FromJson
  <2>q. QED BY <2>4, <2>5
<1>2. IInv /\ [Next]_vars =>
         [process = "off" /\ process' = "running" /\ seen.known /\ ~cutShort /\ NoFaultYet' =>
            Applied(config') = seen.settings]_vars
  BY <1>1
<1>q. QED BY <1>2, Invariance, PTL DEF Spec, NextStartFollowsScreen
=============================================================================
