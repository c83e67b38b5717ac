----------------------- MODULE LogBroadcasterProofs ------------------------
(***************************************************************************)
(* Proofs about LogBroadcaster, for any finite set of subscribers, any     *)
(* channel capacity and any number of lines.                               *)
(***************************************************************************)
EXTENDS LogBroadcaster, FiniteSetTheorems, TLAPS

(***************************************************************************)
(* The inductive invariant.                                                *)
(***************************************************************************)

In == {s \in Subs : state[s] = "in"}

\* The slice as it was when the lock was last free.
List == IF Unlocked THEN arr[hdr.cap] ELSE move.old

\* It lists the subscribers, each once, and its done channels are open.
Exact ==
  /\ \A k \in 1..hdr.len : List[k] \in In
  /\ \A s \in In : \E k \in 1..hdr.len : List[k] = s
  /\ \A k, l \in 1..hdr.len : List[k] = List[l] => k = l
  /\ hdr.len = Cardinality(In)
  /\ \A s \in Subs : done[s] <=> state[s] = "out"

\* An Unsubscribe at work: subscriber move.sub was at position p, the cells from p
\* on that it has dealt with hold what was behind them, the others what they held.
Shifting ==
  /\ Unlocked => move.todo = {}
  /\ ~Unlocked =>
       \E p \in 1..hdr.len :
         /\ move.old[p] = move.sub /\ move.todo \subseteq p..(hdr.len - 1)
         /\ \A k \in 1..hdr.len :
              arr[hdr.cap][k] = IF k \in (p..(hdr.len - 1)) \ move.todo
                                THEN move.old[k + 1] ELSE move.old[k]

\* What Publish walks through is an array that is in use or was given up, and
\* holds subscribers only.
Walk ==
  pub.busy =>
    /\ line > 0 /\ pub.cap <= hdr.cap /\ pub.len <= pub.cap
    /\ \A k \in 1..pub.len : arr[pub.cap][k] \in Subs

\* Subscriber s has the line, or no room for it.
Served(s) == Got(s) \/ Len(ch[s]) >= BufferSize

\* Unless somebody leaves, every subscriber that the line is due to stays where it
\* is in that array, and has been served when Publish has passed it.
Undisturbed ==
  pub.busy /\ ~pub.moved =>
    /\ Unlocked /\ pub.len <= hdr.len
    /\ \A s \in pub.due :
         /\ state[s] = "in"
         /\ \E k \in 1..pub.len : arr[pub.cap][k] = s /\ (k < pub.i => Served(s))

Inv ==
  /\ TypeOK
  /\ Exact
  /\ Shifting
  /\ Walk
  /\ Undisturbed
  /\ UndisturbedGetTheLine

\* The sizes that bound the model.
LEMMA Sizes ==
  /\ Cardinality(Subs) \in Nat /\ MaxCap \in Nat /\ MaxCap = 2 * Cardinality(Subs)
  /\ BufferSize \in Nat /\ BufferSize > 0 /\ MaxLines \in Nat
BY ConstantsAssumption, FS_CardinalityType DEF MaxCap

\* The subscribers that are in are finitely many.
LEMMA InFacts ==
  /\ IsFiniteSet(In) /\ Cardinality(In) \in Nat /\ Cardinality(In) <= Cardinality(Subs)
<1>1. In \subseteq Subs /\ IsFiniteSet(Subs)
  BY ConstantsAssumption DEF In
<1> QED BY <1>1, FS_Subset, FS_CardinalityType

\* The header and the publisher's copy of it, as numbers.
LEMMA Numbers ==
  ASSUME TypeOK
  PROVE  /\ hdr.cap \in Nat /\ hdr.len \in Nat /\ hdr.len <= hdr.cap /\ hdr.cap <= MaxCap
         /\ pub.cap \in Nat /\ pub.len \in Nat /\ pub.i \in Nat /\ pub.i >= 1
         /\ pub.cap <= MaxCap /\ pub.len <= MaxCap /\ MaxCap \in Nat
<1>1. hdr \in [cap : Caps, len : Caps] /\ hdr.len <= hdr.cap
  BY DEF TypeOK
<1>2. pub.cap \in Caps /\ pub.len \in Caps /\ pub.i \in 1..MaxCap + 1
  BY DEF TypeOK
<1> QED BY <1>1, <1>2, Sizes DEF Caps

(***************************************************************************)
(* Subscribe.                                                              *)
(***************************************************************************)

\* What append does: the list has one element more, in the same array if there was
\* room in it; no array but the one in use has changed unless it is larger.
LEMMA Appended ==
  ASSUME Inv, NEW s \in Subs, Subscribe(s)
  PROVE  /\ state[s] = "new" /\ Unlocked /\ state' = [state EXCEPT ![s] = "in"]
         /\ UNCHANGED <<move, ch, done, pub, line, over, skipped>>
         /\ arr' \in [Caps -> [Cells -> Subs \cup {None}]]
         /\ hdr' \in [cap : Caps, len : Caps]
         /\ hdr'.len = hdr.len + 1 /\ hdr'.len <= hdr'.cap /\ hdr.cap <= hdr'.cap
         /\ \A k \in 1..hdr.len : arr'[hdr'.cap][k] = arr[hdr.cap][k]
         /\ arr'[hdr'.cap][hdr.len + 1] = s
         /\ \A c \in Caps, k \in Cells :
              c <= hdr.cap => \/ arr'[c][k] = arr[c][k]
                              \/ c = hdr.cap /\ k = hdr.len + 1 /\ arr'[c][k] = s
<1>1. /\ state[s] = "new" /\ Unlocked /\ state' = [state EXCEPT ![s] = "in"]
      /\ UNCHANGED <<move, ch, done, pub, line, over, skipped>>
  BY DEF Subscribe
<1>2. /\ hdr.cap \in Nat /\ hdr.len \in Nat /\ hdr.len <= hdr.cap /\ hdr.cap <= MaxCap
      /\ MaxCap \in Nat /\ MaxCap = 2 * Cardinality(Subs) /\ Cardinality(Subs) \in Nat
  BY Numbers, Sizes DEF Inv
<1>3. hdr.len + 1 <= Cardinality(Subs)
  <2>1. s \notin In /\ In \cup {s} \subseteq Subs /\ IsFiniteSet(In) /\ IsFiniteSet(Subs)
    BY <1>1, InFacts, ConstantsAssumption DEF In
  <2>2. Cardinality(In \cup {s}) = Cardinality(In) + 1 /\ IsFiniteSet(In \cup {s})
    BY <2>1, FS_AddElement
  <2>3. Cardinality(In \cup {s}) <= Cardinality(Subs)
    BY <2>1, <2>2, FS_Subset
  <2>4. hdr.len = Cardinality(In)
    BY DEF Inv, Exact
  <2> QED BY <2>2, <2>3, <2>4
<1>4. arr \in [Caps -> [Cells -> Subs \cup {None}]] /\ hdr \in [cap : Caps, len : Caps]
  BY DEF Inv, TypeOK
<1>5. hdr.len + 1 \in Cells /\ hdr.len + 1 \in Caps /\ hdr.cap \in Caps
  BY <1>2, <1>3 DEF Cells, Caps
<1>6. CASE hdr.len < hdr.cap
  <2>1. /\ arr' = [arr EXCEPT ![hdr.cap][hdr.len + 1] = s]
        /\ hdr' = [hdr EXCEPT !.len = hdr.len + 1]
    BY <1>6 DEF Subscribe
  <2>2. hdr' \in [cap : Caps, len : Caps] /\ hdr'.cap = hdr.cap /\ hdr'.len = hdr.len + 1
    BY <1>4, <1>5, <2>1
  <2>3. arr' = [arr EXCEPT ![hdr.cap] = [arr[hdr.cap] EXCEPT ![hdr.len + 1] = s]]
    BY <2>1
  <2>4. [arr[hdr.cap] EXCEPT ![hdr.len + 1] = s] \in [Cells -> Subs \cup {None}]
    BY <1>4, <1>5
  <2>5. arr' \in [Caps -> [Cells -> Subs \cup {None}]]
    BY <1>4, <2>3, <2>4
  <2>6. arr'[hdr.cap] = [arr[hdr.cap] EXCEPT ![hdr.len + 1] = s]
        /\ \A c \in Caps \ {hdr.cap} : arr'[c] = arr[c]
    BY <1>4, <1>5, <2>3
  <2>7. arr'[hdr.cap][hdr.len + 1] = s
        /\ \A k \in Cells \ {hdr.len + 1} : arr'[hdr.cap][k] = arr[hdr.cap][k]
    BY <1>4, <1>5, <2>6
  <2>8. \A k \in 1..hdr.len : k \in Cells /\ k # hdr.len + 1
    BY <1>2 DEF Cells
  <2>9. hdr'.len <= hdr'.cap /\ hdr.cap <= hdr'.cap
    BY <1>2, <1>6, <2>2
  <2> QED BY <1>1, <2>2, <2>5, <2>6, <2>7, <2>8, <2>9
<1>7. CASE ~(hdr.len < hdr.cap)
  <2> DEFINE c == NewCap(hdr.cap)
             row == [k \in Cells |-> IF k < hdr.len + 1 THEN arr[hdr.cap][k]
                                     ELSE IF k = hdr.len + 1 THEN s ELSE None]
  <2>1. arr' = [arr EXCEPT ![c] = row] /\ hdr' = [cap |-> c, len |-> hdr.len + 1]
    BY <1>7 DEF Subscribe
  <2>2. hdr.cap = hdr.len
    BY <1>2, <1>7
  <2>3. c \in Caps /\ hdr.cap < c /\ hdr.len + 1 <= c
    BY <1>2, <1>3, <2>2 DEF NewCap, Caps
  <2>4. row \in [Cells -> Subs \cup {None}]
    BY <1>4, <1>5
  <2>5. row[hdr.len + 1] = s /\ \A k \in 1..hdr.len : row[k] = arr[hdr.cap][k]
    <3>1. \A k \in 1..hdr.len : k \in Cells /\ k < hdr.len + 1
      BY <1>2 DEF Cells
    <3> QED BY <1>2, <1>5, <3>1
  <2> HIDE DEF c, row
  <2>6. arr' \in [Caps -> [Cells -> Subs \cup {None}]]
    BY <1>4, <2>1, <2>4, Zenon
  <2>7. arr'[c] = row /\ \A d \in Caps \ {c} : arr'[d] = arr[d]
    BY <1>4, <2>1, <2>3
  <2>8. /\ hdr' \in [cap : Caps, len : Caps] /\ hdr'.cap = c /\ hdr'.len = hdr.len + 1
        /\ c \in Nat
    BY <1>2, <1>5, <2>1, <2>3 DEF Caps
  <2>9. \A d \in Caps : d <= hdr.cap => d # c
    BY <1>2, <2>3, <2>8 DEF Caps
  <2>10. hdr'.len <= hdr'.cap /\ hdr.cap <= hdr'.cap
    BY <1>2, <2>3, <2>8
  <2> QED BY <1>1, <2>5, <2>6, <2>7, <2>8, <2>9, <2>10
<1> QED BY <1>6, <1>7

\* A subscriber arrives: the list gets one element more, and the publisher, which has
\* copied the length, does not see it.
LEMMA SubscribeStep == ASSUME Inv, NEW s \in Subs, Subscribe(s) PROVE Inv'
<1>1. /\ state[s] = "new" /\ Unlocked /\ state' = [state EXCEPT ![s] = "in"]
      /\ UNCHANGED <<move, ch, done, pub, line, over, skipped>>
      /\ arr' \in [Caps -> [Cells -> Subs \cup {None}]]
      /\ hdr' \in [cap : Caps, len : Caps]
      /\ hdr'.len = hdr.len + 1 /\ hdr'.len <= hdr'.cap /\ hdr.cap <= hdr'.cap
  BY Appended
<1>2. /\ \A k \in 1..hdr.len : arr'[hdr'.cap][k] = arr[hdr.cap][k]
      /\ arr'[hdr'.cap][hdr.len + 1] = s
  BY Appended
<1>3. \A c \in Caps, k \in Cells :
        c <= hdr.cap => \/ arr'[c][k] = arr[c][k]
                        \/ c = hdr.cap /\ k = hdr.len + 1 /\ arr'[c][k] = s
  BY Appended
<1>4. /\ hdr.cap \in Nat /\ hdr.len \in Nat /\ hdr.len <= hdr.cap /\ hdr.cap <= MaxCap
      /\ pub.cap \in Nat /\ pub.len \in Nat /\ pub.i \in Nat
      /\ pub.cap <= MaxCap /\ pub.len <= MaxCap /\ MaxCap \in Nat
  BY Numbers DEF Inv
<1>5. TypeOK'
  BY <1>1 DEF Inv, TypeOK
<1>6. Unlocked' /\ List = arr[hdr.cap] /\ List' = arr'[hdr'.cap]
  BY <1>1 DEF Unlocked, List
<1>7. In' = In \cup {s} /\ s \notin In
  BY <1>1 DEF In, Inv, TypeOK
<1>8. Exact'
  <2>1. /\ \A k \in 1..hdr.len : List[k] \in In
        /\ \A x \in In : \E k \in 1..hdr.len : List[k] = x
        /\ \A k, l \in 1..hdr.len : List[k] = List[l] => k = l
        /\ hdr.len = Cardinality(In)
        /\ \A x \in Subs : done[x] <=> state[x] = "out"
    BY DEF Inv, Exact
  <2>2. \A k \in 1..hdr'.len : k \in 1..hdr.len \/ k = hdr.len + 1
    BY <1>1, <1>4
  <2>3. \A k \in 1..hdr.len : k \in 1..hdr'.len
    BY <1>1, <1>4
  <2>4. hdr.len + 1 \in 1..hdr'.len
    BY <1>1, <1>4
  <2>5. \A k \in 1..hdr.len : List'[k] = List[k]
    BY <1>2, <1>6
  <2>6. List'[hdr.len + 1] = s
    BY <1>2, <1>6
  <2>7. \A k \in 1..hdr'.len : List'[k] \in In'
    BY <1>7, <2>1, <2>2, <2>5, <2>6
  <2>8. \A x \in In' : \E k \in 1..hdr'.len : List'[k] = x
    BY <1>7, <2>1, <2>3, <2>4, <2>5, <2>6
  <2>9. \A k, l \in 1..hdr'.len : List'[k] = List'[l] => k = l
    BY <1>7, <2>1, <2>2, <2>5, <2>6
  <2>10. hdr'.len = Cardinality(In')
    <3>1. Cardinality(In \cup {s}) = Cardinality(In) + 1
      BY <1>7, InFacts, FS_AddElement
    <3> QED BY <1>1, <1>7, <2>1, <3>1
  <2>11. \A x \in Subs : done'[x] <=> state'[x] = "out"
    BY <1>1, <2>1 DEF Inv, TypeOK
  <2> QED BY <2>7, <2>8, <2>9, <2>10, <2>11 DEF Exact
<1>9. Shifting'
  BY <1>1, <1>6 DEF Inv, Shifting
<1>10. Walk'
  <2> SUFFICES ASSUME pub.busy
               PROVE  /\ line > 0 /\ pub.cap <= hdr'.cap /\ pub.len <= pub.cap
                      /\ \A k \in 1..pub.len : arr'[pub.cap][k] \in Subs
    BY <1>1 DEF Walk
  <2>1. /\ line > 0 /\ pub.cap <= hdr.cap /\ pub.len <= pub.cap
        /\ \A k \in 1..pub.len : arr[pub.cap][k] \in Subs
    BY DEF Inv, Walk
  <2>2. pub.cap \in Caps /\ 1..pub.len \subseteq Cells /\ hdr'.cap \in Nat
    BY <1>1, <1>4 DEF Caps, Cells
  <2>3. pub.cap <= hdr'.cap
    BY <1>1, <1>4, <2>1, <2>2
  <2>4. \A k \in 1..pub.len : arr'[pub.cap][k] \in Subs
    BY <1>3, <2>1, <2>2
  <2> QED BY <2>1, <2>3, <2>4
<1>11. Undisturbed'
  <2> SUFFICES ASSUME pub.busy, ~pub.moved
               PROVE  /\ Unlocked' /\ pub.len <= hdr'.len
                      /\ \A x \in pub.due :
                           /\ state'[x] = "in"
                           /\ \E k \in 1..pub.len : /\ arr'[pub.cap][k] = x
                                                    /\ k < pub.i => Served(x)'
    BY <1>1 DEF Undisturbed
  <2>1. /\ pub.len <= hdr.len /\ pub.cap <= hdr.cap
        /\ \A x \in pub.due :
             /\ state[x] = "in"
             /\ \E k \in 1..pub.len : arr[pub.cap][k] = x /\ (k < pub.i => Served(x))
    BY DEF Inv, Undisturbed, Walk
  <2>2. \A x : Served(x)' = Served(x)
    BY <1>1 DEF Served, Got
  <2>3. \A k \in 1..pub.len : k \in Cells /\ k # hdr.len + 1
    BY <1>4, <2>1 DEF Cells
  <2>4. \A k \in 1..pub.len : arr'[pub.cap][k] = arr[pub.cap][k]
    BY <1>3, <1>4, <2>1, <2>3 DEF Caps
  <2>5. pub.due \subseteq Subs
    BY DEF Inv, TypeOK
  <2>6. \A x \in pub.due : state'[x] = "in"
    BY <1>1, <2>1, <2>5 DEF Inv, TypeOK
  <2>7. pub.len <= hdr'.len
    BY <1>1, <1>4, <2>1
  <2> QED BY <1>6, <2>1, <2>2, <2>4, <2>6, <2>7
<1>12. UndisturbedGetTheLine'
  BY <1>1 DEF Inv, UndisturbedGetTheLine
<1> QED BY <1>5, <1>8, <1>9, <1>10, <1>11, <1>12 DEF Inv

(***************************************************************************)
(* The unsubscribe function.                                               *)
(***************************************************************************)

\* It finds its subscriber in the list.
LEMMA PositionFacts ==
  ASSUME Inv, NEW s \in Subs, state[s] = "in", Unlocked
  PROVE  Position(s) \in 1..hdr.len /\ arr[hdr.cap][Position(s)] = s
<1>1. \E k \in 1..hdr.len : arr[hdr.cap][k] = s
  BY DEF Inv, Exact, In, List
<1> QED BY <1>1 DEF Position

\* From here on a Publish in progress may be disturbed.
LEMMA UnsubscribeStep == ASSUME Inv, NEW s \in Subs, Unsubscribe(s) PROVE Inv'
<1>1. /\ state[s] = "in" /\ Unlocked
      /\ move' = [sub |-> s, todo |-> Position(s)..(hdr.len - 1), old |-> arr[hdr.cap]]
      /\ pub' = [pub EXCEPT !.moved = pub.busy]
      /\ UNCHANGED <<arr, hdr, state, ch, done, line, over, skipped>>
  BY DEF Unsubscribe
<1>2. hdr.cap \in Nat /\ hdr.len \in Nat /\ hdr.len <= MaxCap /\ MaxCap \in Nat /\ hdr.cap \in Caps
  BY Numbers DEF Inv, TypeOK
<1>3. /\ move'.sub = s /\ move'.todo = Position(s)..(hdr.len - 1) /\ move'.old = arr[hdr.cap]
      /\ ~Unlocked'
  BY <1>1, ConstantsAssumption DEF Unlocked
<1>4. Position(s) \in 1..hdr.len /\ arr[hdr.cap][Position(s)] = s
  BY <1>1, PositionFacts
<1>5. /\ pub'.busy = pub.busy /\ pub'.cap = pub.cap /\ pub'.len = pub.len
      /\ pub'.moved = pub.busy
      /\ pub' \in [busy : BOOLEAN, cap : Caps, len : Caps, i : 1..MaxCap + 1,
                   due : SUBSET Subs, moved : BOOLEAN]
  BY <1>1, Zenon DEF Inv, TypeOK
<1>6. TypeOK'
  <2>1. Position(s)..(hdr.len - 1) \subseteq Cells
    BY <1>2, <1>4 DEF Cells
  <2>2. arr[hdr.cap] \in [Cells -> Subs \cup {None}]
    BY <1>2 DEF Inv, TypeOK
  <2>3. move' \in [sub : Subs \cup {None}, todo : SUBSET Cells, old : [Cells -> Subs \cup {None}]]
    BY <1>1, <2>1, <2>2
  <2> QED BY <1>1, <1>5, <2>3, Zenon DEF Inv, TypeOK
<1>7. Exact'
  <2>1. List' = List /\ In' = In
    BY <1>1, <1>3 DEF List, In
  <2> QED BY <1>1, <2>1 DEF Inv, Exact
<1>8. Shifting'
  <2>1. \A k \in 1..hdr.len : k \notin (Position(s)..(hdr.len - 1)) \ move'.todo
    BY <1>3
  <2> QED BY <1>1, <1>3, <1>4, <2>1 DEF Shifting
<1>9. Walk'
  BY <1>1, <1>5 DEF Inv, Walk
<1>10. Undisturbed'
  BY <1>5 DEF Undisturbed
<1>11. UndisturbedGetTheLine'
  BY <1>1 DEF Inv, UndisturbedGetTheLine
<1> QED BY <1>6, <1>7, <1>8, <1>9, <1>10, <1>11 DEF Inv

\* One cell is overwritten with the one behind it, which is a subscriber.
LEMMA MoveStep == ASSUME Inv, Move PROVE Inv'
<1>1. PICK m \in move.todo : /\ arr' = [arr EXCEPT ![hdr.cap][m] = move.old[m + 1]]
                             /\ move' = [move EXCEPT !.todo = @ \ {m}]
  BY Zenon DEF Move
<1>2. UNCHANGED <<hdr, state, ch, done, pub, line, over, skipped>>
  BY DEF Move
<1>3. /\ hdr.cap \in Nat /\ hdr.len \in Nat /\ hdr.len <= hdr.cap /\ hdr.cap <= MaxCap
      /\ pub.cap \in Nat /\ pub.len \in Nat /\ MaxCap \in Nat /\ hdr.cap \in Caps
      /\ pub.cap <= MaxCap /\ pub.len <= MaxCap
  BY Numbers DEF Inv, TypeOK
<1>4. /\ arr \in [Caps -> [Cells -> Subs \cup {None}]]
      /\ move \in [sub : Subs \cup {None}, todo : SUBSET Cells, old : [Cells -> Subs \cup {None}]]
  BY DEF Inv, TypeOK
<1>5. /\ move' \in [sub : Subs \cup {None}, todo : SUBSET Cells, old : [Cells -> Subs \cup {None}]]
      /\ move'.sub = move.sub /\ move'.old = move.old /\ move'.todo = move.todo \ {m}
      /\ Unlocked' = Unlocked
  BY <1>1, <1>4 DEF Unlocked
<1>6. ~Unlocked
  BY <1>1 DEF Inv, Shifting
<1>7. PICK p \in 1..hdr.len :
        /\ move.old[p] = move.sub /\ move.todo \subseteq p..(hdr.len - 1)
        /\ \A k \in 1..hdr.len :
             arr[hdr.cap][k] = IF k \in (p..(hdr.len - 1)) \ move.todo
                               THEN move.old[k + 1] ELSE move.old[k]
  BY <1>6 DEF Inv, Shifting
<1>8. m \in p..(hdr.len - 1) /\ m \in 1..hdr.len /\ m \in Cells /\ m + 1 \in 1..hdr.len
  <2>1. m \in p..(hdr.len - 1)
    BY <1>1, <1>7
  <2> QED BY <1>3, <1>7, <2>1 DEF Cells
<1>9. move.old[m + 1] \in Subs
  BY <1>6, <1>8 DEF Inv, Exact, List, In
<1>10. /\ arr' \in [Caps -> [Cells -> Subs \cup {None}]]
       /\ arr'[hdr.cap][m] = move.old[m + 1]
       /\ \A k \in Cells \ {m} : arr'[hdr.cap][k] = arr[hdr.cap][k]
       /\ \A c \in Caps \ {hdr.cap} : arr'[c] = arr[c]
  <2> DEFINE row == [arr[hdr.cap] EXCEPT ![m] = move.old[m + 1]]
  <2>1. arr' = [arr EXCEPT ![hdr.cap] = row]
    BY <1>1
  <2>2. row \in [Cells -> Subs \cup {None}] /\ row[m] = move.old[m + 1]
        /\ \A k \in Cells \ {m} : row[k] = arr[hdr.cap][k]
    BY <1>3, <1>4, <1>8, <1>9
  <2> HIDE DEF row
  <2> QED BY <1>3, <1>4, <2>1, <2>2
<1>11. TypeOK'
  BY <1>2, <1>5, <1>10 DEF Inv, TypeOK
<1>12. Exact'
  <2>1. List' = List /\ In' = In
    BY <1>2, <1>5, <1>6 DEF List, In
  <2> QED BY <1>2, <2>1 DEF Inv, Exact
<1>13. Shifting'
  <2>1. move'.old[p] = move'.sub /\ move'.todo \subseteq p..(hdr.len - 1)
    BY <1>5, <1>7
  <2>2. ASSUME NEW k \in 1..hdr.len
        PROVE  arr'[hdr.cap][k] = IF k \in (p..(hdr.len - 1)) \ move'.todo
                                  THEN move.old[k + 1] ELSE move.old[k]
    <3>1. k \in Cells
      BY <1>3 DEF Cells
    <3>2. CASE k = m
      BY <1>5, <1>8, <1>10, <3>2
    <3>3. CASE k # m
      BY <1>5, <1>7, <1>10, <3>1, <3>3
    <3> QED BY <3>2, <3>3
  <2> QED BY <1>2, <1>5, <1>6, <2>1, <2>2 DEF Shifting
<1>14. Walk'
  <2> SUFFICES ASSUME pub.busy, NEW k \in 1..pub.len PROVE arr'[pub.cap][k] \in Subs
    BY <1>2 DEF Inv, Walk
  <2>1. arr[pub.cap][k] \in Subs /\ k \in Cells /\ pub.cap \in Caps
    BY <1>3 DEF Inv, Walk, Cells, Caps
  <2> QED BY <1>9, <1>10, <2>1
<1>15. Undisturbed'
  BY <1>2, <1>6 DEF Inv, Undisturbed
<1>16. UndisturbedGetTheLine'
  BY <1>2 DEF Inv, UndisturbedGetTheLine
<1> QED BY <1>11, <1>12, <1>13, <1>14, <1>15, <1>16 DEF Inv

\* The list without the subscriber that has left.
LEMMA UnsubscribedStep == ASSUME Inv, NEW s \in Subs, Unsubscribed(s) PROVE Inv'
<1>1. /\ move.sub = s /\ move.todo = {}
      /\ hdr' = [hdr EXCEPT !.len = @ - 1]
      /\ state' = [state EXCEPT ![s] = "out"]
      /\ done' = [done EXCEPT ![s] = TRUE]
      /\ move' = Free
      /\ UNCHANGED <<arr, ch, pub, line, over, skipped>>
  BY DEF Unsubscribed
<1>2. ~Unlocked /\ Unlocked' /\ move'.todo = {}
  BY <1>1, ConstantsAssumption DEF Unlocked, Free
<1>3. PICK p \in 1..hdr.len :
        /\ move.old[p] = s
        /\ \A k \in 1..hdr.len :
             arr[hdr.cap][k] = IF k \in p..(hdr.len - 1) THEN move.old[k + 1] ELSE move.old[k]
  BY <1>1, <1>2 DEF Inv, Shifting
<1>4. /\ hdr.cap \in Nat /\ hdr.len \in Nat /\ hdr.len <= hdr.cap /\ hdr.cap <= MaxCap
      /\ MaxCap \in Nat /\ hdr \in [cap : Caps, len : Caps]
  BY Numbers DEF Inv, TypeOK
<1>5. hdr'.cap = hdr.cap /\ hdr'.len = hdr.len - 1 /\ hdr'.len \in Nat
  BY <1>1, <1>3, <1>4
<1>6. TypeOK'
  <2>1. hdr' \in [cap : Caps, len : Caps] /\ hdr'.len <= hdr'.cap
    BY <1>1, <1>4, <1>5 DEF Caps
  <2>2. move' \in [sub : Subs \cup {None}, todo : SUBSET Cells, old : [Cells -> Subs \cup {None}]]
    BY <1>1 DEF Free
  <2>3. state' \in [Subs -> {"new", "in", "out"}] /\ done' \in [Subs -> BOOLEAN]
    BY <1>1 DEF Inv, TypeOK
  <2> QED BY <1>1, <2>1, <2>2, <2>3 DEF Inv, TypeOK
<1>7. List = move.old /\ List' = arr[hdr.cap]
  BY <1>1, <1>2, <1>5 DEF List
<1>8. /\ \A k \in 1..hdr.len : move.old[k] \in In
      /\ \A x \in In : \E k \in 1..hdr.len : move.old[k] = x
      /\ \A k, l \in 1..hdr.len : move.old[k] = move.old[l] => k = l
      /\ hdr.len = Cardinality(In)
      /\ \A x \in Subs : done[x] <=> state[x] = "out"
  BY <1>7 DEF Inv, Exact
<1>9. In' = In \ {s} /\ s \in In
  <2>1. s \in In
    BY <1>3, <1>8
  <2> QED BY <1>1, <2>1 DEF In, Inv, TypeOK
<1>10. Exact'
  <2> DEFINE q(k) == IF k < p THEN k ELSE k + 1
  <2>1. \A k \in 1..hdr'.len : /\ q(k) \in 1..hdr.len /\ q(k) # p /\ List'[k] = move.old[q(k)]
                               /\ k \in 1..hdr.len
    <3> SUFFICES ASSUME NEW k \in 1..hdr'.len
                 PROVE  /\ q(k) \in 1..hdr.len /\ q(k) # p /\ List'[k] = move.old[q(k)]
                        /\ k \in 1..hdr.len
      OBVIOUS
    <3>1. k \in Nat /\ 1 <= k /\ k <= hdr.len - 1 /\ p \in Nat
      BY <1>4, <1>5
    <3>2. k \in 1..hdr.len /\ (k \in p..(hdr.len - 1) <=> ~(k < p))
      BY <1>4, <3>1
    <3> QED BY <1>3, <1>4, <1>7, <3>1, <3>2
  <2>2. \A k \in 1..hdr.len : k # p => \E l \in 1..hdr'.len : q(l) = k
    <3> SUFFICES ASSUME NEW k \in 1..hdr.len, k # p PROVE \E l \in 1..hdr'.len : q(l) = k
      OBVIOUS
    <3>1. CASE k < p
      BY <1>4, <1>5, <3>1
    <3>2. CASE k > p
      <4>1. k - 1 \in 1..hdr'.len /\ q(k - 1) = k
        BY <1>4, <1>5, <3>2
      <4> QED BY <4>1
    <3> QED BY <3>1, <3>2
  <2>3. \A k, l \in 1..hdr'.len : q(k) = q(l) => k = l
    BY <1>4, <1>5
  <2> HIDE DEF q
  <2>4. \A k \in 1..hdr'.len : List'[k] \in In'
    BY <1>3, <1>8, <1>9, <2>1
  <2>5. \A x \in In' : \E k \in 1..hdr'.len : List'[k] = x
    BY <1>3, <1>8, <1>9, <2>1, <2>2
  <2>6. \A k, l \in 1..hdr'.len : List'[k] = List'[l] => k = l
    BY <1>8, <2>1, <2>3
  <2>7. hdr'.len = Cardinality(In')
    <3>1. Cardinality(In \ {s}) = Cardinality(In) - 1
      BY <1>9, InFacts, FS_RemoveElement, Zenon
    <3> QED BY <1>5, <1>8, <1>9, <3>1
  <2>8. \A x \in Subs : done'[x] <=> state'[x] = "out"
    BY <1>1, <1>8 DEF Inv, TypeOK
  <2> QED BY <2>4, <2>5, <2>6, <2>7, <2>8 DEF Exact
<1>11. Shifting'
  BY <1>2 DEF Shifting
<1>12. Walk'
  BY <1>1, <1>5 DEF Inv, Walk
<1>13. Undisturbed'
  BY <1>1, <1>2 DEF Inv, Undisturbed
<1>14. UndisturbedGetTheLine'
  BY <1>1 DEF Inv, UndisturbedGetTheLine
<1> QED BY <1>6, <1>10, <1>11, <1>12, <1>13, <1>14 DEF Inv

(***************************************************************************)
(* Publish.                                                                *)
(***************************************************************************)

\* A step that leaves slice, lock and subscribers alone keeps the list exact.
LEMMA ListKept ==
  ASSUME Inv, UNCHANGED <<arr, hdr, move, state, done>>
  PROVE  Exact' /\ Shifting' /\ Unlocked' = Unlocked
<1>1. List' = List /\ In' = In /\ Unlocked' = Unlocked
  BY DEF List, In, Unlocked
<1>2. Exact'
  BY <1>1 DEF Inv, Exact
<1>3. Shifting'
  BY <1>1 DEF Inv, Shifting
<1> QED BY <1>1, <1>2, <1>3

\* Publish copies a header whose array lists the subscribers the line is due to.
LEMMA PublishStep == ASSUME Inv, Publish PROVE Inv'
<1>1. /\ ~pub.busy /\ Unlocked /\ line < MaxLines /\ line' = line + 1
      /\ UNCHANGED <<arr, hdr, move, state, ch, done, over, skipped>>
  BY DEF Publish
<1>2. /\ pub'.busy /\ pub'.cap = hdr.cap /\ pub'.len = hdr.len /\ pub'.i = 1
      /\ pub'.due = In /\ ~pub'.moved
      /\ pub' = [busy |-> TRUE, cap |-> hdr.cap, len |-> hdr.len, i |-> 1, due |-> In, moved |-> FALSE]
  BY DEF Publish, In
<1>3. /\ hdr.cap \in Nat /\ hdr.len \in Nat /\ hdr.len <= hdr.cap /\ hdr.cap <= MaxCap
      /\ hdr.cap \in Caps /\ hdr.len \in Caps
      /\ MaxCap \in Nat /\ line \in Nat /\ MaxLines \in Nat
  BY Numbers, Sizes, SMTT(30) DEF Inv, TypeOK
<1>4. TypeOK'
  <2>1. pub' \in [busy : BOOLEAN, cap : Caps, len : Caps, i : 1..MaxCap + 1,
                  due : SUBSET Subs, moved : BOOLEAN]
    BY <1>2, <1>3 DEF In
  <2>2. line' \in 0..MaxLines
    BY <1>1, <1>3
  <2> QED BY <1>1, <2>1, <2>2 DEF Inv, TypeOK
<1>5. Exact' /\ Shifting' /\ Unlocked'
  BY <1>1, ListKept
<1>6. /\ \A k \in 1..hdr.len : arr[hdr.cap][k] \in In
      /\ \A x \in In : \E k \in 1..hdr.len : arr[hdr.cap][k] = x
  BY <1>1 DEF Inv, Exact, List
<1>7. Walk'
  BY <1>1, <1>2, <1>3, <1>6 DEF Walk, In
<1>8. Undisturbed'
  <2>1. \A k \in 1..hdr.len : ~(k < 1)
    BY <1>3
  <2>2. \A x \in In : state[x] = "in"
    BY DEF In
  <2> QED BY <1>1, <1>2, <1>3, <1>5, <1>6, <2>1, <2>2 DEF Undisturbed
<1>9. UndisturbedGetTheLine'
  BY <1>1 DEF Inv, UndisturbedGetTheLine
<1> QED BY <1>4, <1>5, <1>7, <1>8, <1>9 DEF Inv

\* Send serves a subscriber that has not left, and takes no line from another.
LEMMA SendServes ==
  ASSUME Inv, pub.busy, NEW s \in Subs, Send(s), line' = line
  PROVE  /\ ch' \in [Subs -> Seq(1..MaxLines)] /\ \A x \in Subs : Len(ch'[x]) <= BufferSize
         /\ \A x \in Subs : Served(x) => Served(x)'
         /\ ~done[s] => Served(s)'
<1>1. /\ ch \in [Subs -> Seq(1..MaxLines)] /\ \A x \in Subs : Len(ch[x]) <= BufferSize
      /\ BufferSize \in Nat /\ line \in 1..MaxLines
  BY Sizes DEF Inv, TypeOK, Walk
<1>2. CASE Len(ch[s]) < BufferSize /\ ch' = [ch EXCEPT ![s] = Append(@, line)]
  <2>1. /\ ch[s] \in Seq(1..MaxLines) /\ Len(ch[s]) \in Nat
        /\ Append(ch[s], line) \in Seq(1..MaxLines)
        /\ Len(Append(ch[s], line)) = Len(ch[s]) + 1
        /\ Append(ch[s], line)[Len(ch[s]) + 1] = line
        /\ \A k \in 1..Len(ch[s]) : Append(ch[s], line)[k] = ch[s][k]
    BY <1>1
  <2>2. ch'[s] = Append(ch[s], line) /\ \A x \in Subs \ {s} : ch'[x] = ch[x]
    BY <1>1, <1>2
  <2>3. ch' \in [Subs -> Seq(1..MaxLines)]
    BY <1>1, <1>2, <2>1
  <2>4. \A x \in Subs : Len(ch'[x]) <= BufferSize
    BY <1>1, <1>2, <2>1, <2>2
  <2>5. Served(s)'
    <3>1. Len(ch[s]) + 1 \in 1..Len(ch'[s]) /\ ch'[s][Len(ch[s]) + 1] = line
      BY <2>1, <2>2
    <3> QED BY <3>1 DEF Served, Got
  <2>6. \A x \in Subs \ {s} : Served(x) => Served(x)'
    BY <2>2 DEF Served, Got
  <2> QED BY <2>3, <2>4, <2>5, <2>6
<1>3. CASE (Len(ch[s]) = BufferSize \/ done[s]) /\ UNCHANGED ch
  <2>1. \A x \in Subs : Served(x)' = Served(x)
    BY <1>3 DEF Served, Got
  <2>2. ~done[s] => Served(s)
    BY <1>1, <1>3 DEF Served
  <2> QED BY <1>1, <1>3, <2>1, <2>2
<1> QED BY <1>2, <1>3 DEF Send

\* One iteration of the loop serves the subscriber it meets.
LEMMA PublishSendStep == ASSUME Inv, PublishSend PROVE Inv'
<1>1. /\ pub.busy /\ pub.i <= pub.len
      /\ pub' = [pub EXCEPT !.i = @ + 1]
      /\ UNCHANGED <<arr, hdr, move, state, done, line, over, skipped>>
  BY DEF PublishSend
<1>2. PICK s : s = arr[pub.cap][pub.i]
  OBVIOUS
<1>3. Send(s)
  BY <1>2 DEF PublishSend
<1>4. /\ pub.len \in Nat /\ pub.i \in Nat /\ pub.i >= 1 /\ pub.len <= MaxCap /\ MaxCap \in Nat
  BY Numbers DEF Inv
<1>5. s \in Subs
  BY <1>1, <1>2, <1>4 DEF Inv, Walk
<1>6. /\ ch' \in [Subs -> Seq(1..MaxLines)] /\ \A x \in Subs : Len(ch'[x]) <= BufferSize
      /\ \A x \in Subs : Served(x) => Served(x)'
      /\ ~done[s] => Served(s)'
  BY <1>1, <1>3, <1>5, SendServes
<1>7. /\ pub'.busy = pub.busy /\ pub'.cap = pub.cap /\ pub'.len = pub.len /\ pub'.i = pub.i + 1
      /\ pub'.due = pub.due /\ pub'.moved = pub.moved
      /\ pub' \in [busy : BOOLEAN, cap : Caps, len : Caps, i : 1..MaxCap + 1,
                   due : SUBSET Subs, moved : BOOLEAN]
  <2>1. pub.i + 1 \in 1..MaxCap + 1
    BY <1>1, <1>4
  <2> QED BY <1>1, <2>1, Zenon DEF Inv, TypeOK
<1>8. TypeOK'
  BY <1>1, <1>6, <1>7, Zenon DEF Inv, TypeOK
<1>9. Exact' /\ Shifting' /\ Unlocked' = Unlocked
  BY <1>1, ListKept
<1>10. Walk'
  BY <1>1, <1>7 DEF Inv, Walk
<1>11. Undisturbed'
  <2> SUFFICES ASSUME ~pub.moved, NEW x \in pub.due
               PROVE  /\ Unlocked' /\ pub.len <= hdr.len /\ state[x] = "in"
                      /\ \E k \in 1..pub.len : /\ arr[pub.cap][k] = x
                                               /\ k < pub.i + 1 => Served(x)'
    BY <1>1, <1>7, <1>9 DEF Inv, Undisturbed
  <2>1. /\ Unlocked /\ pub.len <= hdr.len /\ state[x] = "in" /\ x \in Subs
    BY <1>1 DEF Inv, Undisturbed, TypeOK
  <2>2. PICK k \in 1..pub.len : arr[pub.cap][k] = x /\ (k < pub.i => Served(x))
    BY <1>1 DEF Inv, Undisturbed
  <2>3. ~done[x]
    BY <2>1 DEF Inv, Exact
  <2>4. CASE k = pub.i
    BY <1>2, <1>6, <1>9, <2>1, <2>2, <2>3, <2>4
  <2>5. CASE k # pub.i
    <3>1. k < pub.i + 1 => k < pub.i
      BY <1>4, <2>5
    <3> QED BY <1>6, <1>9, <2>1, <2>2, <3>1
  <2> QED BY <2>4, <2>5
<1>12. UndisturbedGetTheLine'
  BY <1>1 DEF Inv, UndisturbedGetTheLine
<1> QED BY <1>8, <1>9, <1>10, <1>11, <1>12 DEF Inv

\* When the loop is over everyone it was due to has been served, or somebody has left.
LEMMA PublishReturnStep == ASSUME Inv, PublishReturn PROVE Inv'
<1> DEFINE Missed == {t \in pub.due : state[t] = "in" /\ Len(ch[t]) < BufferSize /\ ~Got(t)}
           New == {[sub |-> s, line |-> line, moved |-> pub.moved] : s \in Missed}
<1>1. /\ pub.busy /\ pub.i > pub.len /\ skipped' = skipped \cup New /\ pub' = NoPub
      /\ UNCHANGED <<arr, hdr, move, state, ch, done, line, over>>
  BY DEF PublishReturn
<1>2. /\ pub.len \in Nat /\ pub.i \in Nat /\ MaxCap \in Nat /\ BufferSize \in Nat
      /\ line \in 1..MaxLines /\ pub.due \subseteq Subs /\ pub.moved \in BOOLEAN
      /\ \A s \in Subs : Len(ch[s]) \in Nat
  BY <1>1, Numbers, Sizes, SMTT(30) DEF Inv, TypeOK, Walk
<1>3. ~pub'.busy
  BY <1>1 DEF NoPub
<1>4. TypeOK'
  <2>1. New \subseteq [sub : Subs, line : 1..MaxLines, moved : BOOLEAN]
    BY <1>2
  <2>2. pub' \in [busy : BOOLEAN, cap : Caps, len : Caps, i : 1..MaxCap + 1,
                  due : SUBSET Subs, moved : BOOLEAN]
    BY <1>1, <1>2 DEF NoPub, Caps
  <2> HIDE DEF New
  <2> QED BY <1>1, <2>1, <2>2 DEF Inv, TypeOK
<1>5. Exact' /\ Shifting'
  BY <1>1, ListKept
<1>6. Walk' /\ Undisturbed'
  BY <1>3 DEF Walk, Undisturbed
<1>7. UndisturbedGetTheLine'
  <2>1. ASSUME ~pub.moved, NEW s \in pub.due PROVE s \notin Missed
    <3>1. PICK k \in 1..pub.len : k < pub.i => Served(s)
      BY <1>1, <2>1 DEF Inv, Undisturbed
    <3>2. Served(s)
      BY <1>1, <1>2, <3>1
    <3> QED BY <1>2, <3>2 DEF Served
  <2>2. \A x \in New : x.moved
    BY <2>1
  <2> HIDE DEF New
  <2> QED BY <1>1, <2>2 DEF Inv, UndisturbedGetTheLine
<1> QED BY <1>4, <1>5, <1>6, <1>7 DEF Inv

\* MarkComplete changes nothing that the invariant speaks of.
LEMMA MarkCompleteStep == ASSUME Inv, MarkComplete PROVE Inv'
<1>1. /\ over' = TRUE
      /\ UNCHANGED <<arr, hdr, move, state, ch, done, pub, line, skipped>>
  BY DEF MarkComplete
<1>2. TypeOK'
  BY <1>1 DEF Inv, TypeOK
<1>3. Exact' /\ Shifting' /\ Unlocked' = Unlocked
  BY <1>1, ListKept
<1>4. Walk'
  BY <1>1 DEF Inv, Walk
<1>5. Undisturbed'
  BY <1>1, <1>3 DEF Inv, Undisturbed, Served, Got
<1>6. UndisturbedGetTheLine'
  BY <1>1 DEF Inv, UndisturbedGetTheLine
<1> QED BY <1>2, <1>3, <1>4, <1>5, <1>6 DEF Inv

(***************************************************************************)
(* The theorems.                                                           *)
(***************************************************************************)

\* The invariant holds before anyone subscribes.
THEOREM InitInv == Init => Inv
<1> SUFFICES ASSUME Init PROVE Inv
  OBVIOUS
<1>1. Unlocked /\ move.todo = {} /\ hdr.cap = 0 /\ hdr.len = 0 /\ ~pub.busy /\ skipped = {}
  BY DEF Init, Unlocked, Free, NoPub
<1>2. In = {}
  BY DEF Init, In
<1>3. TypeOK
  <2>1. MaxCap \in Nat /\ MaxLines \in Nat /\ BufferSize \in Nat
    BY Sizes
  <2>2. hdr \in [cap : Caps, len : Caps] /\ hdr.len <= hdr.cap
    BY <1>1, <2>1 DEF Init, Caps
  <2>3. ch \in [Subs -> Seq(1..MaxLines)] /\ \A s \in Subs : Len(ch[s]) <= BufferSize
    BY <2>1 DEF Init
  <2>4. pub \in [busy : BOOLEAN, cap : Caps, len : Caps, i : 1..MaxCap + 1,
                 due : SUBSET Subs, moved : BOOLEAN]
    BY <2>1 DEF Init, NoPub, Caps
  <2>5. /\ arr \in [Caps -> [Cells -> Subs \cup {None}]]
        /\ move \in [sub : Subs \cup {None}, todo : SUBSET Cells, old : [Cells -> Subs \cup {None}]]
    BY DEF Init, Free
  <2>6. state \in [Subs -> {"new", "in", "out"}] /\ done \in [Subs -> BOOLEAN]
    BY DEF Init
  <2>7. line = 0 /\ over \in BOOLEAN
    BY Zenon DEF Init
  <2>8. line \in 0..MaxLines
    BY <2>1, <2>7
  <2> QED BY <1>1, <2>2, <2>3, <2>4, <2>5, <2>6, <2>7, <2>8 DEF TypeOK
<1>4. Exact
  <2>1. \A s \in Subs : done[s] <=> state[s] = "out"
    BY DEF Init
  <2>2. hdr.len = Cardinality(In)
    BY <1>1, <1>2, FS_EmptySet
  <2> QED BY <1>1, <1>2, <2>1, <2>2 DEF Exact
<1> QED BY <1>1, <1>3, <1>4
    DEF Inv, Shifting, Walk, Undisturbed, UndisturbedGetTheLine

\* Every step preserves it.
THEOREM NextInv == Inv /\ [Next]_vars => Inv'
<1> SUFFICES ASSUME Inv, [Next]_vars PROVE Inv'
  OBVIOUS
<1>1. CASE UNCHANGED vars
  <2>1. UNCHANGED <<arr, hdr, move, state, ch, done, pub, line, over, skipped>>
    BY <1>1 DEF vars
  <2>2. Exact' /\ Shifting' /\ Unlocked' = Unlocked
    BY <2>1, ListKept
  <2>3. TypeOK' /\ Walk' /\ UndisturbedGetTheLine'
    BY <2>1 DEF Inv, TypeOK, Walk, UndisturbedGetTheLine
  <2>4. Undisturbed'
    BY <2>1, <2>2 DEF Inv, Undisturbed, Served, Got
  <2> QED BY <2>2, <2>3, <2>4 DEF Inv
<1>2. ASSUME NEW s \in Subs, Subscribe(s) \/ Unsubscribe(s) \/ Unsubscribed(s) PROVE Inv'
  BY <1>2, SubscribeStep, UnsubscribeStep, UnsubscribedStep
<1>3. CASE Move \/ Publish \/ PublishSend \/ PublishReturn \/ MarkComplete
  BY <1>3, MoveStep, PublishStep, PublishSendStep, PublishReturnStep, MarkCompleteStep
<1> QED BY <1>1, <1>2, <1>3 DEF Next

\* So it holds in every state that the broadcaster can reach.
THEOREM Invariance == Spec => []Inv
BY InitInv, NextInv, PTL DEF Spec

\* Every variable keeps its type: in particular the slice never outgrows twice the
\* number of subscribers and no channel its buffer.
THEOREM TypeCorrect == Spec => []TypeOK
BY Invariance, PTL DEF Inv

\* Whenever the lock is free the slice lists the current subscribers, each once,
\* whatever Subscribe and Unsubscribe calls came before.
THEOREM ListIsExact == Spec => []ListExact
<1>1. Inv => ListExact
  BY DEF Inv, Exact, List, In, ListExact
<1> QED BY <1>1, Invariance, PTL

\* The loop of Publish, which holds no lock, never dereferences a nil subscriber.
THEOREM NilIsNeverMet == Spec => []NeverNil
<1>1. Inv => NeverNil
  <2> SUFFICES ASSUME Inv, pub.busy, NEW k \in pub.i..pub.len PROVE arr[pub.cap][k] # None
    BY DEF NeverNil
  <2>1. k \in 1..pub.len
    BY Numbers DEF Inv
  <2>2. arr[pub.cap][k] \in Subs
    BY <2>1 DEF Inv, Walk
  <2> QED BY <2>2, ConstantsAssumption
<1> QED BY <1>1, Invariance, PTL

\* A line reaches every subscriber that was there when Publish began and has room
\* for it, unless somebody took the lock to leave while Publish was running.
THEOREM UndisturbedDelivery == Spec => []UndisturbedGetTheLine
BY Invariance, PTL DEF Inv
=============================================================================
