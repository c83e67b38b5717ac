--------------------------- MODULE LogBroadcaster --------------------------
(***************************************************************************)
(* The in-memory log broadcaster of                                        *)
(* internal/build/adapter/logstream/broadcaster.go, for one build: the     *)
(* goroutine that runs the build publishes log lines while subscribers     *)
(* come and go.                                                            *)
(*                                                                         *)
(* The list of subscribers is a Go slice: a header (array, length) over a  *)
(* backing array.  Publish copies the header under the read lock and then  *)
(* walks through the array without a lock; Unsubscribe moves the elements  *)
(* of that same array.  An array is never given up for a smaller one, so   *)
(* its capacity identifies it.                                             *)
(***************************************************************************)
EXTENDS Integers, Sequences, FiniteSets

CONSTANTS
  Subs,           \* subscribers of the build
  None,           \* a nil pointer
  BufferSize,     \* capacity of a subscriber's channel
  MaxLines        \* bound: lines published in a behaviour

ASSUME ConstantsAssumption ==
  /\ IsFiniteSet(Subs) /\ None \notin Subs
  /\ BufferSize \in Nat \ {0} /\ MaxLines \in Nat

VARIABLES
  arr,      \* arr[c]: the backing array of capacity c
  hdr,      \* header of the slice b.subscribers[buildID]
  move,     \* the Unsubscribe that holds the write lock
  state,    \* state[s]: "new", "in" or "out"
  ch,       \* ch[s]: the lines in the subscriber's channel
  done,     \* done[s]: whether the subscriber's done channel is closed
  pub,      \* the Publish in progress
  line,     \* lines published so far; line n is the number n
  over,     \* whether MarkComplete was called
  skipped   \* history: the lines that subscribers they were due to did not get

vars == <<arr, hdr, move, state, ch, done, pub, line, over, skipped>>

\* The growth of a small slice: 1, 2, 4, ... elements.
NewCap(c) == IF c = 0 THEN 1 ELSE 2 * c

MaxCap == 2 * Cardinality(Subs)
Caps == 0..MaxCap
Cells == 1..MaxCap
Free == [sub |-> None, todo |-> {}, old |-> [k \in Cells |-> None]]
NoPub == [busy |-> FALSE, cap |-> 0, len |-> 0, i |-> 1, due |-> {},
          moved |-> FALSE]

TypeOK ==
  /\ arr \in [Caps -> [Cells -> Subs \cup {None}]]
  /\ hdr \in [cap : Caps, len : Caps] /\ hdr.len <= hdr.cap
  /\ move \in [sub : Subs \cup {None}, todo : SUBSET Cells,
               old : [Cells -> Subs \cup {None}]]
  /\ state \in [Subs -> {"new", "in", "out"}]
  /\ ch \in [Subs -> Seq(1..MaxLines)] /\ \A s \in Subs : Len(ch[s]) <= BufferSize
  /\ done \in [Subs -> BOOLEAN]
  /\ pub \in [busy : BOOLEAN, cap : Caps, len : Caps, i : 1..MaxCap + 1,
              due : SUBSET Subs, moved : BOOLEAN]
  /\ line \in 0..MaxLines
  /\ over \in BOOLEAN
  /\ skipped \subseteq [sub : Subs, line : 1..MaxLines, moved : BOOLEAN]

Init ==
  /\ arr = [c \in Caps |-> [k \in Cells |-> None]]
  /\ hdr = [cap |-> 0, len |-> 0]
  /\ move = Free
  /\ state = [s \in Subs |-> "new"]
  /\ ch = [s \in Subs |-> <<>>]
  /\ done = [s \in Subs |-> FALSE]
  /\ pub = NoPub
  /\ line = 0
  /\ over = FALSE
  /\ skipped = {}

Unlocked == move.sub = None

-----------------------------------------------------------------------------
\* append(subs, s): in place while there is room, else in a larger array.
Subscribe(s) ==
  LET n == hdr.len + 1
  IN  /\ state[s] = "new" /\ Unlocked
      /\ IF hdr.len < hdr.cap
         THEN /\ arr' = [arr EXCEPT ![hdr.cap][n] = s]
              /\ hdr' = [hdr EXCEPT !.len = n]
         ELSE LET c == NewCap(hdr.cap)
              IN  /\ arr' = [arr EXCEPT ![c] = [k \in Cells |->
                                IF k < n THEN arr[hdr.cap][k]
                                ELSE IF k = n THEN s ELSE None]]
                  /\ hdr' = [cap |-> c, len |-> n]
      /\ state' = [state EXCEPT ![s] = "in"]
      /\ UNCHANGED <<move, ch, done, pub, line, over, skipped>>

Position(s) == CHOOSE k \in 1..hdr.len : arr[hdr.cap][k] = s

\* Faulty variant: the element moved into the gap is the wrong one.
UnsubscribeOffByOne(s) ==
  /\ state[s] = "in" /\ Unlocked
  /\ move' = [sub |-> s, todo |-> (Position(s) + 1)..(hdr.len - 1),
              old |-> arr[hdr.cap]]
  /\ pub' = [pub EXCEPT !.moved = pub.busy]
  /\ UNCHANGED <<arr, hdr, state, ch, done, line, over, skipped>>

\* The unsubscribe function takes the lock and finds its subscriber.
Unsubscribe(s) ==
  /\ state[s] = "in" /\ Unlocked
  /\ move' = [sub |-> s, todo |-> Position(s)..(hdr.len - 1),
              old |-> arr[hdr.cap]]
  /\ pub' = [pub EXCEPT !.moved = pub.busy]
  /\ UNCHANGED <<arr, hdr, state, ch, done, line, over, skipped>>

\* append(subs[:i], subs[i+1:]...) moves the tail of the array down by one;
\* to a goroutine without the lock the words change one at a time.
Move ==
  /\ \E k \in move.todo :
       /\ arr' = [arr EXCEPT ![hdr.cap][k] = move.old[k + 1]]
       /\ move' = [move EXCEPT !.todo = @ \ {k}]
  /\ UNCHANGED <<hdr, state, ch, done, pub, line, over, skipped>>

\* Faulty variant: the cell behind the new end is cleared.
UnsubscribedClears(s) ==
  /\ move.sub = s /\ move.todo = {}
  /\ arr' = [arr EXCEPT ![hdr.cap][hdr.len] = None]
  /\ hdr' = [hdr EXCEPT !.len = @ - 1]
  /\ state' = [state EXCEPT ![s] = "out"]
  /\ done' = [done EXCEPT ![s] = TRUE]
  /\ move' = Free
  /\ UNCHANGED <<ch, pub, line, over, skipped>>

\* The shortened slice is stored, done is closed and the lock released.
Unsubscribed(s) ==
  /\ move.sub = s /\ move.todo = {}
  /\ hdr' = [hdr EXCEPT !.len = @ - 1]
  /\ state' = [state EXCEPT ![s] = "out"]
  /\ done' = [done EXCEPT ![s] = TRUE]
  /\ move' = Free
  /\ UNCHANGED <<arr, ch, pub, line, over, skipped>>

-----------------------------------------------------------------------------
\* Faulty variant: the copy misses the last subscriber.
PublishShort ==
  /\ ~pub.busy /\ Unlocked /\ ~over /\ line < MaxLines
  /\ line' = line + 1
  /\ pub' = [busy |-> TRUE, cap |-> hdr.cap, i |-> 1,
             len |-> IF hdr.len = 0 THEN 0 ELSE hdr.len - 1,
             due |-> {s \in Subs : state[s] = "in"}, moved |-> FALSE]
  /\ UNCHANGED <<arr, hdr, move, state, ch, done, over, skipped>>

\* Publish copies the header under the read lock.
Publish ==
  /\ ~pub.busy /\ Unlocked /\ ~over /\ line < MaxLines
  /\ line' = line + 1
  /\ pub' = [busy |-> TRUE, cap |-> hdr.cap, len |-> hdr.len, i |-> 1,
             due |-> {s \in Subs : state[s] = "in"}, moved |-> FALSE]
  /\ UNCHANGED <<arr, hdr, move, state, ch, done, over, skipped>>

\* Faulty variant: Send waits for room in the channel.
SendBlocking(s) ==
  \/ Len(ch[s]) < BufferSize /\ ch' = [ch EXCEPT ![s] = Append(@, line)]
  \/ done[s] /\ UNCHANGED ch

\* Send: a select over the channel, done and default.
Send(s) ==
  \/ Len(ch[s]) < BufferSize /\ ch' = [ch EXCEPT ![s] = Append(@, line)]
  \/ (Len(ch[s]) = BufferSize \/ done[s]) /\ UNCHANGED ch

\* One iteration of the loop over the copied slice.
PublishSend ==
  /\ pub.busy /\ pub.i <= pub.len
  /\ arr[pub.cap][pub.i] # None
  /\ Send(arr[pub.cap][pub.i])
  /\ pub' = [pub EXCEPT !.i = @ + 1]
  /\ UNCHANGED <<arr, hdr, move, state, done, line, over, skipped>>

Got(s) == \E k \in 1..Len(ch[s]) : ch[s][k] = line

PublishReturn ==
  /\ pub.busy /\ pub.i > pub.len
  /\ skipped' = skipped \cup
       {[sub |-> s, line |-> line, moved |-> pub.moved] :
          s \in {t \in pub.due :
                   state[t] = "in" /\ Len(ch[t]) < BufferSize /\ ~Got(t)}}
  /\ pub' = NoPub
  /\ UNCHANGED <<arr, hdr, move, state, ch, done, line, over>>

\* MarkComplete reads the list and does nothing with it.
MarkComplete ==
  /\ ~pub.busy /\ Unlocked /\ ~over
  /\ over' = TRUE
  /\ UNCHANGED <<arr, hdr, move, state, ch, done, pub, line, skipped>>

-----------------------------------------------------------------------------
\* A goroutine serves every subscriber, so all may stop.
Next ==
  \/ \E s \in Subs : Subscribe(s) \/ Unsubscribe(s) \/ Unsubscribed(s)
  \/ Move
  \/ Publish \/ PublishSend \/ PublishReturn
  \/ MarkComplete

Spec == Init /\ [][Next]_vars

\* The goroutine of the build goes on, and so does one that holds the lock.
FairSpec ==
  /\ Spec
  /\ WF_vars(PublishSend \/ PublishReturn)
  /\ WF_vars(Move \/ \E s \in Subs : Unsubscribed(s))

-----------------------------------------------------------------------------
(* Properties.                                                             *)

\* While no goroutine holds the write lock the slice lists the subscribers
\* that came and have not left, each exactly once.
ListExact ==
  Unlocked =>
    /\ {arr[hdr.cap][k] : k \in 1..hdr.len} = {s \in Subs : state[s] = "in"}
    /\ \A k, l \in 1..hdr.len : arr[hdr.cap][k] = arr[hdr.cap][l] => k = l

\* Publish never meets a nil subscriber, although Unsubscribe shortens the
\* slice and moves its elements under the loop.
NeverNil ==
  pub.busy => \A k \in pub.i..pub.len : arr[pub.cap][k] # None

\* "Publish sends a log line to all active subscribers for this buildID": a
\* subscriber that was there when Publish began, is there when it returns and
\* has room in its channel has got the line.
AllGetTheLine == skipped = {}

\* The same when nobody takes the lock to leave while Publish runs, even if
\* subscribers arrive, left before it began, or leave once it has returned.
UndisturbedGetTheLine == \A x \in skipped : x.moved

\* Publish returns although nobody empties the channels and subscribers come
\* and go: a full channel never blocks the goroutine of the build.
PublishReturns == pub.busy ~> ~pub.busy
=============================================================================
