---------------------------- MODULE QueueProofs ----------------------------
(***************************************************************************)
(* Theorems about IoQueue and Keyboard, for every set of tasks and every   *)
(* size of the ring: no order of calls makes an ASSERT of ioqueue.c fail,  *)
(* the ring is a FIFO, and the reader of kbd_buf does not sleep with a     *)
(* character to read.                                                      *)
(***************************************************************************)
EXTENDS Keyboard, SequenceTheorems, TLAPS

(* One turn around the ring.                                               *)
LEMMA ModTurn ==
    ASSUME NEW n \in Nat \ {0}, NEW x \in 0 .. 2 * n - 1
    PROVE  x % n = IF x < n THEN x ELSE x - n
  OBVIOUS

LEMMA NextPos ==
    ASSUME NEW pos \in 0 .. bufsize - 1
    PROVE  /\ next_pos(pos) = IF pos = bufsize - 1 THEN 0 ELSE pos + 1
           /\ next_pos(pos) \in 0 .. bufsize - 1
<1>1. bufsize \in Nat \ {0} /\ bufsize > 1
  BY IoQueueAssumption
<1>2. pos + 1 \in 0 .. 2 * bufsize - 1
  BY <1>1
<1>3. (pos + 1) % bufsize = IF pos + 1 < bufsize THEN pos + 1 ELSE (pos + 1) - bufsize
  BY <1>1, <1>2, ModTurn
<1> QED BY <1>1, <1>3 DEF next_pos

(* The ring: its two ends and its slots.                                   *)
Slot == Char \cup {NULL}

RingOK ==
    /\ head \in 0 .. bufsize - 1
    /\ tail \in 0 .. bufsize - 1
    /\ buf \in [0 .. bufsize - 1 -> Slot]

Turn(x) == IF x < bufsize THEN x ELSE x - bufsize

(* count and contents without the modulus.                                 *)
RingRead ==
    /\ count = IF head >= tail THEN head - tail ELSE head + bufsize - tail
    /\ count \in 0 .. bufsize - 1
    /\ contents = [i \in 1 .. count |-> buf[Turn(tail + i - 1)]]
    /\ contents \in Seq(Slot) /\ Len(contents) = count

LEMMA RingIsRead == RingOK => RingRead
<1> SUFFICES ASSUME RingOK PROVE RingRead
  OBVIOUS
<1>1. /\ bufsize \in Nat \ {0} /\ head \in 0 .. bufsize - 1 /\ tail \in 0 .. bufsize - 1
  BY IoQueueAssumption DEF RingOK
<1>2. head + bufsize - tail \in 0 .. 2 * bufsize - 1
  BY <1>1
<1>3. (head + bufsize - tail) % bufsize
        = IF head + bufsize - tail < bufsize THEN head + bufsize - tail
          ELSE (head + bufsize - tail) - bufsize
  BY <1>1, <1>2, ModTurn
<1>4. /\ count = IF head >= tail THEN head - tail ELSE head + bufsize - tail
      /\ count \in 0 .. bufsize - 1
  BY <1>1, <1>3 DEF count
<1>5. ASSUME NEW i \in 1 .. count
      PROVE  (tail + i - 1) % bufsize = Turn(tail + i - 1)
  <2>1. tail + i - 1 \in 0 .. 2 * bufsize - 1
    BY <1>1, <1>4
  <2> QED BY <1>1, <2>1, ModTurn DEF Turn
<1>6. contents = [i \in 1 .. count |-> buf[Turn(tail + i - 1)]]
  BY <1>5 DEF contents
<1>7. \A i \in 1 .. count : Turn(tail + i - 1) \in 0 .. bufsize - 1
  BY <1>1, <1>4 DEF Turn
<1>8. contents \in [1 .. count -> Slot]
  BY <1>6, <1>7 DEF RingOK
<1>9. contents \in Seq(Slot) /\ Len(contents) = count
  BY <1>4, <1>8
<1> QED BY <1>4, <1>6, <1>9 DEF RingRead

(* A character put into a ring with room is the newest of its contents.    *)
LEMMA PutAppends ==
    ASSUME RingOK, RingOK', ~ioq_full, NEW c \in Slot,
           buf' = [buf EXCEPT ![head] = c], head' = next_pos(head), tail' = tail
    PROVE  Len(contents) < bufsize - 1 /\ contents' = Append(contents, c)
<1>1. /\ bufsize \in Nat \ {0, 1} /\ head \in 0 .. bufsize - 1 /\ tail \in 0 .. bufsize - 1
      /\ head' = IF head = bufsize - 1 THEN 0 ELSE head + 1
      /\ head' # tail
  BY IoQueueAssumption, NextPos DEF RingOK, ioq_full
<1>2. RingRead /\ RingRead'
  BY RingIsRead, PTL
<1>3. count' = count + 1 /\ count < bufsize - 1 /\ count \in Nat
  BY <1>1, <1>2 DEF RingRead
<1>4. /\ contents = [i \in 1 .. count |-> buf[Turn(tail + i - 1)]]
      /\ contents' = [i \in 1 .. count + 1 |-> buf'[Turn(tail + i - 1)]]
  BY <1>2, <1>3 DEF RingRead, Turn
<1>5. \A j \in 0 .. bufsize - 1 : buf'[j] = IF j = head THEN c ELSE buf[j]
  BY <1>1 DEF RingOK
<1>6. Turn(tail + (count + 1) - 1) = head
  BY <1>1, <1>2 DEF RingRead, Turn
<1>7. \A i \in 1 .. count :
        Turn(tail + i - 1) \in 0 .. bufsize - 1 /\ Turn(tail + i - 1) # head
  BY <1>1, <1>2 DEF RingRead, Turn
<1>8. /\ contents \in Seq(Slot) /\ Len(contents) = count
      /\ contents' \in Seq(Slot) /\ Len(contents') = count + 1
  BY <1>2, <1>3 DEF RingRead
<1>9. /\ Append(contents, c) \in Seq(Slot)
      /\ Len(Append(contents, c)) = count + 1
      /\ \A i \in 1 .. count : Append(contents, c)[i] = contents[i]
      /\ Append(contents, c)[count + 1] = c
  BY <1>8, AppendProperties
<1>10. \A i \in 1 .. count + 1 : contents'[i] = Append(contents, c)[i]
  BY <1>1, <1>3, <1>4, <1>5, <1>6, <1>7, <1>9
<1>11. contents' = Append(contents, c)
  BY <1>8, <1>9, <1>10, SeqEqual
<1> QED BY <1>3, <1>8, <1>11

(* The character a consumer takes is the oldest one.                       *)
LEMMA GetTakesHead ==
    ASSUME RingOK, RingOK', ~ioq_empty,
           UNCHANGED <<buf, head>>, tail' = next_pos(tail)
    PROVE  /\ contents # <<>>
           /\ buf[tail] = Head(contents)
           /\ contents' = Tail(contents)
<1>1. /\ bufsize \in Nat \ {0, 1} /\ head \in 0 .. bufsize - 1 /\ tail \in 0 .. bufsize - 1
      /\ tail' = IF tail = bufsize - 1 THEN 0 ELSE tail + 1
      /\ head # tail
  BY IoQueueAssumption, NextPos DEF RingOK, ioq_empty
<1>2. RingRead /\ RingRead'
  BY RingIsRead, PTL
<1>3. count' = count - 1 /\ count > 0 /\ count \in Nat
  BY <1>1, <1>2 DEF RingRead
<1>4. /\ contents = [i \in 1 .. count |-> buf[Turn(tail + i - 1)]]
      /\ contents' = [i \in 1 .. count - 1 |-> buf[Turn(tail' + i - 1)]]
  BY <1>2, <1>3 DEF RingRead, Turn
<1>5. Turn(tail) = tail /\ \A i \in 1 .. count - 1 : Turn(tail' + i - 1) = Turn(tail + (i + 1) - 1)
  BY <1>1, <1>2 DEF RingRead, Turn
<1>6. /\ contents \in Seq(Slot) /\ Len(contents) = count /\ contents # <<>>
      /\ contents' \in Seq(Slot) /\ Len(contents') = count - 1
  BY <1>2, <1>3 DEF RingRead
<1>7. Head(contents) = buf[tail]
  BY <1>1, <1>3, <1>4, <1>5, <1>6
<1>8. /\ Tail(contents) \in Seq(Slot) /\ Len(Tail(contents)) = count - 1
      /\ \A i \in 1 .. count - 1 : Tail(contents)[i] = contents[i + 1]
  BY <1>6, HeadTailProperties
<1>9. \A i \in 1 .. count - 1 : contents'[i] = Tail(contents)[i]
  BY <1>3, <1>4, <1>5, <1>8
<1>10. contents' = Tail(contents)
  BY <1>6, <1>8, <1>9, SeqEqual
<1> QED BY <1>6, <1>7, <1>10

-----------------------------------------------------------------------------
(* The inductive invariant of the queue.  The lock's holder is the task in *)
(* ioq_wait.                                                               *)
RoleName == {"producer", "consumer"}

LockHeld ==
    /\ holder # NULL => pc[holder] = "ioq_wait"
    /\ \A t \in Tasks : pc[t] = "ioq_wait" => holder = t

(* The pointers producer and consumer name exactly the tasks that sleep.   *)
SleeperInv ==
    \A t \in Tasks, r \in RoleName :
        sleeper[r] = t <=> pc[t] = "ioq_wait" /\ t \notin ready /\ role[t] = r

(* The tasks on wq wait for the lock, blocked while rd are ready, and are  *)
(* linked once.                                                            *)
Queued(wq, rd) ==
    /\ \A i \in 1 .. Len(wq) : pc[wq[i]] = "sema_down" /\ wq[i] \notin rd
    /\ \A i, j \in 1 .. Len(wq) : wq[i] = wq[j] => i = j

(* A blocked producer has a character to put.                              *)
ArgInv == \A t \in Tasks : pc[t] # "outside" /\ role[t] = "producer" => arg[t] \in Char

IoqInv ==
    /\ TypeOK
    /\ NoAssertFails
    /\ LockHeld
    /\ SleeperInv
    /\ Queued(waiters, ready)
    /\ ArgInv

(* What holds where task t, in role r, tests the condition of the loop: t  *)
(* does not hold the lock, nobody sleeps but the lock's holder own, and    *)
(* whoever has just been woken for the lock is in sema_down.               *)
AtLoop(t, r, own, wq, rd) ==
    /\ TypeOK /\ NoAssertFails
    /\ t \in rd /\ rd \subseteq Tasks
    /\ own \in Tasks \cup {NULL}
    /\ own # NULL => pc[own] = "ioq_wait" /\ own # t
    /\ \A u \in Tasks : u # t /\ pc[u] = "ioq_wait" => own = u
    /\ \A u \in Tasks, q \in RoleName :
         sleeper[q] = u <=> u # t /\ pc[u] = "ioq_wait" /\ u \notin rd /\ role[u] = q
    /\ wq \in Seq(Tasks) /\ Queued(wq, rd)
    /\ role' = [role EXCEPT ![t] = r]
    /\ arg' \in [Tasks -> Slot]
    /\ \A u \in Tasks : u # t => arg'[u] = arg[u]
    /\ r = "producer" => arg'[t] \in Char
    /\ \A u \in Tasks : u # t /\ pc[u] # "outside" /\ role[u] = "producer" => arg[u] \in Char

(* The parts of IoqInv that follow from where the tasks are.               *)
LEMMA Moved ==
    ASSUME NEW t \in Tasks, NEW r \in RoleName, NEW own, NEW wq, NEW rd,
           AtLoop(t, r, own, wq, rd), NEW place \in {"outside", "ioq_wait", "sema_down"},
           pc' = [pc EXCEPT ![t] = place]
    PROVE  /\ pc' \in [Tasks -> {"outside", "ioq_wait", "sema_down"}]
           /\ role' \in [Tasks -> RoleName]
           /\ arg' \in [Tasks -> Slot]
           /\ pc'[t] = place /\ role'[t] = r
           /\ \A u \in Tasks : u # t => pc'[u] = pc[u] /\ role'[u] = role[u]
           /\ ArgInv'
<1>1. /\ pc \in [Tasks -> {"outside", "ioq_wait", "sema_down"}]
      /\ role \in [Tasks -> RoleName]
      /\ arg' \in [Tasks -> Slot]
      /\ role' = [role EXCEPT ![t] = r]
  BY DEF AtLoop, TypeOK, RoleName
<1>2. /\ pc' \in [Tasks -> {"outside", "ioq_wait", "sema_down"}]
      /\ role' \in [Tasks -> RoleName]
      /\ pc'[t] = place /\ role'[t] = r
      /\ \A u \in Tasks : u # t => pc'[u] = pc[u] /\ role'[u] = role[u]
  BY <1>1
<1>3. ArgInv'
  BY <1>2 DEF AtLoop, ArgInv
<1> QED BY <1>1, <1>2, <1>3

(* The call returns: it wakes the sleeper of the other role, if any.       *)
LEMMA WakeupInv ==
    ASSUME NEW t \in Tasks, NEW r \in RoleName, NEW q \in RoleName, NEW own, NEW wq, NEW rd,
           AtLoop(t, r, own, wq, rd), wakeup(q, rd),
           pc' = [pc EXCEPT ![t] = "outside"], holder' = own, waiters' = wq,
           head' \in 0 .. bufsize - 1, tail' \in 0 .. bufsize - 1,
           buf' \in [0 .. bufsize - 1 -> Slot], byte' \in [Tasks -> Slot]
    PROVE  IoqInv'
<1>1. /\ pc' \in [Tasks -> {"outside", "ioq_wait", "sema_down"}]
      /\ role' \in [Tasks -> RoleName] /\ arg' \in [Tasks -> Slot]
      /\ pc'[t] = "outside" /\ role'[t] = r
      /\ \A u \in Tasks : u # t => pc'[u] = pc[u] /\ role'[u] = role[u]
      /\ ArgInv'
  BY Moved
<1>2. /\ sleeper \in [RoleName -> Tasks \cup {NULL}] /\ NULL \notin Tasks
      /\ failed = FALSE /\ rd \subseteq Tasks /\ t \in rd
      /\ own \in Tasks \cup {NULL} /\ wq \in Seq(Tasks)
      /\ \A u \in Tasks, p \in RoleName :
           sleeper[p] = u <=> u # t /\ pc[u] = "ioq_wait" /\ u \notin rd /\ role[u] = p
  BY IoQueueAssumption DEF AtLoop, TypeOK, NoAssertFails, RoleName
<1>3. failed' = FALSE /\ sleeper' \in [RoleName -> Tasks \cup {NULL}] /\ ready' \subseteq Tasks
  <2>1. sleeper[q] # NULL => sleeper[q] \in Tasks /\ sleeper[q] \notin rd
    BY <1>2
  <2>2. failed' = FALSE
    BY <1>2, <2>1 DEF wakeup
  <2>3. sleeper' = sleeper \/ sleeper' = [sleeper EXCEPT ![q] = NULL]
    BY DEF wakeup
  <2>4. sleeper' \in [RoleName -> Tasks \cup {NULL}]
    BY <1>2, <2>3
  <2>5. ready' \subseteq Tasks
    BY <1>2, <2>1 DEF wakeup
  <2> QED BY <2>2, <2>4, <2>5
<1>4. SleeperInv'
  <2> SUFFICES ASSUME NEW u \in Tasks, NEW p \in RoleName
               PROVE  sleeper'[p] = u <=> pc'[u] = "ioq_wait" /\ u \notin ready' /\ role'[u] = p
    BY DEF SleeperInv
  <2>1. CASE sleeper[q] = NULL
    BY <1>1, <1>2, <2>1 DEF wakeup
  <2>2. CASE sleeper[q] # NULL
    <3>1. /\ ready' = rd \cup {sleeper[q]}
          /\ sleeper' = [sleeper EXCEPT ![q] = NULL]
      BY <2>2 DEF wakeup
    <3>2. sleeper[q] \in Tasks /\ pc[sleeper[q]] = "ioq_wait" /\ role[sleeper[q]] = q
      BY <1>2, <2>2
    <3> QED BY <1>1, <1>2, <3>1, <3>2
  <2> QED BY <2>1, <2>2
<1>5. LockHeld'
  BY <1>1, <1>2 DEF AtLoop, LockHeld
<1>6. Queued(waiters, ready)'
  <2>1. \A i \in 1 .. Len(wq) : wq[i] \in Tasks
    BY <1>2
  <2>2. ASSUME NEW i \in 1 .. Len(wq)
        PROVE  pc'[wq[i]] = "sema_down" /\ wq[i] \notin ready'
    BY <1>1, <1>2, <2>1 DEF AtLoop, Queued, wakeup
  <2> QED BY <2>2 DEF AtLoop, Queued
<1>7. TypeOK'
  BY <1>1, <1>2, <1>3 DEF TypeOK, RoleName, Slot
<1> QED BY <1>1, <1>3, <1>4, <1>5, <1>6, <1>7 DEF IoqInv, NoAssertFails

(* The call finds the lock free and sleeps in ioq_wait.                    *)
LEMMA WaitInv ==
    ASSUME NEW t \in Tasks, NEW r \in RoleName, NEW wq, NEW rd,
           AtLoop(t, r, NULL, wq, rd), ioq_wait(t, r, rd),
           holder' = t, waiters' = wq, UNCHANGED <<head, tail, buf, byte>>
    PROVE  IoqInv'
<1>1. /\ pc' \in [Tasks -> {"outside", "ioq_wait", "sema_down"}]
      /\ role' \in [Tasks -> RoleName] /\ arg' \in [Tasks -> Slot]
      /\ pc'[t] = "ioq_wait" /\ role'[t] = r
      /\ \A u \in Tasks : u # t => pc'[u] = pc[u] /\ role'[u] = role[u]
      /\ ArgInv'
  BY Moved DEF ioq_wait
<1>2. /\ sleeper \in [RoleName -> Tasks \cup {NULL}] /\ NULL \notin Tasks
      /\ failed = FALSE /\ rd \subseteq Tasks /\ t \in rd /\ wq \in Seq(Tasks)
  BY IoQueueAssumption DEF AtLoop, TypeOK, NoAssertFails, RoleName
<1>3. \A u \in Tasks : u # t => pc[u] # "ioq_wait"
  BY <1>2 DEF AtLoop
<1>4. \A p \in RoleName : sleeper[p] = NULL
  BY <1>2, <1>3 DEF AtLoop
<1>5. /\ failed' = FALSE
      /\ sleeper' = [sleeper EXCEPT ![r] = t]
      /\ ready' = rd \ {t}
  BY <1>2, <1>4 DEF ioq_wait
<1>6. SleeperInv'
  BY <1>1, <1>2, <1>3, <1>4, <1>5 DEF SleeperInv
<1>7. LockHeld'
  BY <1>1, <1>3 DEF LockHeld
<1>8. Queued(waiters, ready)'
  <2>1. \A i \in 1 .. Len(wq) : wq[i] \in Tasks
    BY <1>2
  <2>2. ASSUME NEW i \in 1 .. Len(wq)
        PROVE  pc'[wq[i]] = "sema_down" /\ wq[i] \notin ready'
    BY <1>1, <1>2, <1>5, <2>1 DEF AtLoop, Queued
  <2> QED BY <2>2 DEF AtLoop, Queued
<1>9. TypeOK'
  BY <1>1, <1>2, <1>5 DEF AtLoop, TypeOK, RoleName, Slot
<1> QED BY <1>1, <1>5, <1>6, <1>7, <1>8, <1>9 DEF IoqInv, NoAssertFails

(* The lock is taken: the call joins the semaphore's waiters.              *)
LEMMA SemaDownInv ==
    ASSUME NEW t \in Tasks, NEW r \in RoleName, NEW own \in Tasks, NEW wq, NEW rd,
           AtLoop(t, r, own, wq, rd),
           pc' = [pc EXCEPT ![t] = "sema_down"], holder' = own,
           waiters' = Append(wq, t), ready' = rd \ {t},
           UNCHANGED <<head, tail, buf, byte, sleeper, failed>>
    PROVE  IoqInv'
<1>1. /\ pc' \in [Tasks -> {"outside", "ioq_wait", "sema_down"}]
      /\ role' \in [Tasks -> RoleName] /\ arg' \in [Tasks -> Slot]
      /\ pc'[t] = "sema_down" /\ role'[t] = r
      /\ \A u \in Tasks : u # t => pc'[u] = pc[u] /\ role'[u] = role[u]
      /\ ArgInv'
  BY Moved
<1>2. /\ sleeper \in [RoleName -> Tasks \cup {NULL}] /\ NULL \notin Tasks
      /\ failed = FALSE /\ rd \subseteq Tasks /\ t \in rd /\ wq \in Seq(Tasks)
  BY IoQueueAssumption DEF AtLoop, TypeOK, NoAssertFails, RoleName
<1>3. SleeperInv'
  BY <1>1, <1>2 DEF AtLoop, SleeperInv
<1>4. LockHeld'
  BY <1>1, <1>2 DEF AtLoop, LockHeld
<1>5. /\ waiters' \in Seq(Tasks) /\ Len(waiters') = Len(wq) + 1
      /\ \A i \in 1 .. Len(wq) : waiters'[i] = wq[i]
      /\ waiters'[Len(wq) + 1] = t
  BY <1>2, AppendProperties
<1>6. Queued(waiters, ready)'
  <2>1. /\ \A i \in 1 .. Len(wq) : wq[i] \in Tasks /\ pc[wq[i]] = "sema_down" /\ wq[i] \notin rd
        /\ \A i, j \in 1 .. Len(wq) : wq[i] = wq[j] => i = j
        /\ Len(wq) \in Nat
    BY <1>2 DEF AtLoop, Queued
  <2>2. \A i \in 1 .. Len(wq) : wq[i] # t
    BY <1>2, <2>1
  <2>3. ASSUME NEW i \in 1 .. Len(wq) + 1
        PROVE  pc'[waiters'[i]] = "sema_down" /\ waiters'[i] \notin ready'
    BY <1>1, <1>2, <1>5, <2>1
  <2>4. ASSUME NEW i \in 1 .. Len(wq) + 1, NEW j \in 1 .. Len(wq) + 1, waiters'[i] = waiters'[j]
        PROVE  i = j
    BY <1>5, <2>1, <2>2, <2>4
  <2> QED BY <1>5, <2>3, <2>4 DEF Queued
<1>7. TypeOK'
  BY <1>1, <1>2, <1>5 DEF AtLoop, TypeOK, RoleName, Slot
<1> QED BY <1>1, <1>2, <1>3, <1>4, <1>6, <1>7 DEF IoqInv, NoAssertFails

(* The loop of ioq_getchar and ioq_putchar, from its test on.              *)
LEMMA LoopInv ==
    ASSUME NEW t \in Tasks, NEW r \in RoleName, NEW c \in Slot, NEW own, NEW wq, NEW rd,
           AtLoop(t, r, own, wq, rd), while_loop(t, r, c, own, wq, rd)
    PROVE  IoqInv'
<1>1. /\ head \in 0 .. bufsize - 1 /\ tail \in 0 .. bufsize - 1
      /\ buf \in [0 .. bufsize - 1 -> Slot] /\ byte \in [Tasks -> Slot]
      /\ own \in Tasks \cup {NULL}
  BY DEF AtLoop, TypeOK, Slot
<1>2. CASE ~must_wait(r) /\ r = "consumer"
  <2>1. get(t, rd) /\ holder' = own /\ waiters' = wq /\ pc' = [pc EXCEPT ![t] = "outside"]
    BY <1>2 DEF while_loop
  <2>2. /\ head' \in 0 .. bufsize - 1 /\ tail' \in 0 .. bufsize - 1
        /\ buf' \in [0 .. bufsize - 1 -> Slot] /\ byte' \in [Tasks -> Slot]
    BY <1>1, <2>1, NextPos DEF get
  <2>3. wakeup("producer", rd)
    BY <2>1 DEF get
  <2> QED BY <2>1, <2>2, <2>3, WakeupInv DEF RoleName
<1>3. CASE ~must_wait(r) /\ r # "consumer"
  <2>1. put(c, rd) /\ holder' = own /\ waiters' = wq /\ pc' = [pc EXCEPT ![t] = "outside"]
    BY <1>3 DEF while_loop
  <2>2. /\ head' \in 0 .. bufsize - 1 /\ tail' \in 0 .. bufsize - 1
        /\ buf' \in [0 .. bufsize - 1 -> Slot] /\ byte' \in [Tasks -> Slot]
    BY <1>1, <2>1, NextPos DEF put
  <2>3. wakeup("consumer", rd)
    BY <2>1 DEF put
  <2> QED BY <2>1, <2>2, <2>3, WakeupInv DEF RoleName
<1>4. CASE must_wait(r) /\ own = NULL
  <2>1. /\ ioq_wait(t, r, rd) /\ holder' = t /\ waiters' = wq
        /\ UNCHANGED <<head, tail, buf, byte>>
    BY <1>4 DEF while_loop, lock_free
  <2>2. AtLoop(t, r, NULL, wq, rd)
    BY <1>4
  <2> QED BY <2>1, <2>2, WaitInv
<1>5. CASE must_wait(r) /\ own # NULL
  <2>1. /\ pc' = [pc EXCEPT ![t] = "sema_down"] /\ holder' = own
        /\ waiters' = Append(wq, t) /\ ready' = rd \ {t}
        /\ UNCHANGED <<head, tail, buf, byte, sleeper, failed>>
    BY <1>5 DEF while_loop, lock_free
  <2>2. own \in Tasks
    BY <1>1, <1>5
  <2> QED BY <2>1, <2>2, SemaDownInv
<1> QED BY <1>2, <1>3, <1>4, <1>5

(* A call begins outside the queue: t is ready and does not hold its lock. *)
LEMMA EnterLoop ==
    ASSUME IoqInv, NEW t \in Tasks, t \in ready, pc[t] \in {"outside", "sema_down"},
           NEW r \in RoleName,
           role' = [role EXCEPT ![t] = r], arg' \in [Tasks -> Slot],
           \A u \in Tasks : u # t => arg'[u] = arg[u],
           r = "producer" => arg'[t] \in Char
    PROVE  AtLoop(t, r, holder, waiters, ready)
<1>1. TypeOK /\ NoAssertFails /\ LockHeld /\ SleeperInv /\ Queued(waiters, ready) /\ ArgInv
  BY DEF IoqInv
<1>2. holder \in Tasks \cup {NULL} /\ waiters \in Seq(Tasks) /\ ready \subseteq Tasks
  BY <1>1 DEF TypeOK
<1>3. \A u \in Tasks, q \in RoleName :
        sleeper[q] = u <=> u # t /\ pc[u] = "ioq_wait" /\ u \notin ready /\ role[u] = q
  BY <1>1 DEF SleeperInv
<1>4. /\ holder # NULL => pc[holder] = "ioq_wait" /\ holder # t
      /\ \A u \in Tasks : u # t /\ pc[u] = "ioq_wait" => holder = u
  BY <1>1 DEF LockHeld
<1>5. \A u \in Tasks : u # t /\ pc[u] # "outside" /\ role[u] = "producer" => arg[u] \in Char
  BY <1>1 DEF ArgInv
<1> QED BY <1>1, <1>2, <1>3, <1>4, <1>5 DEF AtLoop

LEMMA GetcharInv ==
    ASSUME IoqInv, NEW t \in Tasks, ioq_getchar(t)
    PROVE  AtLoop(t, "consumer", holder, waiters, ready) /\ IoqInv'
<1>1. /\ t \in ready /\ pc[t] = "outside"
      /\ role' = [role EXCEPT ![t] = "consumer"]
      /\ while_loop(t, "consumer", NULL, holder, waiters, ready)
      /\ arg' = arg
  BY DEF ioq_getchar
<1>2. arg \in [Tasks -> Slot]
  BY DEF IoqInv, TypeOK, Slot
<1>3. AtLoop(t, "consumer", holder, waiters, ready)
  BY <1>1, <1>2, EnterLoop DEF RoleName
<1>4. NULL \in Slot
  BY DEF Slot
<1> QED BY <1>1, <1>3, <1>4, LoopInv DEF RoleName

LEMMA PutcharInv ==
    ASSUME IoqInv, NEW t \in Tasks, NEW c \in Char, ioq_putchar(t, c)
    PROVE  AtLoop(t, "producer", holder, waiters, ready) /\ IoqInv'
<1>1. /\ t \in ready /\ pc[t] = "outside"
      /\ role' = [role EXCEPT ![t] = "producer"]
      /\ while_loop(t, "producer", c, holder, waiters, ready)
      /\ arg' = [arg EXCEPT ![t] = c]
  BY DEF ioq_putchar
<1>2. arg \in [Tasks -> Slot] /\ c \in Slot
  BY DEF IoqInv, TypeOK, Slot
<1>3. /\ arg' \in [Tasks -> Slot] /\ arg'[t] = c
      /\ \A u \in Tasks : u # t => arg'[u] = arg[u]
  BY <1>1, <1>2
<1>4. AtLoop(t, "producer", holder, waiters, ready)
  BY <1>1, <1>3, EnterLoop DEF RoleName
<1> QED BY <1>1, <1>2, <1>4, LoopInv DEF RoleName

(* The sleeper that wakes up gives the lock away before it tests again.    *)
WokenFor == IF waiters = <<>> THEN ready ELSE ready \cup {Head(waiters)}

StillQueued == IF waiters = <<>> THEN <<>> ELSE Tail(waiters)

LEMMA AfterWaitInv ==
    ASSUME IoqInv, NEW t \in Tasks, after_ioq_wait(t)
    PROVE  AtLoop(t, role[t], NULL, StillQueued, WokenFor) /\ IoqInv'
<1>1. /\ t \in ready /\ pc[t] = "ioq_wait" /\ UNCHANGED <<role, arg>>
      /\ while_loop(t, role[t], arg[t], NULL, StillQueued, WokenFor)
  BY DEF after_ioq_wait, WokenFor, StillQueued
<1>2. TypeOK /\ NoAssertFails /\ LockHeld /\ SleeperInv /\ Queued(waiters, ready) /\ ArgInv
  BY DEF IoqInv
<1>3. /\ waiters \in Seq(Tasks) /\ ready \subseteq Tasks
      /\ role \in [Tasks -> RoleName] /\ arg \in [Tasks -> Slot]
  BY <1>2 DEF TypeOK, RoleName, Slot
<1>4. /\ StillQueued \in Seq(Tasks) /\ WokenFor \subseteq Tasks
      /\ Queued(StillQueued, WokenFor)
      /\ \A u \in WokenFor : u \in ready \/ pc[u] = "sema_down"
  <2>1. CASE waiters = <<>>
    BY <1>2, <1>3, <2>1 DEF StillQueued, WokenFor
  <2>2. CASE waiters # <<>>
    <3>1. /\ Tail(waiters) \in Seq(Tasks) /\ Len(Tail(waiters)) = Len(waiters) - 1
          /\ \A i \in 1 .. Len(Tail(waiters)) : Tail(waiters)[i] = waiters[i + 1]
          /\ Len(waiters) \in Nat \ {0} /\ Head(waiters) = waiters[1]
          /\ Head(waiters) \in Tasks
      BY <1>3, <2>2, HeadTailProperties, EmptySeq
    <3>2. pc[Head(waiters)] = "sema_down"
      BY <1>2, <3>1 DEF Queued
    <3>3. Queued(Tail(waiters), ready \cup {Head(waiters)})
      BY <1>2, <3>1 DEF Queued
    <3> QED BY <1>3, <2>2, <3>1, <3>2, <3>3 DEF StillQueued, WokenFor
  <2> QED BY <2>1, <2>2
<1>5. /\ \A u \in Tasks : u # t => pc[u] # "ioq_wait"
      /\ ready \subseteq WokenFor
  BY <1>1, <1>2 DEF LockHeld, WokenFor
<1>6. \A u \in Tasks, q \in RoleName : sleeper[q] # u
  BY <1>1, <1>2, <1>5 DEF SleeperInv
<1>7. role' = [role EXCEPT ![t] = role[t]]
  BY <1>1, <1>3
<1>8. \A u \in Tasks : pc[u] # "outside" /\ role[u] = "producer" => arg[u] \in Char
  BY <1>2 DEF ArgInv
<1>9. AtLoop(t, role[t], NULL, StillQueued, WokenFor)
  BY <1>1, <1>2, <1>3, <1>4, <1>5, <1>6, <1>7, <1>8 DEF AtLoop
<1>10. role[t] \in RoleName /\ arg[t] \in Slot
  BY <1>3
<1> QED BY <1>1, <1>9, <1>10, LoopInv

LEMMA AfterSemaDownInv ==
    ASSUME IoqInv, NEW t \in Tasks, after_sema_down(t)
    PROVE  IoqInv'
<1>1. /\ t \in ready /\ pc[t] = "sema_down"
      /\ UNCHANGED <<head, tail, buf, role, arg, byte>>
  BY DEF after_sema_down
<1>2. /\ role \in [Tasks -> RoleName] /\ arg \in [Tasks -> Slot]
      /\ holder \in Tasks \cup {NULL} /\ ArgInv
      /\ pc \in [Tasks -> {"outside", "ioq_wait", "sema_down"}]
  BY DEF IoqInv, TypeOK, RoleName, Slot
<1>3. /\ role[t] \in RoleName /\ role' = [role EXCEPT ![t] = role[t]]
      /\ role[t] = "producer" => arg[t] \in Char
  BY <1>1, <1>2 DEF ArgInv
<1>4. AtLoop(t, role[t], holder, waiters, ready)
  BY <1>1, <1>2, <1>3, EnterLoop
<1>5. CASE holder = NULL
  <2>1. ioq_wait(t, role[t], ready) /\ holder' = t /\ UNCHANGED waiters
    BY <1>5 DEF after_sema_down, lock_free
  <2>2. AtLoop(t, role[t], NULL, waiters, ready)
    BY <1>4, <1>5
  <2> QED BY <1>1, <1>3, <2>1, <2>2, WaitInv
<1>6. CASE holder # NULL
  <2>1. /\ waiters' = Append(waiters, t) /\ ready' = ready \ {t}
        /\ UNCHANGED <<pc, sleeper, failed, holder>>
    BY <1>6 DEF after_sema_down, lock_free
  <2>2. pc' = [pc EXCEPT ![t] = "sema_down"] /\ holder \in Tasks
    BY <1>1, <1>2, <1>6, <2>1
  <2> QED BY <1>1, <1>3, <1>4, <2>1, <2>2, SemaDownInv
<1> QED BY <1>5, <1>6

-----------------------------------------------------------------------------
LEMMA InitIoqInv == Init => IoqInv
<1> SUFFICES ASSUME Init PROVE IoqInv
  OBVIOUS
<1> USE DEF Init, ioqueue_init
<1>1. TypeOK
  <2>1. 0 \in 0 .. bufsize - 1
    BY IoQueueAssumption
  <2>2. waiters \in Seq(Tasks)
    BY EmptySeq
  <2> QED BY <2>1, <2>2 DEF TypeOK
<1>2. NoAssertFails /\ LockHeld /\ ArgInv
  BY DEF NoAssertFails, LockHeld, ArgInv
<1>3. SleeperInv
  BY IoQueueAssumption DEF SleeperInv, RoleName
<1>4. Queued(waiters, ready)
  BY DEF Queued
<1> QED BY <1>1, <1>2, <1>3, <1>4 DEF IoqInv

LEMMA NextIoqInv == IoqInv /\ [Next]_vars => IoqInv'
<1> SUFFICES ASSUME IoqInv, [Next]_vars PROVE IoqInv'
  OBVIOUS
<1>1. CASE UNCHANGED vars
  <2>1. UNCHANGED <<head, tail, buf, sleeper, holder, waiters, ready, pc, role, arg, byte, failed>>
    BY <1>1 DEF vars, queue_vars, task_vars
  <2>2. TypeOK' /\ NoAssertFails'
    BY <2>1 DEF IoqInv, TypeOK, NoAssertFails
  <2>3. LockHeld' /\ SleeperInv' /\ ArgInv'
    BY <2>1 DEF IoqInv, LockHeld, SleeperInv, ArgInv
  <2>4. Queued(waiters, ready)'
    BY <2>1 DEF IoqInv, Queued
  <2> QED BY <2>2, <2>3, <2>4 DEF IoqInv
<1>2. CASE Next
  <2>1. PICK t \in Tasks : task_step(t)
    BY <1>2 DEF Next
  <2> QED BY <2>1, GetcharInv, PutcharInv, AfterWaitInv, AfterSemaDownInv DEF task_step
<1> QED BY <1>1, <1>2

LEMMA IoqInvariant == Spec => []IoqInv
  BY InitIoqInv, NextIoqInv, PTL DEF Spec

(* No order of ioq_getchar and ioq_putchar, by any number of tasks, makes  *)
(* an ASSERT of ioq_wait or thread_unblock fail, and whoever sleeps in     *)
(* ioq_wait is the one that its role's pointer remembers.                  *)
THEOREM QueueSound == Spec => []QueueInv
<1>1. IoqInv => QueueInv
  <2> SUFFICES ASSUME IoqInv PROVE SleeperRemembered
    BY DEF IoqInv, QueueInv
  <2>1. role \in [Tasks -> RoleName]
    BY DEF IoqInv, TypeOK, RoleName
  <2> QED BY <2>1 DEF IoqInv, LockHeld, SleeperInv, SleeperRemembered
<1> QED BY <1>1, IoqInvariant, PTL

(* One pass of the loop is one step of the FIFO, or none.                  *)
LEMMA LoopIsFifo ==
    ASSUME IoqInv, IoqInv', NEW t \in Tasks, NEW r \in RoleName, NEW c,
           r = "producer" => c \in Char, NEW own, NEW wq, NEW rd,
           while_loop(t, r, c, own, wq, rd)
    PROVE  [Abstract!FifoNext]_<<contents, byte>>
<1>1. RingOK /\ RingOK'
  BY DEF IoqInv, TypeOK, RingOK, Slot
<1>2. CASE ~must_wait(r) /\ r = "consumer"
  <2>1. get(t, rd) /\ ~ioq_empty
    BY <1>2 DEF while_loop, must_wait
  <2>2. /\ contents # <<>> /\ buf[tail] = Head(contents) /\ contents' = Tail(contents)
    BY <1>1, <2>1, GetTakesHead DEF get
  <2>3. Abstract!Get(t)
    BY <2>1, <2>2 DEF Abstract!Get, get
  <2> QED BY <2>3 DEF Abstract!FifoNext
<1>3. CASE ~must_wait(r) /\ r # "consumer"
  <2>1. put(c, rd) /\ ~ioq_full /\ c \in Char
    BY <1>3 DEF while_loop, must_wait, RoleName
  <2>2. Len(contents) < bufsize - 1 /\ contents' = Append(contents, c)
    BY <1>1, <2>1, PutAppends DEF put, Slot
  <2>3. Abstract!Put(c)
    BY <2>1, <2>2 DEF Abstract!Put, put
  <2> QED BY <2>1, <2>3 DEF Abstract!FifoNext
<1>4. CASE must_wait(r)
  <2>1. UNCHANGED <<head, tail, buf, byte>>
    BY <1>4 DEF while_loop
  <2> QED BY <2>1 DEF contents, count
<1> QED BY <1>2, <1>3, <1>4

LEMMA NextIsFifo == IoqInv /\ IoqInv' /\ [Next]_vars => [Abstract!FifoNext]_<<contents, byte>>
<1> SUFFICES ASSUME IoqInv, IoqInv', [Next]_vars
             PROVE  [Abstract!FifoNext]_<<contents, byte>>
  OBVIOUS
<1>1. CASE UNCHANGED vars
  BY <1>1 DEF vars, queue_vars, task_vars, contents, count
<1>2. ASSUME NEW t \in Tasks, task_step(t)
      PROVE  [Abstract!FifoNext]_<<contents, byte>>
  <2>1. CASE ioq_getchar(t)
    BY <2>1, LoopIsFifo DEF ioq_getchar, RoleName
  <2>2. CASE \E c \in Char : ioq_putchar(t, c)
    BY <2>2, LoopIsFifo DEF ioq_putchar, RoleName
  <2>3. CASE after_ioq_wait(t)
    <3>1. /\ role[t] \in RoleName
          /\ role[t] = "producer" => arg[t] \in Char
          /\ while_loop(t, role[t], arg[t], NULL, StillQueued, WokenFor)
      BY <2>3 DEF IoqInv, TypeOK, ArgInv, RoleName, after_ioq_wait, WokenFor, StillQueued
    <3> QED BY <3>1, LoopIsFifo
  <2>4. CASE after_sema_down(t)
    BY <2>4 DEF after_sema_down, contents, count
  <2> QED BY <1>2, <2>1, <2>2, <2>3, <2>4 DEF task_step
<1> QED BY <1>1, <1>2 DEF Next

(* The ring is a first-in first-out buffer of bufsize - 1 characters: none *)
(* is lost, duplicated or overtaken, whatever the number of tasks and      *)
(* whoever sleeps where.                                                   *)
THEOREM QueueImplementsFifo == Spec => FifoRefinement
<1>1. Init => Abstract!FifoInit
  <2> SUFFICES ASSUME Init PROVE contents = <<>> /\ byte = [t \in Tasks |-> NULL]
    BY DEF Abstract!FifoInit
  <2>1. RingOK
    BY InitIoqInv DEF IoqInv, TypeOK, RingOK, Slot
  <2>2. RingRead
    BY <2>1, RingIsRead
  <2>3. count = 0
    BY <2>2 DEF RingRead, Init, ioqueue_init
  <2>4. contents = <<>>
    BY <2>2, <2>3, EmptySeq DEF RingRead
  <2> QED BY <2>4 DEF Init
<1> QED BY <1>1, NextIsFifo, IoqInvariant, PTL DEF Spec, FifoRefinement, Abstract!FifoSpec

-----------------------------------------------------------------------------
(* The keyboard's buffer with one reader.  The reader is outside, woken in *)
(* ioq_wait, or asleep there, and then the buffer is empty and the pointer *)
(* consumer names it.  Nobody else takes the lock.                         *)
OneReader == \A t, u \in Tasks : t = u

ReaderPlace(t) ==
    \/ pc[t] = "outside" /\ holder = NULL /\ t \in ready /\ sleeper["consumer"] = NULL
    \/ pc[t] = "ioq_wait" /\ holder = t /\ t \in ready /\ sleeper["consumer"] = NULL
    \/ pc[t] = "ioq_wait" /\ holder = t /\ t \notin ready /\ sleeper["consumer"] = t
         /\ ioq_empty

ReaderInv ==
    /\ pc \in [Tasks -> {"outside", "ioq_wait", "sema_down"}]
    /\ role = [t \in Tasks |-> "consumer"]
    /\ sleeper \in [RoleName -> Tasks \cup {NULL}]
    /\ ready \subseteq Tasks
    /\ sleeper["producer"] = NULL
    /\ waiters = <<>>
    /\ failed = FALSE
    /\ \A t \in Tasks : ReaderPlace(t)

(* The handler's put wakes a sleeping reader.                              *)
LEMMA HandlerPutReader ==
    ASSUME OneReader, ReaderInv, NEW c, put(c, ready),
           UNCHANGED <<holder, waiters, pc, role, arg>>
    PROVE  ReaderInv'
<1>1. /\ sleeper \in [RoleName -> Tasks \cup {NULL}] /\ NULL \notin Tasks
      /\ failed = FALSE /\ wakeup("consumer", ready)
  BY IoQueueAssumption DEF ReaderInv, put
<1>2. CASE sleeper["consumer"] = NULL
  <2>1. UNCHANGED <<ready, sleeper, failed>>
    BY <1>2 DEF put, wakeup
  <2>2. \A t \in Tasks : ReaderPlace(t)'
    BY <1>1, <1>2, <2>1 DEF ReaderInv, ReaderPlace
  <2> QED BY <2>1, <2>2 DEF ReaderInv
<1>3. CASE sleeper["consumer"] # NULL
  <2>1. /\ ready' = ready \cup {sleeper["consumer"]}
        /\ sleeper' = [sleeper EXCEPT !["consumer"] = NULL]
        /\ failed' = (failed \/ sleeper["consumer"] \in ready)
    BY <1>3 DEF put, wakeup
  <2>2. PICK t \in Tasks : t = sleeper["consumer"]
    BY <1>1, <1>3 DEF RoleName
  <2>3. failed' = FALSE
    <3>1. sleeper["consumer"] \notin ready
      BY <1>1, <2>2 DEF ReaderInv, ReaderPlace
    <3> QED BY <1>1, <2>1, <3>1
  <2>4. /\ sleeper' \in [RoleName -> Tasks \cup {NULL}]
        /\ sleeper'["consumer"] = NULL /\ sleeper'["producer"] = sleeper["producer"]
    BY <1>1, <2>1 DEF RoleName
  <2>5. \A u \in Tasks : u = t /\ ReaderPlace(u)'
    BY <1>1, <1>3, <2>1, <2>2, <2>4 DEF OneReader, ReaderInv, ReaderPlace
  <2>6. ready' \subseteq Tasks
    BY <2>1, <2>2 DEF ReaderInv
  <2> QED BY <2>3, <2>4, <2>5, <2>6 DEF ReaderInv
<1> QED BY <1>2, <1>3

(* The reader reads and is outside again, or it finds the buffer empty and *)
(* sleeps: with interrupts off nothing comes between the test and the      *)
(* sleep.                                                                  *)
LEMMA ReaderStepReader ==
    ASSUME OneReader, ReaderInv, NEW t \in Tasks, ioq_getchar(t) \/ after_ioq_wait(t)
    PROVE  ReaderInv'
<1>1. /\ sleeper \in [RoleName -> Tasks \cup {NULL}] /\ NULL \notin Tasks
      /\ failed = FALSE /\ t \in ready /\ ready \subseteq Tasks /\ waiters = <<>>
      /\ role = [u \in Tasks |-> "consumer"]
      /\ pc \in [Tasks -> {"outside", "ioq_wait", "sema_down"}]
  BY IoQueueAssumption DEF ReaderInv, ioq_getchar, after_ioq_wait
<1>2. /\ while_loop(t, "consumer", IF pc[t] = "outside" THEN NULL ELSE arg[t], NULL, <<>>, ready)
      /\ role' = role
  <2>1. CASE ioq_getchar(t)
    <3>1. pc[t] = "outside" /\ holder = NULL
      BY <2>1 DEF ReaderInv, ReaderPlace, ioq_getchar
    <3> QED BY <1>1, <2>1, <3>1 DEF ioq_getchar
  <2>2. CASE after_ioq_wait(t)
    BY <1>1, <2>2 DEF after_ioq_wait
  <2> QED BY <2>1, <2>2
<1>3. sleeper["consumer"] = NULL /\ sleeper["producer"] = NULL
  BY <1>1 DEF ReaderInv, ReaderPlace
<1>4. CASE ioq_empty
  <2>1. /\ ioq_wait(t, "consumer", ready) /\ holder' = t /\ waiters' = <<>>
        /\ UNCHANGED <<head, tail>>
    BY <1>2, <1>4 DEF while_loop, must_wait, lock_free
  <2>2. /\ failed' = FALSE /\ sleeper' = [sleeper EXCEPT !["consumer"] = t]
        /\ ready' = ready \ {t} /\ pc' = [pc EXCEPT ![t] = "ioq_wait"]
    BY <1>1, <1>3, <2>1 DEF ioq_wait
  <2>3. /\ sleeper' \in [RoleName -> Tasks \cup {NULL}]
        /\ sleeper'["consumer"] = t /\ sleeper'["producer"] = NULL
        /\ pc' \in [Tasks -> {"outside", "ioq_wait", "sema_down"}] /\ pc'[t] = "ioq_wait"
        /\ ready' \subseteq Tasks /\ t \notin ready'
    BY <1>1, <1>3, <2>2 DEF RoleName
  <2>4. ioq_empty'
    BY <1>4, <2>1 DEF ioq_empty
  <2>5. \A u \in Tasks : u = t /\ ReaderPlace(u)'
    BY <2>1, <2>3, <2>4 DEF OneReader, ReaderPlace
  <2> QED BY <1>1, <1>2, <2>1, <2>2, <2>3, <2>5 DEF ReaderInv
<1>5. CASE ~ioq_empty
  <2>1. /\ get(t, ready) /\ holder' = NULL /\ waiters' = <<>>
        /\ pc' = [pc EXCEPT ![t] = "outside"]
    BY <1>2, <1>5 DEF while_loop, must_wait
  <2>2. ready' = ready /\ UNCHANGED <<sleeper, failed>>
    BY <1>3, <2>1 DEF get, wakeup
  <2>3. pc' \in [Tasks -> {"outside", "ioq_wait", "sema_down"}] /\ pc'[t] = "outside"
    BY <1>1, <2>1
  <2>4. \A u \in Tasks : u = t /\ ReaderPlace(u)'
    BY <1>1, <1>3, <2>1, <2>2, <2>3 DEF OneReader, ReaderPlace
  <2> QED BY <1>1, <1>2, <1>3, <2>1, <2>2, <2>3, <2>4 DEF ReaderInv
<1> QED BY <1>4, <1>5

(* keyboard_init leaves the reader outside; a step of the keyboard or of   *)
(* the reader keeps ReaderInv.                                             *)
LEMMA InitReader == keyboard_init => ReaderInv
  BY IoQueueAssumption
     DEF keyboard_init, Init, ioqueue_init, ReaderInv, ReaderPlace, RoleName

LEMMA NextReader == OneReader /\ ReaderInv /\ [KbdNext]_kbd_vars => ReaderInv'
<1> SUFFICES ASSUME OneReader, ReaderInv, [KbdNext]_kbd_vars PROVE ReaderInv'
  OBVIOUS
<1>1. CASE UNCHANGED vars
  <2>1. UNCHANGED <<head, tail, sleeper, holder, waiters, ready, pc, role, failed>>
    BY <1>1 DEF vars, queue_vars, task_vars
  <2> QED BY <2>1 DEF ReaderInv, ReaderPlace, ioq_empty
<1>2. CASE intr_keyboard_handler
  <2>1. \/ UNCHANGED vars
        \/ \E c : put(c, ready) /\ UNCHANGED <<holder, waiters, pc, role, arg>>
    BY <1>2 DEF intr_keyboard_handler
  <2> QED BY <1>1, <2>1, HandlerPutReader
<1>3. CASE \E k \in Keys : press(k) \/ release(k)
  BY <1>1, <1>3 DEF press, release
<1>4. CASE \E t \in Tasks : reader_step(t)
  BY <1>4, ReaderStepReader DEF reader_step
<1> QED BY <1>1, <1>2, <1>3, <1>4 DEF KbdNext, kbd_vars

(* A reader of kbd_buf never sleeps while there is a character to read,    *)
(* and no ASSERT of the queue fails, however key presses, the handler and  *)
(* the reader interleave.  Two readers would not do: the second waits for  *)
(* the lock that the first one sleeps with.                                *)
THEOREM ReaderIsWoken ==
    ASSUME OneReader
    PROVE  KbdSpec => []KeyboardInv
<1>1. OneReader
  OBVIOUS
<1>2. ReaderInv => KeyboardInv
  BY DEF ReaderInv, ReaderPlace, KeyboardInv, NoAssertFails, ReaderAwakeWhenNotEmpty
<1>3. ReaderInv /\ [KbdNext]_kbd_vars => ReaderInv'
  BY <1>1, NextReader
<1> QED BY <1>2, <1>3, InitReader, PTL DEF KbdSpec

-----------------------------------------------------------------------------
(* The modifier keys.  In the bytes s that the handler has still to read,  *)
(* the byte at i follows 0xe0 if the one before it is 0xe0, or, for the    *)
(* first one, if the handler has just seen 0xe0 (e).  Scan code at i, and  *)
(* whether it is a press or a release of a key of P:                       *)
Prefixed(b) == 57344 + b

CodeAt(s, e, i) ==
    IF (i = 1 /\ e) \/ (i # 1 /\ s[i - 1] = 224) THEN Prefixed(s[i]) ELSE s[i]

Makes(s, e, i, P) == s[i] # 224 /\ CodeAt(s, e, i) \in P

Breaks(s, e, i, P) == s[i] # 224 /\ CodeAt(s, e, i) - 128 \in P

(* From i on there is nothing about the keys of P.                         *)
Quiet(s, e, i, P) ==
    \A j \in i .. Len(s) : ~Makes(s, e, j, P) /\ ~Breaks(s, e, j, P)

(* The last event of P among the bytes tells whether a key of P is held in *)
(* dn or one of them is not; without one the status variable on does.      *)
Tracks(P, on, s, e, dn) ==
    /\ Quiet(s, e, 1, P) => /\ on => dn \cap P # {}
                            /\ P \cap Keys # {} /\ P \cap Keys \subseteq dn => on
    /\ \A i \in 1 .. Len(s) :
         Quiet(s, e, i + 1, P) => /\ Makes(s, e, i, P) => dn \cap P # {}
                                  /\ Breaks(s, e, i, P) => ~(P \cap Keys \subseteq dn)

(* The handler takes the first byte and applies it to the status variable. *)
LEMMA TracksTail ==
    ASSUME NEW P, NEW on, NEW on2, NEW e, NEW dn, NEW s \in Seq(1 .. 255), s # <<>>,
           Tracks(P, on, s, e, dn),
           Makes(s, e, 1, P) => on2,
           Breaks(s, e, 1, P) => ~on2,
           ~Makes(s, e, 1, P) /\ ~Breaks(s, e, 1, P) => (on2 <=> on)
    PROVE  Tracks(P, on2, Tail(s), s[1] = 224, dn)
<1> DEFINE s2 == Tail(s)
           e2 == s[1] = 224
<1>1. /\ Len(s) \in Nat \ {0} /\ s2 \in Seq(1 .. 255) /\ Len(s2) = Len(s) - 1
      /\ \A i \in 1 .. Len(s2) : s2[i] = s[i + 1]
  BY HeadTailProperties, EmptySeq
<1>2. \A i \in 1 .. Len(s2) : CodeAt(s2, e2, i) = CodeAt(s, e, i + 1)
  BY <1>1 DEF CodeAt
<1> HIDE DEF s2, e2
<1>3. \A i \in 1 .. Len(s2) :
        /\ Makes(s2, e2, i, P) <=> Makes(s, e, i + 1, P)
        /\ Breaks(s2, e2, i, P) <=> Breaks(s, e, i + 1, P)
  BY <1>1, <1>2 DEF Makes, Breaks
<1>4. \A i \in Nat \ {0} : Quiet(s2, e2, i, P) => Quiet(s, e, i + 1, P)
  <2> SUFFICES ASSUME NEW i \in Nat \ {0}, Quiet(s2, e2, i, P), NEW j \in i + 1 .. Len(s)
               PROVE  ~Makes(s, e, j, P) /\ ~Breaks(s, e, j, P)
    BY DEF Quiet
  <2>1. j - 1 \in i .. Len(s2) /\ j - 1 \in 1 .. Len(s2) /\ (j - 1) + 1 = j
    BY <1>1
  <2>2. ~Makes(s2, e2, j - 1, P) /\ ~Breaks(s2, e2, j - 1, P)
    BY <2>1 DEF Quiet
  <2> QED BY <1>3, <2>1, <2>2
<1>5. ASSUME Quiet(s2, e2, 1, P) PROVE (on2 => dn \cap P # {}) /\ (P \cap Keys # {} /\ P \cap Keys \subseteq dn => on2)
  <2>1. Quiet(s, e, 2, P)
    BY <1>4, <1>5
  <2>2. 1 \in 1 .. Len(s) /\ 1 + 1 = 2
    BY <1>1
  <2>3. /\ Makes(s, e, 1, P) => dn \cap P # {}
        /\ Breaks(s, e, 1, P) => ~(P \cap Keys \subseteq dn)
    BY <2>1, <2>2 DEF Tracks
  <2>4. ~Makes(s, e, 1, P) /\ ~Breaks(s, e, 1, P) => Quiet(s, e, 1, P)
    BY <1>1, <2>1 DEF Quiet
  <2> QED BY <2>3, <2>4 DEF Tracks
<1>6. ASSUME NEW i \in 1 .. Len(s2), Quiet(s2, e2, i + 1, P)
      PROVE  /\ Makes(s2, e2, i, P) => dn \cap P # {}
             /\ Breaks(s2, e2, i, P) => ~(P \cap Keys \subseteq dn)
  <2>1. Quiet(s, e, (i + 1) + 1, P) /\ i + 1 \in 1 .. Len(s)
    BY <1>1, <1>4, <1>6
  <2> QED BY <1>3, <2>1 DEF Tracks
<1>7. Tracks(P, on2, s2, e2, dn)
  BY <1>5, <1>6 DEF Tracks
<1> QED BY <1>7 DEF s2, e2

(* The last byte of s is a press or a release that takes the held keys     *)
(* from dn to dn2, as far as the keys of P go.                             *)
LastEvent(P, s, e, dn, dn2) ==
    /\ Makes(s, e, Len(s), P) => dn2 \cap P # {}
    /\ Breaks(s, e, Len(s), P) => ~(P \cap Keys \subseteq dn2)
    /\ ~Makes(s, e, Len(s), P) /\ ~Breaks(s, e, Len(s), P) => dn2 \cap P = dn \cap P

(* A new code at the end of the bytes, after an 0xe0 of its own or none.   *)
LEMMA TracksAppend ==
    ASSUME NEW P, NEW on, NEW e, NEW dn, NEW dn2,
           NEW s \in Seq(1 .. 255), NEW s2 \in Seq(1 .. 255),
           Tracks(P, on, s, e, dn),
           Len(s2) \in {Len(s) + 1, Len(s) + 2},
           \A i \in 1 .. Len(s) : s2[i] = s[i],
           Len(s2) = Len(s) + 2 => s2[Len(s) + 1] = 224,
           LastEvent(P, s2, e, dn, dn2)
    PROVE  Tracks(P, on, s2, e, dn2)
<1> DEFINE n == Len(s2)
<1>0. /\ Makes(s2, e, n, P) => dn2 \cap P # {}
      /\ Breaks(s2, e, n, P) => ~(P \cap Keys \subseteq dn2)
      /\ ~Makes(s2, e, n, P) /\ ~Breaks(s2, e, n, P) => dn2 \cap P = dn \cap P
  BY DEF LastEvent
<1>1. Len(s) \in Nat /\ n \in Nat /\ n > Len(s)
  BY LenProperties
<1>2. ASSUME NEW i \in 1 .. Len(s) PROVE CodeAt(s2, e, i) = CodeAt(s, e, i)
  <2>1. s2[i] = s[i] /\ (i # 1 => i - 1 \in 1 .. Len(s))
    BY <1>1
  <2>2. i # 1 => s2[i - 1] = s[i - 1]
    BY <2>1
  <2> QED BY <2>1, <2>2 DEF CodeAt
<1>3. \A i \in 1 .. Len(s) : /\ Makes(s2, e, i, P) <=> Makes(s, e, i, P)
                             /\ Breaks(s2, e, i, P) <=> Breaks(s, e, i, P)
  BY <1>2 DEF Makes, Breaks
<1>4. \A i \in Len(s) + 1 .. n - 1 : ~Makes(s2, e, i, P) /\ ~Breaks(s2, e, i, P)
  <2>1. \A i \in Len(s) + 1 .. n - 1 : i = Len(s) + 1 /\ n = Len(s) + 2
    BY <1>1
  <2>2. \A i \in Len(s) + 1 .. n - 1 : s2[i] = 224
    BY <2>1
  <2> QED BY <2>2 DEF Makes, Breaks
<1> HIDE DEF n
<1>5. CASE Makes(s2, e, n, P) \/ Breaks(s2, e, n, P)
  <2>1. \A i \in 1 .. n : ~Quiet(s2, e, i, P)
    BY <1>1, <1>5 DEF Quiet, n
  <2>2. ASSUME NEW i \in 1 .. n, Quiet(s2, e, i + 1, P)
        PROVE  i = n
    BY <1>1, <2>1, <2>2
  <2> QED BY <1>0, <1>1, <2>1, <2>2 DEF Tracks, n
<1>6. CASE ~Makes(s2, e, n, P) /\ ~Breaks(s2, e, n, P)
  <2>1. dn2 \cap P = dn \cap P /\ (P \cap Keys \subseteq dn2 <=> P \cap Keys \subseteq dn)
    BY <1>0, <1>6
  <2>2. \A i \in 1 .. n : Quiet(s2, e, i, P) => Quiet(s, e, i, P)
    BY <1>1, <1>3 DEF Quiet, n
  <2>3. \A i \in Nat : i > Len(s) => Quiet(s, e, i, P)
    BY <1>1 DEF Quiet
  <2>4. ASSUME NEW i \in 1 .. n, Quiet(s2, e, i + 1, P)
        PROVE  /\ Makes(s2, e, i, P) => dn2 \cap P # {}
               /\ Breaks(s2, e, i, P) => ~(P \cap Keys \subseteq dn2)
    <3>1. CASE i > Len(s)
      BY <1>1, <1>4, <1>6, <3>1
    <3>2. CASE i \in 1 .. Len(s)
      <4>1. Quiet(s, e, i + 1, P)
        BY <1>1, <2>2, <2>4, <3>2
      <4> QED BY <1>3, <2>1, <3>2, <4>1 DEF Tracks
    <3> QED BY <1>1, <3>1, <3>2
  <2> QED BY <1>1, <2>1, <2>2, <2>4 DEF Tracks, n
<1> QED BY <1>5, <1>6

(* The three pairs of modifier keys.                                       *)
CtrlKeys == {ctrl_l_make, ctrl_r_make}
AltKeys == {alt_l_make, alt_r_make}
ShiftKeys == {shift_l_make, shift_r_make}

PortInv ==
    /\ port \in Seq(1 .. 255)
    /\ port # <<>> => port[Len(port)] # 224
    /\ port = <<>> => ~ext_scancode
    /\ down \subseteq Keys
    /\ ext_scancode \in BOOLEAN

ModifierInv ==
    /\ PortInv
    /\ Tracks(CtrlKeys, ctrl_status, port, ext_scancode, down)
    /\ Tracks(AltKeys, alt_status, port, ext_scancode, down)
    /\ Tracks(ShiftKeys, shift_status, port, ext_scancode, down)

(* What a key sends is read back as its code.                              *)
Appended(s2, k, rel) ==
    /\ s2 \in Seq(1 .. 255)
    /\ Len(s2) \in {Len(port) + 1, Len(port) + 2}
    /\ \A i \in 1 .. Len(port) : s2[i] = port[i]
    /\ Len(s2) = Len(port) + 2 => s2[Len(port) + 1] = 224
    /\ s2[Len(s2)] # 224
    /\ CodeAt(s2, ext_scancode, Len(s2)) = k + (IF rel THEN 128 ELSE 0)

LEMMA ScanAppended ==
    ASSUME PortInv, NEW k \in Keys, NEW rel \in BOOLEAN, NEW bytes,
           bytes = port \o scan_bytes(k, rel)
    PROVE  Appended(bytes, k, rel)
<1> DEFINE b == (k % 256) + (IF rel THEN 128 ELSE 0)
           n == Len(port)
<1>0. PICK s2 : s2 = bytes
  OBVIOUS
<1>1. k \in (1 .. 127) \cup (57345 .. 57471) /\ k % 256 # 96
  BY KeyboardAssumption
<1>2. b \in 1 .. 255 /\ b # 224
  BY <1>1
<1>3. /\ k >= 57344 => b = (k - 57344) + (IF rel THEN 128 ELSE 0)
      /\ ~(k >= 57344) => b = k + (IF rel THEN 128 ELSE 0)
  BY <1>1
<1>4. /\ port \in Seq(1 .. 255) /\ n \in Nat
      /\ port # <<>> => n # 0 /\ port[n] # 224
      /\ port = <<>> => n = 0 /\ ~ext_scancode
  BY LenProperties, EmptySeq DEF PortInv
<1> HIDE DEF b, n
<1>5. CASE k >= 57344
  <2>1. scan_bytes(k, rel) = <<224>> \o <<b>>
    BY <1>5 DEF scan_bytes, b
  <2>2. <<224, b>> \in Seq(1 .. 255) /\ Len(<<224, b>>) = 2
    BY <1>2
  <2>3. <<224>> \o <<b>> = <<224, b>>
    <3>1. <<224>> \in Seq(1 .. 255) /\ <<b>> \in Seq(1 .. 255)
      BY <1>2
    <3>2. /\ <<224>> \o <<b>> \in Seq(1 .. 255) /\ Len(<<224>> \o <<b>>) = 2
          /\ \A i \in 1 .. 2 :
               (<<224>> \o <<b>>)[i] = IF i <= 1 THEN <<224>>[i] ELSE <<b>>[i - 1]
      BY <3>1, ConcatProperties
    <3>3. \A i \in 1 .. 2 : (<<224>> \o <<b>>)[i] = <<224, b>>[i]
      BY <3>2
    <3> HIDE DEF b
    <3>4. Len(<<224>> \o <<b>>) = Len(<<224, b>>)
      BY <2>2, <3>2
    <3>5. \A i \in 1 .. Len(<<224>> \o <<b>>) : (<<224>> \o <<b>>)[i] = <<224, b>>[i]
      BY <3>2, <3>3
    <3>6. PICK t, u : t = <<224>> \o <<b>> /\ u = <<224, b>>
      OBVIOUS
    <3>7. /\ t \in Seq(1 .. 255) /\ u \in Seq(1 .. 255) /\ Len(t) = Len(u)
          /\ \A i \in 1 .. Len(t) : t[i] = u[i]
      BY <2>2, <3>2, <3>4, <3>5, <3>6, Zenon
    <3>8. t = u
      BY <3>7, SeqEqual
    <3> QED BY <3>6, <3>8, Zenon
  <2>4. /\ s2 \in Seq(1 .. 255) /\ Len(s2) = n + 2
        /\ \A i \in 1 .. n + 2 : s2[i] = IF i <= n THEN port[i] ELSE <<224, b>>[i - n]
    BY <1>0, <1>4, <2>1, <2>2, <2>3, ConcatProperties DEF n
  <2>5. s2[n + 1] = 224 /\ s2[n + 2] = b
    <3>1. /\ n + 1 \in 1 .. n + 2 /\ ~(n + 1 <= n) /\ (n + 1) - n = 1
          /\ n + 2 \in 1 .. n + 2 /\ ~(n + 2 <= n) /\ (n + 2) - n = 2
      BY <1>4
    <3>2. s2[n + 1] = <<224, b>>[1] /\ s2[n + 2] = <<224, b>>[2]
      BY <2>4, <3>1
    <3> QED BY <3>2
  <2>6. CodeAt(s2, ext_scancode, n + 2) = Prefixed(b)
    <3>1. n + 2 # 1 /\ (n + 2) - 1 = n + 1
      BY <1>4
    <3>2. CodeAt(s2, ext_scancode, n + 2) = IF s2[n + 1] = 224 THEN Prefixed(s2[n + 2]) ELSE s2[n + 2]
      BY <1>4 DEF CodeAt
    <3> QED BY <2>5, <3>2, Zenon
  <2>7. \A i \in 1 .. n : s2[i] = port[i]
    BY <1>4, <2>4
  <2> QED BY <1>0, <1>1, <1>2, <1>3, <1>5, <2>4, <2>5, <2>6, <2>7 DEF n, Prefixed, Appended
<1>6. CASE ~(k >= 57344)
  <2>1. scan_bytes(k, rel) = <<>> \o <<b>>
    BY <1>6 DEF scan_bytes, b
  <2>2. <<b>> \in Seq(1 .. 255) /\ Len(<<b>>) = 1
    BY <1>2
  <2>3. <<>> \o <<b>> = <<b>>
    BY <2>2, ConcatEmptySeq
  <2>4. /\ s2 \in Seq(1 .. 255) /\ Len(s2) = n + 1
        /\ \A i \in 1 .. n + 1 : s2[i] = IF i <= n THEN port[i] ELSE <<b>>[i - n]
    BY <1>0, <1>4, <2>1, <2>2, <2>3, ConcatProperties DEF n
  <2>5. s2[n + 1] = b /\ \A i \in 1 .. n : s2[i] = port[i]
    BY <1>4, <2>4
  <2>6. CodeAt(s2, ext_scancode, n + 1) = b
    <3>1. CASE port = <<>>
      BY <1>4, <2>5, <3>1 DEF CodeAt
    <3>2. CASE port # <<>>
      <4>1. n \in 1 .. n /\ n + 1 # 1 /\ (n + 1) - 1 = n
        BY <1>4, <3>2
      <4>2. s2[n] # 224
        BY <1>4, <2>5, <3>2, <4>1
      <4>3. CodeAt(s2, ext_scancode, n + 1) = IF s2[n] = 224 THEN Prefixed(s2[n + 1]) ELSE s2[n + 1]
        BY <1>4, <4>1 DEF CodeAt
      <4> QED BY <2>5, <4>2, <4>3, Zenon
    <3> QED BY <3>1, <3>2
  <2> QED BY <1>0, <1>1, <1>2, <1>3, <1>4, <1>6, <2>4, <2>5, <2>6 DEF n, Appended
<1> QED BY <1>5, <1>6

(* The codes of the modifier keys; a release adds 0x80 to the last byte,   *)
(* so that no code is a press of one key and a release of another.         *)
LEMMA KeyCodes ==
    ASSUME NEW P \in {CtrlKeys, AltKeys, ShiftKeys}, NEW k \in Keys, NEW rel \in BOOLEAN,
           NEW code, code = k + (IF rel THEN 128 ELSE 0)
    PROVE  /\ code \in P <=> k \in P /\ ~rel
           /\ code - 128 \in P <=> k \in P /\ rel
<1>1. k \in (1 .. 127) \cup (57345 .. 57471)
  BY KeyboardAssumption
<1> QED BY <1>1 DEF CtrlKeys, AltKeys, ShiftKeys, ctrl_l_make, ctrl_r_make, alt_l_make,
                   alt_r_make, shift_l_make, shift_r_make

(* A key is pressed or released: its bytes are the last event of its pair. *)
LEMMA KeyTracks ==
    ASSUME PortInv, NEW P \in {CtrlKeys, AltKeys, ShiftKeys}, NEW on,
           Tracks(P, on, port, ext_scancode, down),
           NEW k \in Keys, NEW rel \in BOOLEAN, NEW bytes, NEW dn,
           bytes = port \o scan_bytes(k, rel),
           dn = IF rel THEN down \ {k} ELSE down \cup {k}
    PROVE  Tracks(P, on, bytes, ext_scancode, dn)
<1>1. PICK s2 : s2 = bytes
  OBVIOUS
<1> DEFINE code == k + (IF rel THEN 128 ELSE 0)
<1>2. /\ s2 \in Seq(1 .. 255)
      /\ Len(s2) \in {Len(port) + 1, Len(port) + 2}
      /\ \A i \in 1 .. Len(port) : s2[i] = port[i]
      /\ Len(s2) = Len(port) + 2 => s2[Len(port) + 1] = 224
      /\ s2[Len(s2)] # 224
      /\ CodeAt(s2, ext_scancode, Len(s2)) = code
  <2>1. Appended(s2, k, rel)
    BY <1>1, ScanAppended, Zenon
  <2> QED BY <2>1 DEF Appended
<1>3. /\ Makes(s2, ext_scancode, Len(s2), P) <=> k \in P /\ ~rel
      /\ Breaks(s2, ext_scancode, Len(s2), P) <=> k \in P /\ rel
  <2>1. /\ code \in P <=> k \in P /\ ~rel
        /\ code - 128 \in P <=> k \in P /\ rel
    BY KeyCodes
  <2> HIDE DEF code
  <2> QED BY <1>2, <2>1 DEF Makes, Breaks
<1>4. k \in P /\ ~rel => dn \cap P # {}
  OBVIOUS
<1>5. k \in P /\ rel => ~(P \cap Keys \subseteq dn)
  OBVIOUS
<1>6. k \notin P => dn \cap P = down \cap P
  OBVIOUS
<1>7. port \in Seq(1 .. 255)
  BY DEF PortInv
<1>8. /\ Makes(s2, ext_scancode, Len(s2), P) => dn \cap P # {}
      /\ Breaks(s2, ext_scancode, Len(s2), P) => ~(P \cap Keys \subseteq dn)
      /\ ~Makes(s2, ext_scancode, Len(s2), P) /\ ~Breaks(s2, ext_scancode, Len(s2), P)
           => dn \cap P = down \cap P
  BY <1>3, <1>4, <1>5, <1>6
<1> HIDE DEF code
<1>9. Tracks(P, on, s2, ext_scancode, dn)
  <2>1. LastEvent(P, s2, ext_scancode, down, dn)
    BY <1>8 DEF LastEvent
  <2> QED BY <1>2, <1>7, <2>1, TracksAppend
<1> QED BY <1>1, <1>9

LEMMA KeyModifier ==
    ASSUME ModifierInv, NEW k \in Keys, press(k) \/ release(k)
    PROVE  ModifierInv'
<1>1. PICK rel \in BOOLEAN :
        /\ port' = port \o scan_bytes(k, rel)
        /\ down' = IF rel THEN down \ {k} ELSE down \cup {k}
        /\ UNCHANGED flags
  BY DEF press, release
<1>2. UNCHANGED <<ctrl_status, alt_status, shift_status, ext_scancode>>
  BY <1>1 DEF flags
<1>3. PortInv'
  <2>1. /\ port' \in Seq(1 .. 255) /\ port'[Len(port')] # 224
        /\ Len(port') \in {Len(port) + 1, Len(port) + 2}
    <3>1. PortInv
      BY DEF ModifierInv
    <3>2. Appended(port', k, rel)
      BY <1>1, <3>1, ScanAppended, Zenon
    <3> QED BY <3>2 DEF Appended
  <2>2. port' # <<>>
    <3>1. Len(port) \in Nat
      BY LenProperties DEF ModifierInv, PortInv
    <3>2. Len(port') # 0
      BY <2>1, <3>1
    <3> QED BY <3>2, EmptySeq
  <2>3. down' \subseteq Keys
    BY <1>1 DEF ModifierInv, PortInv
  <2>4. ext_scancode' \in BOOLEAN
    BY <1>2 DEF ModifierInv, PortInv
  <2> QED BY <2>1, <2>2, <2>3, <2>4 DEF PortInv
<1>4. PICK s2, dn : s2 = port' /\ dn = down'
  OBVIOUS
<1>5. /\ Tracks(CtrlKeys, ctrl_status, s2, ext_scancode, dn)
      /\ Tracks(AltKeys, alt_status, s2, ext_scancode, dn)
      /\ Tracks(ShiftKeys, shift_status, s2, ext_scancode, dn)
  BY <1>1, <1>4, KeyTracks DEF ModifierInv
<1> QED BY <1>2, <1>3, <1>4, <1>5 DEF ModifierInv

(* The handler's cases, as far as they concern the modifiers.              *)
HandlerDoes(b, code) ==
    \/ /\ b = 224 /\ ext_scancode' = TRUE
       /\ UNCHANGED <<ctrl_status, alt_status, shift_status>>
    \/ /\ b # 224 /\ b >= 128 /\ ext_scancode' = FALSE
       /\ break_key(code - 128)
    \/ /\ b < 128 /\ ext_scancode' = FALSE
       /\ handled(code) /\ keymap(code % 256, shifted(code)) = NULL
       /\ make_modifier(code % 256)
    \/ /\ b < 128 /\ ext_scancode' = FALSE
       /\ ~(handled(code) /\ keymap(code % 256, shifted(code)) = NULL)
       /\ UNCHANGED <<ctrl_status, alt_status, shift_status>>

LEMMA HandlerCases ==
    ASSUME intr_keyboard_handler, NEW b \in 1 .. 255, b = Head(port), NEW code,
           code = IF ext_scancode THEN 57344 + b ELSE b
    PROVE  HandlerDoes(b, code)
<1> DEFINE char == keymap(code % 256, shifted(code))
<1>1. CASE b = 224
  BY <1>1 DEF intr_keyboard_handler, HandlerDoes
<1>2. CASE b # 224 /\ b >= 128
  BY <1>2 DEF intr_keyboard_handler, HandlerDoes
<1>3. CASE b < 128 /\ handled(code) /\ char # NULL
  BY <1>3 DEF intr_keyboard_handler, HandlerDoes
<1>4. CASE b < 128 /\ handled(code) /\ char = NULL
  BY <1>4 DEF intr_keyboard_handler, HandlerDoes
<1>5. CASE b < 128 /\ ~handled(code)
  BY <1>5 DEF intr_keyboard_handler, HandlerDoes
<1> HIDE DEF char
<1>6. b < 128 \/ b >= 128
  OBVIOUS
<1> QED BY <1>1, <1>2, <1>3, <1>4, <1>5, <1>6

(* One byte, decoded by the handler: a press sets the status variable of   *)
(* its pair, a release clears it, and nothing else touches it.             *)
LEMMA HandlerModifier ==
    ASSUME ModifierInv, intr_keyboard_handler
    PROVE  ModifierInv'
<1>1. /\ port \in Seq(1 .. 255) /\ port # <<>> /\ port' = Tail(port) /\ UNCHANGED down
      /\ Len(port) \in Nat \ {0}
  BY EmptySeq DEF ModifierInv, PortInv, intr_keyboard_handler
<1>2. PICK b \in 1 .. 255, code \in Nat :
        /\ b = Head(port) /\ b = port[1]
        /\ code = IF ext_scancode THEN 57344 + b ELSE b
        /\ code = CodeAt(port, ext_scancode, 1)
  <2>1. Head(port) \in 1 .. 255 /\ Head(port) = port[1]
    BY <1>1, HeadTailProperties
  <2>2. CodeAt(port, ext_scancode, 1) = IF ext_scancode THEN 57344 + port[1] ELSE port[1]
    BY DEF CodeAt, Prefixed, ModifierInv, PortInv
  <2> QED BY <2>1, <2>2
<1>3. HandlerDoes(b, code) /\ ext_scancode' = (b = 224) /\ ext_scancode' \in BOOLEAN
  <2>1. HandlerDoes(b, code)
    BY <1>2, HandlerCases
  <2>2. (b = 224 => ext_scancode' = TRUE) /\ (b # 224 => ext_scancode' = FALSE)
    BY <2>1 DEF HandlerDoes
  <2>3. CASE b = 224
    BY <2>1, <2>2, <2>3
  <2>4. CASE b # 224
    BY <2>1, <2>2, <2>4
  <2> QED BY <2>3, <2>4
<1>4. PortInv'
  <2>1. /\ port' \in Seq(1 .. 255) /\ Len(port') = Len(port) - 1
        /\ \A i \in 1 .. Len(port') : port'[i] = port[i + 1]
    BY <1>1, HeadTailProperties
  <2>2. ASSUME port' # <<>> PROVE port'[Len(port')] # 224
    <3>1. Len(port') \in 1 .. Len(port') /\ Len(port') + 1 = Len(port)
      BY <1>1, <2>1, <2>2, EmptySeq
    <3> QED BY <1>1, <2>1, <3>1 DEF ModifierInv, PortInv
  <2>3. ASSUME port' = <<>> PROVE b # 224
    <3>1. Len(port') = 0
      BY <2>3, EmptySeq
    <3>2. Len(port) = 1
      BY <1>1, <2>1, <3>1
    <3> QED BY <1>1, <1>2, <3>2 DEF ModifierInv, PortInv
  <2> QED BY <1>1, <1>3, <2>1, <2>2, <2>3 DEF ModifierInv, PortInv
<1>5. \A P : /\ Makes(port, ext_scancode, 1, P) <=> b # 224 /\ code \in P
             /\ Breaks(port, ext_scancode, 1, P) <=> b # 224 /\ code - 128 \in P
  BY <1>2 DEF Makes, Breaks
<1> DEFINE Applied(P, on, on2) ==
      /\ b # 224 /\ code \in P => on2
      /\ b # 224 /\ code - 128 \in P => ~on2
      /\ ~(b # 224 /\ code \in P) /\ ~(b # 224 /\ code - 128 \in P) => (on2 <=> on)
<1>6. /\ Applied(CtrlKeys, ctrl_status, ctrl_status')
      /\ Applied(AltKeys, alt_status, alt_status')
      /\ Applied(ShiftKeys, shift_status, shift_status')
  <2> USE DEF CtrlKeys, AltKeys, ShiftKeys, ctrl_l_make, ctrl_r_make, alt_l_make,
              alt_r_make, shift_l_make, shift_r_make
  <2>1. CASE b = 224
    BY <1>3, <2>1 DEF HandlerDoes
  <2>2. CASE b # 224 /\ b >= 128
    <3>1. break_key(code - 128)
      BY <1>3, <2>2 DEF HandlerDoes
    <3>2. code \notin CtrlKeys \cup AltKeys \cup ShiftKeys
      BY <1>2, <2>2
    <3>3. /\ ctrl_status' = (ctrl_status /\ code - 128 \notin CtrlKeys)
          /\ alt_status' = (alt_status /\ code - 128 \notin AltKeys)
          /\ shift_status' = (shift_status /\ code - 128 \notin ShiftKeys)
      BY <3>1 DEF break_key
    <3> HIDE DEF CtrlKeys, AltKeys, ShiftKeys
    <3> QED BY <2>2, <3>2, <3>3, Zenon
  <2>3. CASE b < 128
    <3>1. code - 128 \notin CtrlKeys \cup AltKeys \cup ShiftKeys
      BY <1>2, <2>3
    <3>2. code % 256 = b
      BY <1>2
    <3>3. CASE handled(code) /\ keymap(code % 256, shifted(code)) = NULL
      <4>1. make_modifier(b)
        BY <1>3, <2>3, <3>2, <3>3 DEF HandlerDoes
      <4>2. /\ b = 29 <=> code \in CtrlKeys
            /\ b = 56 <=> code \in AltKeys
            /\ b \in {42, 54} <=> code \in ShiftKeys
        BY <1>2, <2>3, <3>3 DEF handled
      <4>3. /\ ctrl_status' = (ctrl_status \/ b = 29)
            /\ alt_status' = (alt_status \/ b = 56)
            /\ shift_status' = (shift_status \/ b \in {42, 54})
        BY <4>1 DEF make_modifier
      <4>4. b # 224
        BY <2>3
      <4> HIDE DEF CtrlKeys, AltKeys, ShiftKeys
      <4> QED BY <3>1, <4>2, <4>3, <4>4, Zenon
    <3>4. CASE ~(handled(code) /\ keymap(code % 256, shifted(code)) = NULL)
      <4>1. UNCHANGED <<ctrl_status, alt_status, shift_status>>
        BY <1>3, <2>3, <3>4 DEF HandlerDoes
      <4>2. code \notin CtrlKeys \cup AltKeys \cup ShiftKeys
        BY <1>2, <2>3, <3>2, <3>4 DEF handled, keymap
      <4> QED BY <3>1, <4>1, <4>2
    <3> QED BY <3>3, <3>4
  <2> QED BY <2>1, <2>2, <2>3
<1>7. PICK s2, e2, dn : s2 = port' /\ e2 = ext_scancode' /\ dn = down'
  OBVIOUS
<1>8. ASSUME NEW P, NEW on, NEW on2, Tracks(P, on, port, ext_scancode, down), Applied(P, on, on2)
      PROVE  Tracks(P, on2, s2, e2, dn)
  <2>1. Tracks(P, on2, Tail(port), port[1] = 224, down)
    BY <1>1, <1>5, <1>8, TracksTail
  <2> QED BY <1>1, <1>2, <1>3, <1>7, <2>1
<1>9. PICK c2, a2, h2 : c2 = ctrl_status' /\ a2 = alt_status' /\ h2 = shift_status'
  OBVIOUS
<1>10. /\ Tracks(CtrlKeys, c2, s2, e2, dn)
       /\ Tracks(AltKeys, a2, s2, e2, dn)
       /\ Tracks(ShiftKeys, h2, s2, e2, dn)
  <2> HIDE DEF Applied
  <2> QED BY <1>6, <1>8, <1>9 DEF ModifierInv
<1> QED BY <1>4, <1>7, <1>9, <1>10 DEF ModifierInv

LEMMA InitModifier == keyboard_init => ModifierInv
<1> SUFFICES ASSUME keyboard_init PROVE ModifierInv
  OBVIOUS
<1>1. port = <<>> /\ Len(port) = 0 /\ port \in Seq(1 .. 255)
  BY EmptySeq DEF keyboard_init
<1>2. down = {} /\ ~ctrl_status /\ ~alt_status /\ ~shift_status /\ ext_scancode = FALSE
  BY DEF keyboard_init
<1>3. PortInv
  BY <1>1, <1>2 DEF PortInv
<1>4. \A P, on : ~on => Tracks(P, on, port, ext_scancode, down)
  BY <1>1, <1>2 DEF Tracks
<1> QED BY <1>2, <1>3, <1>4 DEF ModifierInv

LEMMA NextModifier ==
    ModifierInv /\ [KbdNext]_kbd_vars => ModifierInv'
<1> SUFFICES ASSUME ModifierInv, [KbdNext]_kbd_vars
             PROVE  ModifierInv'
  OBVIOUS
<1>1. CASE UNCHANGED <<down, port, flags>>
  <2>1. UNCHANGED <<down, port, ctrl_status, alt_status, shift_status, ext_scancode>>
    BY <1>1 DEF flags
  <2> QED BY <2>1 DEF ModifierInv, PortInv
<1>2. CASE \E t \in Tasks : reader_step(t)
  BY <1>1, <1>2 DEF reader_step
<1>3. CASE \E k \in Keys : press(k) \/ release(k)
  BY <1>3, KeyModifier
<1>4. CASE intr_keyboard_handler
  BY <1>4, HandlerModifier
<1> QED BY <1>1, <1>2, <1>3, <1>4 DEF KbdNext, kbd_vars

(* Once the handler has read every byte, a status variable that is set has *)
(* a held key of its pair behind it, and it is set when all the keys of    *)
(* the pair are held: for every set of keys, both of a pair or one of it,  *)
(* and any number of bytes that wait.                                      *)
THEOREM ModifiersFollowKeys == KbdSpec => []ModifiersAgree
<1>1. ModifierInv => ModifiersAgree
  <2> SUFFICES ASSUME ModifierInv, port = <<>> PROVE ModifiersAgree
    BY DEF ModifiersAgree
  <2>1. Len(port) = 0
    BY EmptySeq
  <2>2. \A P : Quiet(port, ext_scancode, 1, P)
    BY <2>1 DEF Quiet
  <2>3. /\ PairAgrees(ctrl_status, CtrlKeys)
        /\ PairAgrees(alt_status, AltKeys)
        /\ PairAgrees(shift_status, ShiftKeys)
    BY <2>2 DEF ModifierInv, Tracks, PairAgrees
  <2> QED BY <2>3 DEF ModifiersAgree, CtrlKeys, AltKeys, ShiftKeys
<1> QED BY <1>1, NextModifier, InitModifier, PTL DEF KbdSpec
=============================================================================
