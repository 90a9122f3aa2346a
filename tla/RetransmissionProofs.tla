------------------------ MODULE RetransmissionProofs ------------------------
(***************************************************************************)
(* Theorems about what ReliableMsgManager sends and sends again: how often *)
(* a message is written, when it is given up, and what is left of a closed *)
(* connection.                                                             *)
(***************************************************************************)
EXTENDS ReliableMsgManagerProofs

-----------------------------------------------------------------------------
(* The invariant *)

\* Sequence numbers that no message has had yet.
Unused(s) == s > sent \/ (s = 0 /\ sent < SeqMod)

\* The counter stands at an unused number until it has gone round once.
CounterInv ==
  sent < SeqMod => \/ nextSequence = sent + 1
                   \/ sent + 1 = SeqMod /\ nextSequence = 0

\* A thread only ever found a connection connected after it was established.
TargetInv == \A t \in Threads : target[t] # NoConn => connState[target[t]] # "new"

\* The entry of p agrees with what was written to c.
EntryInv(c, p) ==
  /\ xmits[c][p.seq] \in {0, p.retryCount + 1}
  /\ p.ok /\ connState[c] = "up" => xmits[c][p.seq] > 0
  /\ connState[c] = "down" => xmits[c][p.seq] = 0

TableInv(c) ==
  /\ \A p, q \in pending[c] : p.seq = q.seq => p = q
  /\ connState[c] = "new" => pending[c] = {}
  /\ connState[c] = "up" /\ pending[c] # {} => c \in connectionMap
  /\ connState[c] = "down" =>
       /\ processed[c] = {}
       /\ c \in connectionMap => pending[c] # {}
       /\ \A p \in pending[c] : p.retryCount = 0
  /\ \A s \in Sequences32 :
       Unused(s) => xmits[c][s] = 0 /\ \A p \in pending[c] : p.seq # s
  /\ NoWrap => /\ \A s \in Sequences32 : xmits[c][s] <= MaxRetry + 1
               /\ \A p \in pending[c] : EntryInv(c, p)

SendInv == CounterInv /\ TargetInv /\ \A c \in Conns : TableInv(c)

LEMMA RetryPositive == MaxRetry > 0
BY BoundsAssumption

LEMMA SendInit == Init => SendInv
<1> SUFFICES ASSUME Init PROVE SendInv
  OBVIOUS
<1>1. CounterInv
  BY ConstantTypes DEF Init, CounterInv
<1>2. TargetInv
  BY DEF Init, TargetInv
<1>3. ASSUME NEW c \in Conns PROVE TableInv(c)
  BY ConstantTypes DEF Init, TableInv
<1> QED BY <1>1, <1>2, <1>3 DEF SendInv

-----------------------------------------------------------------------------
(* Steps that leave the table of a connection as it is *)

\* A step that touches neither the table of c nor its state keeps TableInv(c),
\* even if it gives out a number.
LEMMA TableFrame ==
  ASSUME TypeOK, NEW c \in Conns, TableInv(c), sent' \in Nat, sent' >= sent,
         pending'[c] = pending[c], processed'[c] = processed[c],
         xmits'[c] = xmits[c], connState'[c] = connState[c],
         c \in connectionMap' <=> c \in connectionMap
  PROVE  TableInv(c)'
<1>1. sent \in Nat
  BY ConstantTypes DEF TypeOK
<1>2. NoWrap' => NoWrap
  BY <1>1, ConstantTypes DEF NoWrap
<1>3. \A s \in Sequences32 : Unused(s)' => Unused(s)
  BY <1>1, ConstantTypes DEF Unused, Sequences32
<1>4. NoWrap' => \A p \in pending'[c] : EntryInv(c, p)'
  BY <1>2 DEF TableInv, EntryInv
<1> QED BY <1>2, <1>3, <1>4 DEF TableInv

\* A connection may also move on to a state that is not "up" or "down", or come
\* up with an empty table.
LEMMA StateFrame ==
  ASSUME TypeOK, NEW c \in Conns, TableInv(c),
         UNCHANGED <<sent, pending, processed, xmits, connectionMap>>,
         \/ connState'[c] = connState[c]
         \/ connState[c] = "new" /\ connState'[c] = "up"
         \/ connState'[c] \in {"shut", "closing"}
  PROVE  TableInv(c)'
<1>1. sent \in Nat
  BY ConstantTypes DEF TypeOK
<1>2. CASE connState'[c] = connState[c]
  BY <1>1, <1>2, TableFrame
<1>3. CASE connState[c] = "new" /\ connState'[c] = "up"
  BY <1>3 DEF TableInv, NoWrap, Unused
<1>4. CASE connState'[c] \in {"shut", "closing"}
  <2>1. NoWrap' => \A p \in pending'[c] : EntryInv(c, p)'
    BY <1>4 DEF TableInv, EntryInv, NoWrap
  <2> QED BY <1>4, <2>1 DEF TableInv, NoWrap, Unused
<1> QED BY <1>2, <1>3, <1>4


-----------------------------------------------------------------------------
(* A new message *)

\* A message stored under an unused number gets an entry of its own.
LEMMA SendTable ==
  ASSUME TypeOK, SendInv, NEW t \in Threads, NEW ok \in BOOLEAN,
         SendReliable(t, ok)
  PROVE  SendInv'
<1> USE ConstantTypes
<1>0. PICK c \in Conns, n \in Sequences32 : c = target[t] /\ n = nextSequence
  BY DEF SendReliable, TypeOK
<1> DEFINE e == [seq |-> n, retryCount |-> 0, age |-> 0, ok |-> ok]
<1>1. /\ sent \in Nat /\ sent' = sent + 1
      /\ connState' = connState /\ processed' = processed
      /\ nextSequence' = (n + 1) % SeqMod
      /\ connectionMap' = connectionMap \cup {c}
      /\ target' = [target EXCEPT ![t] = NoConn]
  BY <1>0 DEF SendReliable, NextInWidth, TypeOK, receiving
<1>2. /\ pending'[c] = {p \in pending[c] : p.seq # n} \cup {e}
      /\ \A d \in Conns \ {c} : pending'[d] = pending[d] /\ xmits'[d] = xmits[d]
  BY <1>0 DEF SendReliable, Put, TypeOK
<1>3. /\ \A s \in Sequences32 \ {n} : xmits'[c][s] = xmits[c][s]
      /\ ok /\ connState[c] = "up" => xmits'[c][n] = xmits[c][n] + 1
      /\ ~(ok /\ connState[c] = "up") => xmits'[c][n] = xmits[c][n]
  BY <1>0 DEF SendReliable, TypeOK
<1>4. connState[c] # "new" /\ TableInv(c)
  BY <1>0, ConnAssumption DEF SendInv, TargetInv
<1>5. CounterInv'
  BY <1>0, <1>1 DEF SendInv, CounterInv, Sequences32
<1>6. TargetInv'
  BY <1>1 DEF SendInv, TargetInv, TypeOK
<1>7. sent < SeqMod => Unused(n)
  BY <1>0, <1>1 DEF SendInv, CounterInv, Unused
<1>8. \A s \in Sequences32 : Unused(s)' => Unused(s) /\ s # n
  BY <1>0, <1>1 DEF SendInv, CounterInv, Unused, Sequences32
<1>9. NoWrap' => NoWrap /\ sent < SeqMod
  BY <1>1 DEF NoWrap
<1>10. TableInv(c)'
  <2>1. e.seq = n /\ e.retryCount = 0 /\ e.ok = ok
    OBVIOUS
  <2>2. pending'[c] = {p \in pending[c] : p.seq # n} \cup {e}
    BY <1>2
  <2> HIDE DEF e
  <2>3. \A p, q \in pending'[c] : p.seq = q.seq => p = q
    BY <1>4, <2>1, <2>2 DEF TableInv
  <2>4. connState'[c] # "new" /\ c \in connectionMap' /\ pending'[c] # {}
    BY <1>1, <1>4, <2>2
  <2>5. connState'[c] = "down" =>
          processed'[c] = {} /\ \A p \in pending'[c] : p.retryCount = 0
    BY <1>1, <1>4, <2>1, <2>2 DEF TableInv
  <2>6. \A s \in Sequences32 :
          Unused(s)' => xmits'[c][s] = 0 /\ \A p \in pending'[c] : p.seq # s
    BY <1>3, <1>4, <1>8, <2>1, <2>2 DEF TableInv
  <2>7. ASSUME NoWrap' PROVE xmits[c][n] = 0
    BY <1>1, <1>4, <1>7, <1>9, <2>7 DEF TableInv
  <2>8. ASSUME NoWrap' PROVE \A s \in Sequences32 : xmits'[c][s] <= MaxRetry + 1
    BY <1>3, <1>4, <1>9, <2>7, <2>8 DEF TableInv
  <2>9. ASSUME NoWrap', NEW p \in pending'[c] PROVE EntryInv(c, p)'
    <3>1. CASE p = e
      BY <1>1, <1>3, <2>1, <2>7, <2>9, <3>1 DEF EntryInv
    <3>2. CASE p \in pending[c] /\ p.seq # n
      <4>1. EntryInv(c, p) /\ p.seq \in Sequences32
        BY <1>1, <1>4, <1>9, <2>9, <3>2 DEF TableInv, TypeOK, PendingMessage
      <4> QED BY <1>1, <1>3, <3>2, <4>1 DEF EntryInv
    <3> QED BY <2>2, <3>1, <3>2
  <2> QED BY <2>3, <2>4, <2>5, <2>6, <2>8, <2>9 DEF TableInv
<1>11. ASSUME NEW d \in Conns \ {c} PROVE TableInv(d)'
  <2>1. sent' \in Nat /\ sent' >= sent /\ TableInv(d)
    BY <1>1 DEF SendInv
  <2>2. d \in connectionMap' <=> d \in connectionMap
    BY <1>1
  <2> QED BY <1>1, <1>2, <2>1, <2>2, TableFrame
<1> QED BY <1>5, <1>6, <1>10, <1>11 DEF SendInv

-----------------------------------------------------------------------------
(* The scan *)

\* What a scan of c does to its table, seen from an entry it leaves.
LEMMA ScannedEntry ==
  ASSUME TypeOK, NEW c \in Conns, NEW r \in Scanned(c)
  PROVE  \E p \in pending[c] :
           /\ r.seq = p.seq /\ r.ok = p.ok
           /\ \/ r = p /\ ~Expired(p)
              \/ p \in Resent(c) /\ r.retryCount = p.retryCount + 1
<1>1. CASE r \in {p \in pending[c] : ~Expired(p)}
  BY <1>1
<1>2. CASE r \in {[p EXCEPT !.retryCount = @ + 1, !.age = 0] : p \in Resent(c)}
  <2>1. PICK p \in Resent(c) : r = [p EXCEPT !.retryCount = @ + 1, !.age = 0]
    BY <1>2
  <2>2. p \in pending[c] /\ p \in PendingMessage
    BY <2>1 DEF Resent, TypeOK
  <2>3. r.seq = p.seq /\ r.ok = p.ok /\ r.retryCount = p.retryCount + 1
    BY <2>1, <2>2 DEF PendingMessage
  <2> QED BY <2>1, <2>2, <2>3
<1> QED BY <1>1, <1>2 DEF Scanned

LEMMA ScanTable ==
  ASSUME TypeOK, NEW c \in Conns, TableInv(c), UNCHANGED <<connState, processed, sent>>,
         pending'[c] = Scanned(c),
         c \in connectionMap' <=>
           /\ c \in connectionMap
           /\ (\E p \in pending[c] : Retryable(p)) => Reachable(c),
         \A s \in Sequences32 :
           xmits'[c][s] = IF \E p \in Resent(c) : p.seq = s
                          THEN xmits[c][s] + 1 ELSE xmits[c][s]
  PROVE  TableInv(c)'
<1> USE ConstantTypes
<1>1. \A p \in pending[c] : p \in PendingMessage /\ p.seq \in Sequences32
                            /\ p.retryCount \in Nat
  BY DEF TypeOK, PendingMessage
<1>2. \A p \in Resent(c) : /\ p \in pending[c] /\ Expired(p) /\ p.retryCount < MaxRetry
                           /\ p.ok /\ connState[c] = "up"
  BY DEF Resent, Retryable, Reachable
<1>3. \A p, q \in pending[c] : p.seq = q.seq => p = q
  BY DEF TableInv
<1>4. ASSUME NEW r \in Scanned(c), NEW q \in Scanned(c), r.seq = q.seq PROVE r = q
  <2>1. CASE ~Expired(r) /\ r \in pending[c]
    BY <1>2, <1>3, <1>4, <2>1, ScannedEntry
  <2>2. CASE ~Expired(q) /\ q \in pending[c]
    BY <1>2, <1>3, <1>4, <2>2, ScannedEntry
  <2>3. CASE /\ r \in {[p EXCEPT !.retryCount = @ + 1, !.age = 0] : p \in Resent(c)}
             /\ q \in {[p EXCEPT !.retryCount = @ + 1, !.age = 0] : p \in Resent(c)}
    <3>1. PICK a \in Resent(c) : r = [a EXCEPT !.retryCount = @ + 1, !.age = 0]
      BY <2>3
    <3>2. PICK b \in Resent(c) : q = [b EXCEPT !.retryCount = @ + 1, !.age = 0]
      BY <2>3
    <3>3. r.seq = a.seq /\ q.seq = b.seq
      BY <1>1, <1>2, <3>1, <3>2 DEF PendingMessage
    <3>4. a = b
      BY <1>2, <1>3, <1>4, <3>3
    <3> QED BY <3>1, <3>2, <3>4
  <2> QED BY <2>1, <2>2, <2>3 DEF Scanned
<1>5. connState[c] = "new" => pending'[c] = {}
  BY ScannedEntry DEF TableInv
<1>6. connState[c] = "up" /\ pending'[c] # {} => c \in connectionMap'
  BY ScannedEntry DEF TableInv, Reachable
<1>7. ASSUME connState[c] = "down"
      PROVE  /\ processed[c] = {}
             /\ c \in connectionMap' => pending'[c] # {}
             /\ \A r \in pending'[c] : r.retryCount = 0
  <2>1. \A p \in pending[c] : p.retryCount = 0
    BY <1>7 DEF TableInv
  <2>2. \A r \in Scanned(c) : r.retryCount = 0
    BY <1>2, <1>7, <2>1, ScannedEntry
  <2>3. ASSUME c \in connectionMap' PROVE Scanned(c) # {}
    <3>1. PICK p \in pending[c] : TRUE
      BY <1>7, <2>3 DEF TableInv
    <3>2. ~Retryable(p)
      BY <1>7, <2>3 DEF Reachable
    <3>3. ~Expired(p)
      BY <2>1, <3>2, RetryPositive DEF Retryable
    <3> QED BY <3>3 DEF Scanned
  <2> QED BY <1>7, <2>2, <2>3 DEF TableInv
<1>8. ASSUME NEW s \in Sequences32, Unused(s)'
      PROVE  xmits'[c][s] = 0 /\ \A r \in pending'[c] : r.seq # s
  <2>1. xmits[c][s] = 0 /\ \A p \in pending[c] : p.seq # s
    BY <1>8 DEF TableInv, Unused
  <2>2. \A p \in Resent(c) : p.seq # s
    BY <1>2, <2>1
  <2> QED BY <2>1, <2>2, ScannedEntry
<1>9. ASSUME NoWrap', NEW p \in Resent(c)
      PROVE  xmits[c][p.seq] = p.retryCount + 1 /\ xmits[c][p.seq] <= MaxRetry
  <2>1. EntryInv(c, p) /\ p.ok /\ connState[c] = "up" /\ p.retryCount < MaxRetry
    BY <1>2, <1>9 DEF TableInv, NoWrap
  <2>2. p.retryCount \in Nat
    BY <1>1, <1>2
  <2> QED BY <2>1, <2>2 DEF EntryInv
<1>10. ASSUME NoWrap', NEW s \in Sequences32 PROVE xmits'[c][s] <= MaxRetry + 1
  <2>1. xmits[c][s] \in Nat /\ xmits[c][s] <= MaxRetry + 1
    BY <1>10 DEF TableInv, NoWrap, TypeOK
  <2>2. CASE \E p \in Resent(c) : p.seq = s
    BY <1>9, <1>10, <2>1, <2>2
  <2> QED BY <2>1, <2>2
<1>11. ASSUME NoWrap', NEW r \in Scanned(c) PROVE EntryInv(c, r)'
  <2>1. PICK p \in pending[c] :
          /\ r.seq = p.seq /\ r.ok = p.ok
          /\ \/ r = p /\ ~Expired(p)
             \/ p \in Resent(c) /\ r.retryCount = p.retryCount + 1
    BY ScannedEntry
  <2>2. EntryInv(c, p) /\ p.seq \in Sequences32
    BY <1>1, <1>11 DEF TableInv, NoWrap
  <2>3. CASE r = p /\ ~Expired(p)
    <3>1. ~\E q \in Resent(c) : q.seq = p.seq
      BY <1>2, <1>3, <2>3
    <3>2. xmits'[c][p.seq] = xmits[c][p.seq]
      BY <2>2, <3>1
    <3> QED BY <2>2, <2>3, <3>2 DEF EntryInv
  <2>4. CASE p \in Resent(c) /\ r.retryCount = p.retryCount + 1
    <3>1. xmits'[c][p.seq] = xmits[c][p.seq] + 1
      BY <2>2, <2>4
    <3>2. xmits[c][p.seq] = p.retryCount + 1 /\ connState[c] = "up"
      BY <1>2, <1>9, <1>11, <2>4
    <3>3. p.retryCount \in Nat
      BY <1>1
    <3> QED BY <2>1, <2>4, <3>1, <3>2, <3>3 DEF EntryInv
  <2> QED BY <2>1, <2>3, <2>4
<1> QED BY <1>4, <1>5, <1>6, <1>7, <1>8, <1>10, <1>11 DEF TableInv

LEMMA ScanInv == TypeOK /\ SendInv /\ CheckTimeout => SendInv'
<1> SUFFICES ASSUME TypeOK, SendInv, CheckTimeout PROVE SendInv'
  OBVIOUS
<1>1. PICK S \in SUBSET Nonempty :
        /\ pending' = [c \in Conns |-> IF c \in S THEN Scanned(c) ELSE pending[c]]
        /\ connectionMap' = {c \in connectionMap :
             c \in S /\ (\E p \in pending[c] : Retryable(p)) => Reachable(c)}
        /\ xmits' = [c \in Conns |-> [s \in Sequences32 |->
             IF c \in S /\ (\E p \in Resent(c) : p.seq = s)
             THEN xmits[c][s] + 1 ELSE xmits[c][s]]]
  BY DEF CheckTimeout
<1>2. UNCHANGED <<connState, nextSequence, processed, target, sent>>
  BY DEF CheckTimeout, receiving
<1>3. ASSUME NEW c \in Conns PROVE TableInv(c)'
  <2>1. TableInv(c)
    BY DEF SendInv
  <2>2. CASE c \in S
    BY <1>1, <1>2, <2>1, <2>2, ScanTable
  <2>3. CASE c \notin S
    <3>1. pending'[c] = pending[c] /\ (c \in connectionMap' <=> c \in connectionMap)
      BY <1>1, <2>3
    <3>2. xmits'[c] = xmits[c]
      BY <1>1, <2>3 DEF TypeOK
    <3>3. sent' \in Nat /\ sent' >= sent
      BY <1>2, ConstantTypes DEF TypeOK
    <3> QED BY <1>2, <2>1, <3>1, <3>2, <3>3, TableFrame
  <2> QED BY <2>2, <2>3
<1> QED BY <1>2, <1>3 DEF SendInv, CounterInv, TargetInv

-----------------------------------------------------------------------------
(* Every step *)

\* Ageing the entries changes nothing that TableInv looks at.
LEMMA TickTable ==
  ASSUME TypeOK, Tick, NEW c \in Conns, TableInv(c)
  PROVE  TableInv(c)'
<1>1. pending'[c] = {[p EXCEPT !.age = Older(@, Timeout)] : p \in pending[c]}
  BY DEF Tick
<1>2. UNCHANGED <<connState, connectionMap, processed, sent, xmits>>
  BY DEF Tick, sendLog
<1>3. \A p \in pending[c] : p \in PendingMessage
  BY DEF TypeOK
<1>4. ASSUME NEW r \in pending'[c]
      PROVE  \E p \in pending[c] :
               /\ r = [p EXCEPT !.age = Older(@, Timeout)]
               /\ r.seq = p.seq /\ r.ok = p.ok /\ r.retryCount = p.retryCount
  BY <1>1, <1>3, <1>4 DEF PendingMessage
<1>5. \A r, q \in pending'[c] : r.seq = q.seq => r = q
  BY <1>4 DEF TableInv
<1>6. (pending'[c] = {}) <=> (pending[c] = {})
  BY <1>1
<1>7. NoWrap' => \A r \in pending'[c] : EntryInv(c, r)'
  BY <1>2, <1>4 DEF TableInv, EntryInv, NoWrap
<1>8. \A s \in Sequences32 :
        Unused(s)' => xmits'[c][s] = 0 /\ \A r \in pending'[c] : r.seq # s
  BY <1>2, <1>4 DEF TableInv, Unused
<1>9. connState'[c] = "down" => \A r \in pending'[c] : r.retryCount = 0
  BY <1>2, <1>4 DEF TableInv
<1> QED BY <1>2, <1>5, <1>6, <1>7, <1>8, <1>9 DEF TableInv, NoWrap

LEMMA SendNext == TypeOK /\ SendInv /\ [Next]_vars => SendInv'
<1> SUFFICES ASSUME TypeOK, SendInv, [Next]_vars PROVE SendInv'
  OBVIOUS
<1> USE ConstantTypes
<1>0. sent \in Nat
  BY DEF TypeOK
\* Steps on the state of one connection that leave every table alone.
<1>1. ASSUME NEW c \in Conns, Connect(c) \/ Shutdown(c) \/ Disconnect(c)
      PROVE  SendInv'
  <2>1. /\ UNCHANGED <<sent, nextSequence, target, pending, processed, xmits,
                      connectionMap>>
        /\ \A d \in Conns \ {c} : connState'[d] = connState[d]
        /\ \/ connState[c] = "new" /\ connState'[c] = "up"
           \/ connState'[c] \in {"shut", "closing"}
    BY <1>1 DEF Connect, Shutdown, Disconnect, TypeOK, sending, receiving, sendLog
  <2>2. \A d \in Conns : TableInv(d)'
    BY <2>1, StateFrame DEF SendInv
  <2>3. TargetInv'
    BY <2>1 DEF SendInv, TargetInv, TypeOK
  <2> QED BY <2>1, <2>2, <2>3 DEF SendInv, CounterInv
<1>2. ASSUME NEW c \in Conns, CleanupConnection(c) PROVE SendInv'
  <2>1. /\ UNCHANGED <<sent, nextSequence, target, xmits>>
        /\ connState'[c] = "down" /\ pending'[c] = {} /\ processed'[c] = {}
        /\ connectionMap' = connectionMap \ {c}
        /\ \A d \in Conns \ {c} : UNCHANGED <<connState[d], pending[d], processed[d]>>
    BY <1>2 DEF CleanupConnection, TypeOK, sendLog
  <2>2. TableInv(c)'
    BY <2>1 DEF SendInv, TableInv, Unused, NoWrap
  <2>3. ASSUME NEW d \in Conns \ {c} PROVE TableInv(d)'
    BY <1>0, <2>1, TableFrame DEF SendInv
  <2>4. TargetInv'
    BY <2>1 DEF SendInv, TargetInv, TypeOK
  <2> QED BY <2>1, <2>2, <2>3, <2>4 DEF SendInv, CounterInv
<1>3. ASSUME NEW c \in Conns, NEW n \in 1 .. MaxPeer, ProcessData(c, n)
      PROVE  SendInv'
  <2>1. /\ UNCHANGED <<connState, sent, nextSequence, target, pending, xmits,
                      connectionMap>>
        /\ connState[c] = "up"
        /\ \A d \in Conns \ {c} : processed'[d] = processed[d]
    BY <1>3 DEF ProcessData, TypeOK, sending, receiving, sendLog
  <2>2. TableInv(c)'
    <3>1. NoWrap' => \A p \in pending'[c] : EntryInv(c, p)'
      BY <2>1 DEF SendInv, TableInv, EntryInv, NoWrap
    <3> QED BY <2>1, <3>1 DEF SendInv, TableInv, Unused, NoWrap
  <2>3. ASSUME NEW d \in Conns \ {c} PROVE TableInv(d)'
    BY <1>0, <2>1, TableFrame DEF SendInv
  <2> QED BY <2>1, <2>2, <2>3 DEF SendInv, CounterInv, TargetInv
<1>4. ASSUME NEW t \in Threads, NEW c \in Conns, CheckConnected(t, c) PROVE SendInv'
  <2>1. /\ UNCHANGED <<connState, sent, nextSequence, pending, processed, xmits,
                      connectionMap>>
        /\ target' = [target EXCEPT ![t] = c] /\ connState[c] = "up"
    BY <1>4 DEF CheckConnected, sending, receiving, sendLog
  <2>2. TargetInv'
    BY <2>1 DEF SendInv, TargetInv, TypeOK
  <2>3. \A d \in Conns : TableInv(d)'
    BY <1>0, <2>1, TableFrame DEF SendInv
  <2> QED BY <2>1, <2>2, <2>3 DEF SendInv, CounterInv
<1>5. ASSUME Tick PROVE SendInv'
  <2>1. UNCHANGED <<connState, sent, nextSequence, target>>
    BY <1>5 DEF Tick, sendLog
  <2> QED BY <1>5, <2>1, TickTable DEF SendInv, CounterInv, TargetInv
<1>6. ASSUME UNCHANGED <<connState, sent, nextSequence, target, pending, processed,
                         xmits, connectionMap>>
      PROVE  SendInv'
  <2>1. \A d \in Conns : TableInv(d)'
    BY <1>0, <1>6, TableFrame DEF SendInv
  <2> QED BY <1>6, <2>1 DEF SendInv, CounterInv, TargetInv
<1>7. ASSUME NEW c \in Conns, NEW s \in Sequences32, ProcessAck(c, s) PROVE SendInv'
  BY <1>6, <1>7 DEF ProcessAck, sending, receiving
<1>8. ASSUME UNCHANGED vars PROVE SendInv'
  BY <1>6, <1>8 DEF vars, sending, receiving, sendLog
<1> QED
  BY <1>1, <1>2, <1>3, <1>4, <1>5, <1>7, <1>8, SendTable, ScanInv DEF Next

-----------------------------------------------------------------------------
(* Theorems *)

\* Until the numbers have gone round once, no message is written to its
\* connection more than MaxRetry + 1 times, and the retry count tells how often.
THEOREM RetryBounded == Spec => []RetryBudget
<1>1. SendInv => RetryBudget
  BY DEF SendInv, TableInv, EntryInv, RetryBudget
<1> QED BY <1>1, TypeInit, TypeNext, SendInit, SendNext, PTL DEF Spec

\* What a closed connection leaves behind was stored by a racing sender and was
\* never written.
THEOREM OnlyRacingRemain == Spec => []OnlyRacingSendsRemain
<1>1. SendInv => OnlyRacingSendsRemain
  BY DEF SendInv, TableInv, EntryInv, OnlyRacingSendsRemain
<1> QED BY <1>1, TypeInit, TypeNext, SendInit, SendNext, PTL DEF Spec

\* A message that can be encoded leaves the table of a live connection only after
\* it has been written MaxRetry + 1 times.
THEOREM GivenUpExhausted == Spec => GiveUpOnlyExhausted
<1> DEFINE Step ==
      sent' <= SeqMod =>
        \A c \in Conns : \A p \in pending[c] :
          p.ok /\ connState'[c] = "up" /\ (\A q \in pending'[c] : q.seq # p.seq)
            => xmits[c][p.seq] = MaxRetry + 1
<1>1. TypeOK /\ SendInv /\ [Next]_vars => [Step]_vars
  <2> SUFFICES ASSUME TypeOK, SendInv, Next, sent' <= SeqMod,
                      NEW c \in Conns, NEW p \in pending[c],
                      p.ok, connState'[c] = "up", \A q \in pending'[c] : q.seq # p.seq
               PROVE  xmits[c][p.seq] = MaxRetry + 1
    OBVIOUS
  <2> USE ConstantTypes
  <2>1. TableInv(c) /\ sent \in Nat /\ p \in PendingMessage
    BY DEF SendInv, TypeOK
  <2>2. ASSUME pending'[c] = pending[c] PROVE FALSE
    BY <2>2
  <2>3. ASSUME NEW d \in Conns, CleanupConnection(d) PROVE FALSE
    <3>1. d # c
      BY <2>3 DEF CleanupConnection, TypeOK
    <3> QED BY <2>2, <2>3, <3>1 DEF CleanupConnection, TypeOK
  <2>4. ASSUME NEW t \in Threads, NEW ok \in BOOLEAN, SendReliable(t, ok) PROVE FALSE
    <3>1. PICK d \in Conns, n \in Sequences32 : d = target[t] /\ n = nextSequence
      BY <2>4 DEF SendReliable, TypeOK
    <3> DEFINE e == [seq |-> n, retryCount |-> 0, age |-> 0, ok |-> ok]
    <3>2. pending' = [pending EXCEPT ![d] = {q \in pending[d] : q.seq # n} \cup {e}]
      BY <2>4, <3>1 DEF SendReliable, Put
    <3>3. e.seq = n
      OBVIOUS
    <3> HIDE DEF e
    <3>4. CASE d = c
      BY <3>2, <3>3, <3>4 DEF TypeOK
    <3>5. CASE d # c
      BY <2>2, <3>2, <3>5 DEF TypeOK
    <3> QED BY <3>4, <3>5
  <2>5. ASSUME Tick PROVE FALSE
    <3>1. [p EXCEPT !.age = Older(@, Timeout)] \in pending'[c]
      BY <2>5 DEF Tick
    <3> QED BY <2>1, <3>1 DEF PendingMessage
  <2>6. ASSUME CheckTimeout PROVE xmits[c][p.seq] = MaxRetry + 1
    <3>1. /\ connState[c] = "up" /\ sent <= SeqMod
          /\ pending'[c] = Scanned(c) \/ pending'[c] = pending[c]
      BY <2>6 DEF CheckTimeout
    <3>2. Expired(p)
      BY <2>2, <3>1 DEF Scanned
    <3>3. p \notin Resent(c)
      <4> SUFFICES ASSUME p \in Resent(c) PROVE FALSE
        OBVIOUS
      <4>1. [p EXCEPT !.retryCount = @ + 1, !.age = 0] \in Scanned(c)
        BY DEF Scanned
      <4>2. [p EXCEPT !.retryCount = @ + 1, !.age = 0].seq = p.seq
        BY <2>1 DEF PendingMessage
      <4>3. pending'[c] = Scanned(c)
        BY <2>2, <3>1
      <4> QED BY <4>1, <4>2, <4>3
    <3>4. Reachable(c)
      BY <2>1, <3>1 DEF TableInv, Reachable
    <3>5. ~(p.retryCount < MaxRetry)
      BY <3>2, <3>3, <3>4 DEF Resent, Retryable
    <3>6. p.retryCount = MaxRetry
      BY <2>1, <3>5 DEF PendingMessage
    <3>7. EntryInv(c, p)
      BY <2>1, <3>1 DEF TableInv, NoWrap
    <3> QED BY <3>1, <3>6, <3>7 DEF EntryInv
  <2>7. ASSUME NEW d \in Conns,
               \/ Connect(d) \/ Shutdown(d) \/ Disconnect(d)
               \/ \E s \in Sequences32 : ProcessAck(d, s)
               \/ \E n \in 1 .. MaxPeer : ProcessData(d, n)
               \/ \E t \in Threads : CheckConnected(t, d)
        PROVE  FALSE
    BY <2>2, <2>7 DEF Connect, Shutdown, Disconnect, ProcessAck, ProcessData,
                      CheckConnected, sending
  <2> QED BY <2>3, <2>4, <2>5, <2>6, <2>7 DEF Next
<1> QED BY <1>1, TypeInit, TypeNext, SendInit, SendNext, PTL
        DEF Spec, GiveUpOnlyExhausted

=============================================================================
