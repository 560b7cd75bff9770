----------------------- MODULE EventListener_proofs -----------------------
(***************************************************************************)
(* However polls overlap, fail or are cut short by restarts, the tracker   *)
(* passes no event that was neither given to its handler nor cut off by a  *)
(* full page: for any page limit, any number of polls and any log.         *)
(***************************************************************************)
EXTENDS EventListener, TLAPS

Covered(i) == i \in handed \/ CutOff(i)

\* The calls that change the resource's state and publish nothing.
Silent ==
    \/ Freeze \/ OpenDispute \/ Tombstone
    \/ \E to \in {"Listed", "Delisted", "Frozen"} : ResolveDispute(to)

\* The log is in the order of its ledgers, and the tracker is not ahead.
LogOK ==
    /\ \A i \in 1 .. Len(log) : log[i].ledger <= open
    /\ \A i, j \in 1 .. Len(log) : i < j => log[i].ledger <= log[j].ledger
    /\ cursor <= open /\ \A p \in Polls : from[p] <= open

\* A poll starts from a ledger the tracker had reached.
StartOK ==
    \A p \in Polls : pc[p] = "fetching" =>
        \A i \in 1 .. Len(log) : log[i].ledger < from[p] => Covered(i)

\* Where a poll is in its page, and that a page that cuts a ledger is full.
InPage(p) ==
    /\ last[p] \in 1 .. Len(log) /\ log[last[p]].ledger < open
    /\ pc[p] = "handling" => next[p] \in 1 .. last[p]
    /\ pc[p] = "saving" => next[p] = last[p] + 1
    /\ \A i \in 1 .. next[p] - 1 : Covered(i)
    /\ CutsLedger(p) => /\ last[p] >= PageLimit
                        /\ \A k \in last[p] - PageLimit + 1 .. next[p] - 1 : k \in handed
PageOK == \A p \in Polls : pc[p] \in {"handling", "saving"} => InPage(p)

IInv == TypeOK /\ LogOK /\ StartOK /\ PageOK /\ CursorCovers

\* An entry of the log has a ledger, from 1 on.
LEMMA LogEntries == TypeOK => \A i \in 1 .. Len(log) : log[i] \in Event /\ log[i].ledger \in Nat \ {0}
<1> SUFFICES ASSUME TypeOK, NEW i \in 1 .. Len(log)
             PROVE  log[i] \in Event /\ log[i].ledger \in Nat \ {0}
  OBVIOUS
<1>1. log[i] \in Event  BY DEF TypeOK
<1> QED  BY <1>1 DEF Event

LEMMA InitHolds == Init => IInv
<1> SUFFICES ASSUME Init PROVE IInv  OBVIOUS
<1>1. TypeOK
  <2>1. /\ state \in States /\ log \in Seq(Event) /\ open \in Nat \ {0}
        /\ cursor \in Nat /\ handed \subseteq 1 .. Len(log)
    BY DEF Init, States
  <2>2. /\ pc \in [Polls -> Steps] /\ from \in [Polls -> Nat]
        /\ last \in [Polls -> Nat] /\ next \in [Polls -> Nat]
    BY DEF Init, Steps
  <2>3. up \in BOOLEAN /\ listed \in BOOLEAN /\ delisting \in BOOLEAN /\ drift \in BOOLEAN  BY DEF Init
  <2> QED  BY <2>1, <2>2, <2>3 DEF TypeOK
<1>2. Len(log) = 0  BY DEF Init
<1>3. LogOK  BY <1>2 DEF Init, LogOK
<1>4. StartOK /\ PageOK /\ CursorCovers  BY <1>2 DEF Init, StartOK, PageOK, CursorCovers
<1> QED  BY <1>1, <1>3, <1>4 DEF IInv

\* What is covered stays covered while the log only grows.
LEMMA CoveredStays ==
    ASSUME TypeOK, Len(log') >= Len(log), \A i \in 1 .. Len(log) : log'[i] = log[i],
           handed \subseteq handed', NEW i \in 1 .. Len(log), Covered(i)
    PROVE  Covered(i)'
<1>1. CASE i \in handed  BY <1>1 DEF Covered
<1>2. CASE CutOff(i)
  <2>1. PICK j \in 1 .. i - 1 :
          /\ log[j].ledger = log[i].ledger
          /\ j >= PageLimit /\ \A k \in j - PageLimit + 1 .. j : k \in handed
    BY <1>2 DEF CutOff
  <2>2. j \in 1 .. Len(log)  BY <2>1 DEF TypeOK
  <2>3. log'[j].ledger = log'[i].ledger  BY <2>1, <2>2
  <2>4. \A k \in j - PageLimit + 1 .. j : k \in handed'  BY <2>1
  <2> QED  BY <2>1, <2>3, <2>4 DEF Covered, CutOff
<1> QED  BY <1>1, <1>2 DEF Covered

\* A step that leaves the log's entries and the polls' progress alone.
LEMMA QuietStep ==
    ASSUME IInv, TypeOK', UNCHANGED <<log, handed>>, open' \in {open, open + 1},
           cursor' = cursor \/ cursor' \in {0, 1},
           \A p \in Polls : \/ pc'[p] = "idle" /\ from'[p] = 0
                            \/ /\ pc'[p] = pc[p] /\ from'[p] = from[p]
                               /\ last'[p] = last[p] /\ next'[p] = next[p]
                            \/ pc'[p] = "fetching" /\ from'[p] = cursor
    PROVE  IInv'
<1>1. TypeOK /\ LogOK /\ StartOK /\ PageOK /\ CursorCovers  BY DEF IInv
<1>2. open' >= open /\ open \in Nat \ {0}  BY <1>1 DEF TypeOK
<1>3. \A i \in 1 .. Len(log) : log[i].ledger \in Nat \ {0}  BY <1>1, LogEntries
<1>4. \A i : Covered(i)' <=> Covered(i)  BY DEF Covered, CutOff
<1>5. LogOK'
  <2>1. cursor' <= open'  BY <1>1, <1>2 DEF LogOK, TypeOK
  <2>2. ASSUME NEW p \in Polls PROVE from'[p] <= open'
    <3>1. from'[p] = 0 \/ from'[p] = from[p] \/ from'[p] = cursor  OBVIOUS
    <3>2. from[p] \in Nat /\ cursor \in Nat  BY <1>1 DEF TypeOK
    <3>3. from[p] <= open /\ cursor <= open  BY <1>1 DEF LogOK
    <3> QED  BY <1>2, <3>1, <3>2, <3>3
  <2>3. \A i \in 1 .. Len(log) : log[i].ledger <= open'
    BY <1>1, <1>2, <1>3 DEF LogOK, TypeOK
  <2> QED  BY <1>1, <2>1, <2>2, <2>3 DEF LogOK
<1>6. CursorCovers'
  <2> SUFFICES ASSUME NEW i \in 1 .. Len(log), log[i].ledger < cursor' PROVE Covered(i)
    BY <1>4 DEF CursorCovers, Covered
  <2>1. cursor' = cursor  BY <1>3
  <2> QED  BY <1>1, <2>1 DEF CursorCovers, Covered
<1>7. StartOK'
  <2> SUFFICES ASSUME NEW p \in Polls, pc'[p] = "fetching",
                      NEW i \in 1 .. Len(log), log[i].ledger < from'[p]
               PROVE  Covered(i)
    BY <1>4 DEF StartOK
  <2>1. CASE from'[p] = cursor  BY <1>1, <2>1 DEF CursorCovers, Covered
  <2>2. CASE pc[p] = "fetching" /\ from'[p] = from[p]  BY <1>1, <2>2 DEF StartOK
  <2> QED  BY <2>1, <2>2
<1>8. PageOK'
  <2> SUFFICES ASSUME NEW p \in Polls, pc'[p] \in {"handling", "saving"}
               PROVE  InPage(p)'
    BY DEF PageOK
  <2>1. pc'[p] = pc[p] /\ last'[p] = last[p] /\ next'[p] = next[p]  OBVIOUS
  <2>2. InPage(p)  BY <1>1, <2>1 DEF PageOK
  <2>3. CutsLedger(p)' <=> CutsLedger(p)  BY <2>1 DEF CutsLedger
  <2>4. log[last[p]].ledger < open'  BY <1>1, <1>2, <1>3, <2>2 DEF InPage, TypeOK
  <2> QED  BY <1>4, <2>1, <2>2, <2>3, <2>4 DEF InPage
<1> QED  BY <1>5, <1>6, <1>7, <1>8 DEF IInv

\* A new event is in a ledger no poll has been given.
LEMMA EmitStep ==
    ASSUME IInv, TypeOK', NEW kind, Emit(kind),
           UNCHANGED <<open, cursor, poll, handed>>
    PROVE  IInv'
<1>1. TypeOK /\ LogOK /\ StartOK /\ PageOK /\ CursorCovers  BY DEF IInv
<1>2. /\ Len(log') = Len(log) + 1 /\ log'[Len(log) + 1].ledger = open
      /\ \A i \in 1 .. Len(log) : log'[i] = log[i]
  <2>1. log' = Append(log, [ledger |-> open, kind |-> kind])  BY DEF Emit
  <2>2. log \in Seq(Event)  BY <1>1 DEF TypeOK
  <2> QED  BY <2>1, <2>2
<1>3. /\ Len(log) \in Nat /\ open \in Nat \ {0} /\ cursor \in Nat
      /\ \A p \in Polls : from[p] \in Nat
  BY <1>1 DEF TypeOK
<1>4. \A i \in 1 .. Len(log) : log[i].ledger \in Nat \ {0}  BY <1>1, LogEntries
<1>5. \A i \in 1 .. Len(log) : Covered(i) => Covered(i)'
  <2> SUFFICES ASSUME NEW i \in 1 .. Len(log), Covered(i) PROVE Covered(i)'  OBVIOUS
  <2>1. Len(log') >= Len(log)  BY <1>2, <1>3
  <2> QED  BY <1>1, <1>2, <2>1, CoveredStays
<1>6. UNCHANGED <<pc, from, last, next, cursor, open, handed>>  BY DEF poll
<1>7. LogOK'
  <2>1. \A i \in 1 .. Len(log') : i \in 1 .. Len(log) \/ i = Len(log) + 1  BY <1>2, <1>3
  <2>2. \A i \in 1 .. Len(log') : log'[i].ledger <= open
    BY <1>1, <1>2, <1>3, <2>1 DEF LogOK
  <2>3. ASSUME NEW i \in 1 .. Len(log'), NEW j \in 1 .. Len(log'), i < j
        PROVE  log'[i].ledger <= log'[j].ledger
    <3>1. i \in 1 .. Len(log)  BY <1>2, <1>3, <2>3
    <3>2. CASE j \in 1 .. Len(log)  BY <1>1, <1>2, <2>3, <3>1, <3>2 DEF LogOK
    <3>3. CASE j = Len(log) + 1  BY <1>1, <1>2, <3>1, <3>3 DEF LogOK
    <3> QED  BY <2>1, <3>2, <3>3
  <2> QED  BY <1>1, <1>6, <2>2, <2>3 DEF LogOK
<1>8. StartOK'
  <2> SUFFICES ASSUME NEW p \in Polls, pc[p] = "fetching",
                      NEW i \in 1 .. Len(log'), log'[i].ledger < from[p]
               PROVE  Covered(i)'
    BY <1>6 DEF StartOK
  <2>1. from[p] <= open /\ from[p] \in Nat  BY <1>1, <1>3 DEF LogOK
  <2>2. i # Len(log) + 1  BY <1>2, <1>3, <2>1
  <2>3. i \in 1 .. Len(log)  BY <1>2, <1>3, <2>2
  <2> QED  BY <1>1, <1>2, <1>5, <2>3 DEF StartOK
<1>9. CursorCovers'
  <2> SUFFICES ASSUME NEW i \in 1 .. Len(log'), log'[i].ledger < cursor PROVE Covered(i)'
    BY <1>6 DEF CursorCovers, Covered
  <2>1. cursor <= open  BY <1>1 DEF LogOK
  <2>2. i # Len(log) + 1  BY <1>2, <1>3, <2>1
  <2>3. i \in 1 .. Len(log)  BY <1>2, <1>3, <2>2
  <2>4. Covered(i)  BY <1>1, <1>2, <2>3 DEF CursorCovers, Covered
  <2> QED  BY <1>5, <2>3, <2>4
<1>10. PageOK'
  <2> SUFFICES ASSUME NEW p \in Polls, pc[p] \in {"handling", "saving"} PROVE InPage(p)'
    BY <1>6 DEF PageOK
  <2>1. InPage(p)  BY <1>1 DEF PageOK
  <2>2. last[p] \in 1 .. Len(log) /\ log[last[p]].ledger < open  BY <2>1 DEF InPage
  <2>3. last[p] \in 1 .. Len(log') /\ log'[last[p]].ledger < open  BY <1>2, <1>3, <2>2
  <2>4. next[p] \in Nat /\ next[p] - 1 <= Len(log)
    BY <1>1, <1>3, <2>1, <2>2 DEF InPage, TypeOK
  <2>5. \A i \in 1 .. next[p] - 1 : Covered(i)'
    <3> SUFFICES ASSUME NEW i \in 1 .. next[p] - 1 PROVE Covered(i)'  OBVIOUS
    <3>1. i \in 1 .. Len(log)  BY <1>3, <2>4
    <3>2. Covered(i)  BY <2>1 DEF InPage
    <3> QED  BY <1>5, <3>1, <3>2
  <2>6. CutsLedger(p)' => CutsLedger(p)
    <3> SUFFICES ASSUME last[p] < Len(log'), log'[last[p] + 1].ledger = log'[last[p]].ledger
                 PROVE  last[p] < Len(log) /\ log[last[p] + 1].ledger = log[last[p]].ledger
      BY <1>6 DEF CutsLedger
    <3>1. last[p] # Len(log)
      <4>1. log'[last[p]].ledger \in Nat /\ log'[last[p]].ledger < open
        BY <1>2, <1>4, <2>2, <2>3
      <4> QED  BY <1>2, <1>3, <4>1
    <3>2. last[p] + 1 \in 1 .. Len(log)  BY <1>3, <2>2, <3>1
    <3> QED  BY <1>2, <1>3, <2>2, <3>2
  <2> QED  BY <1>6, <2>1, <2>3, <2>5, <2>6 DEF InPage
<1> QED  BY <1>7, <1>8, <1>9, <1>10 DEF IInv

\* A page starts at the first event the poll has not passed, and one that
\* ends inside a ledger holds PageLimit events.
LEMMA FetchStep ==
    ASSUME IInv, TypeOK', NEW p \in Polls, Fetch(p), pc'[p] = "handling"
    PROVE  IInv'
<1>1. TypeOK /\ LogOK /\ StartOK /\ PageOK /\ CursorCovers  BY DEF IInv
<1>2. pc[p] = "fetching" /\ UNCHANGED <<log, open, cursor, handed>>  BY DEF Fetch, chain
<1>3. PICK i, j \in 1 .. Len(log) :
        /\ First(p, i) /\ EndsPage(i, j)
        /\ next' = [next EXCEPT ![p] = i] /\ last' = [last EXCEPT ![p] = j]
        /\ pc' = [pc EXCEPT ![p] = "handling"] /\ from' = [from EXCEPT ![p] = 0]
  <2>1. ~Return(p)  BY <1>1 DEF Return, Goto, TypeOK
  <2> QED  BY <2>1 DEF Fetch, Goto
<1>4. /\ next'[p] = i /\ last'[p] = j
      /\ \A q \in Polls \ {p} : /\ pc'[q] = pc[q] /\ from'[q] = from[q]
                               /\ last'[q] = last[q] /\ next'[q] = next[q]
      /\ from'[p] = 0
  BY <1>1, <1>3 DEF TypeOK
<1>5. \A k : Covered(k)' <=> Covered(k)  BY <1>2 DEF Covered, CutOff
<1>6. Len(log) \in Nat /\ open \in Nat /\ from[p] \in Nat /\ PageLimit \in Nat \ {0}
  BY <1>1, ListenerAssumption DEF TypeOK
<1>7. \A k \in 1 .. Len(log) : log[k].ledger \in Nat  BY <1>1, LogEntries
<1>8. LogOK' /\ CursorCovers'
  <2>1. \A q \in Polls : from'[q] <= open  BY <1>1, <1>4, <1>6 DEF LogOK
  <2> QED  BY <1>1, <1>2, <1>5, <2>1 DEF LogOK, CursorCovers, Covered
<1>9. StartOK'
  <2> SUFFICES ASSUME NEW q \in Polls, pc'[q] = "fetching",
                      NEW k \in 1 .. Len(log), log[k].ledger < from'[q]
               PROVE  Covered(k)
    BY <1>2, <1>5 DEF StartOK
  <2>1. pc[q] = "fetching" /\ from'[q] = from[q]  BY <1>4
  <2> QED  BY <1>1, <2>1 DEF StartOK
<1>10. PageOK'
  <2> SUFFICES ASSUME NEW q \in Polls, pc'[q] \in {"handling", "saving"} PROVE InPage(q)'
    BY DEF PageOK
  <2>1. CASE q # p
    <3>1. InPage(q)  BY <1>1, <1>4, <2>1 DEF PageOK
    <3>2. CutsLedger(q)' <=> CutsLedger(q)  BY <1>2, <1>4, <2>1 DEF CutsLedger
    <3> QED  BY <1>2, <1>4, <1>5, <2>1, <3>1, <3>2 DEF InPage
  <2>2. CASE q = p
    <3>1. j >= i /\ j < i + PageLimit /\ log[j].ledger < open  BY <1>3 DEF EndsPage
    <3>2. \A k \in 1 .. i - 1 : Covered(k)
      <4> SUFFICES ASSUME NEW k \in 1 .. i - 1 PROVE Covered(k)  OBVIOUS
      <4>1. k \in 1 .. Len(log) /\ k < i  BY <1>3, <1>6
      <4>2. log[i].ledger < open /\ ~Available(p, k)  BY <1>3 DEF First, Available
      <4>3. log[k].ledger <= log[i].ledger  BY <1>1, <1>3, <4>1 DEF LogOK
      <4>4. log[k].ledger < from[p]  BY <1>3, <1>6, <1>7, <4>1, <4>2, <4>3 DEF Available
      <4> QED  BY <1>1, <1>2, <4>1, <4>4 DEF StartOK
    <3>3. CutsLedger(p)' => j >= PageLimit /\ j - PageLimit + 1 = i
      <4> SUFFICES ASSUME j < Len(log), log[j + 1].ledger = log[j].ledger
                   PROVE  j >= PageLimit /\ j - PageLimit + 1 = i
        BY <1>2, <1>4 DEF CutsLedger
      <4>1. log[j + 1].ledger < open  BY <3>1
      <4>2. ~(log[j + 1].ledger >= open)  BY <1>3, <1>6, <1>7, <4>1
      <4>3. ~(j + 1 < i + PageLimit)  BY <1>3, <4>2 DEF EndsPage
      <4> QED  BY <1>3, <1>6, <3>1, <4>3
    <3>4. j \in 1 .. Len(log') /\ log'[j].ledger < open' /\ i \in 1 .. j
      BY <1>2, <1>3, <3>1
    <3>5. pc'[p] = "handling"  OBVIOUS
    <3> QED  BY <1>3, <1>4, <1>5, <1>6, <2>2, <3>2, <3>3, <3>4, <3>5 DEF InPage
  <2> QED  BY <2>1, <2>2
<1> QED  BY <1>8, <1>9, <1>10 DEF IInv

\* An event that was given to its handler is covered, whatever came of it.
LEMMA LoopStep ==
    ASSUME IInv, TypeOK', NEW p \in Polls, pc[p] = "handling", NextEvent(p),
           UNCHANGED <<chain, cursor, from, last>>
    PROVE  IInv'
<1>1. TypeOK /\ LogOK /\ StartOK /\ PageOK /\ CursorCovers  BY DEF IInv
<1>2. UNCHANGED <<log, open, cursor, from, last>>  BY DEF chain
<1>3. /\ next'[p] = next[p] + 1 /\ handed' = handed \cup {next[p]}
      /\ pc'[p] = IF next[p] = last[p] THEN "saving" ELSE "handling"
      /\ \A q \in Polls \ {p} : pc'[q] = pc[q] /\ next'[q] = next[q]
  BY <1>1 DEF NextEvent, TypeOK
<1>4. \A i \in 1 .. Len(log) : Covered(i) => Covered(i)'
  <2> SUFFICES ASSUME NEW i \in 1 .. Len(log), Covered(i) PROVE Covered(i)'  OBVIOUS
  <2>1. Len(log') >= Len(log) /\ handed \subseteq handed'  BY <1>1, <1>2, <1>3 DEF TypeOK
  <2> QED  BY <1>1, <1>2, <2>1, CoveredStays
<1>5. InPage(p)  BY <1>1 DEF PageOK
<1>6. /\ next[p] \in 1 .. last[p] /\ last[p] \in 1 .. Len(log) /\ Len(log) \in Nat
      /\ PageLimit \in Nat \ {0}
  BY <1>1, <1>5, ListenerAssumption DEF InPage, TypeOK
<1>7. LogOK'  BY <1>1, <1>2 DEF LogOK
<1>8. CursorCovers'
  <2> SUFFICES ASSUME NEW i \in 1 .. Len(log), log[i].ledger < cursor PROVE Covered(i)'
    BY <1>2 DEF CursorCovers, Covered
  <2>1. Covered(i)  BY <1>1 DEF CursorCovers, Covered
  <2> QED  BY <1>4, <2>1
<1>9. StartOK'
  <2> SUFFICES ASSUME NEW q \in Polls, pc'[q] = "fetching",
                      NEW i \in 1 .. Len(log), log[i].ledger < from[q]
               PROVE  Covered(i)'
    BY <1>2 DEF StartOK
  <2>1. pc[q] = "fetching"  BY <1>3
  <2>2. Covered(i)  BY <1>1, <2>1 DEF StartOK
  <2> QED  BY <1>4, <2>2
<1>10. PageOK'
  <2> SUFFICES ASSUME NEW q \in Polls, pc'[q] \in {"handling", "saving"} PROVE InPage(q)'
    BY DEF PageOK
  <2>1. CutsLedger(q)' <=> CutsLedger(q)  BY <1>2 DEF CutsLedger
  <2>2. CASE q # p
    <3>1. InPage(q) /\ pc'[q] = pc[q] /\ next'[q] = next[q]  BY <1>1, <1>3, <2>2 DEF PageOK
    <3>2. \A i \in 1 .. next[q] - 1 : i \in 1 .. Len(log)
      BY <1>1, <1>3, <1>6, <2>2, <3>1 DEF InPage, TypeOK
    <3>3. \A i \in 1 .. next[q] - 1 : Covered(i)'  BY <1>4, <3>1, <3>2 DEF InPage
    <3> QED  BY <1>2, <1>3, <2>1, <3>1, <3>3 DEF InPage
  <2>3. CASE q = p
    <3>1. \A i \in 1 .. next[p] : Covered(i)'
      <4> SUFFICES ASSUME NEW i \in 1 .. next[p] PROVE Covered(i)'  OBVIOUS
      <4>1. CASE i = next[p]  BY <1>3, <4>1 DEF Covered
      <4>2. CASE i # next[p]
        <5>1. i \in 1 .. next[p] - 1 /\ i \in 1 .. Len(log)  BY <1>6, <4>2
        <5> QED  BY <1>4, <1>5, <5>1 DEF InPage
      <4> QED  BY <4>1, <4>2
    <3>2. CutsLedger(p) => /\ last[p] >= PageLimit
                           /\ \A k \in last[p] - PageLimit + 1 .. next[p] : k \in handed'
      <4> SUFFICES ASSUME CutsLedger(p)
                   PROVE  /\ last[p] >= PageLimit
                          /\ \A k \in last[p] - PageLimit + 1 .. next[p] : k \in handed'
        OBVIOUS
      <4>1. /\ last[p] >= PageLimit
            /\ \A k \in last[p] - PageLimit + 1 .. next[p] - 1 : k \in handed
        BY <1>5 DEF InPage
      <4>2. \A k \in last[p] - PageLimit + 1 .. next[p] :
              k = next[p] \/ k \in last[p] - PageLimit + 1 .. next[p] - 1
        BY <1>6
      <4> QED  BY <1>3, <4>1, <4>2
    <3>3. next'[p] - 1 = next[p]  BY <1>3, <1>6
    <3>4. pc'[p] = "handling" => next'[p] \in 1 .. last[p]  BY <1>3, <1>6
    <3>5. pc'[p] = "saving" => next'[p] = last[p] + 1  BY <1>3, <1>6
    <3>6. last'[p] \in 1 .. Len(log') /\ log'[last'[p]].ledger < open'
      BY <1>2, <1>5 DEF InPage
    <3> QED  BY <1>2, <2>1, <2>3, <3>1, <3>2, <3>3, <3>4, <3>5, <3>6 DEF InPage
  <2> QED  BY <2>2, <2>3
<1> QED  BY <1>7, <1>8, <1>9, <1>10 DEF IInv

\* Past the last event of a page there is another ledger, or the page is full.
LEMMA SaveStep ==
    ASSUME IInv, TypeOK', NEW p \in Polls, Save(p)
    PROVE  IInv'
<1>1. TypeOK /\ LogOK /\ StartOK /\ PageOK /\ CursorCovers  BY DEF IInv
<1>2. /\ pc[p] = "saving" /\ UNCHANGED <<log, open, handed>>
      /\ cursor' = log[last[p]].ledger + 1
  BY DEF Save, SavedLedger, chain
<1>3. /\ pc'[p] = "idle" /\ from'[p] = 0
      /\ \A q \in Polls \ {p} : /\ pc'[q] = pc[q] /\ from'[q] = from[q]
                               /\ last'[q] = last[q] /\ next'[q] = next[q]
  BY <1>1 DEF Save, Return, Goto, TypeOK
<1>4. \A k : Covered(k)' <=> Covered(k)  BY <1>2 DEF Covered, CutOff
<1>5. InPage(p) /\ next[p] = last[p] + 1 /\ last[p] \in 1 .. Len(log) /\ log[last[p]].ledger < open
  BY <1>1, <1>2 DEF PageOK, InPage
<1>6. /\ Len(log) \in Nat /\ open \in Nat /\ PageLimit \in Nat \ {0} /\ next[p] \in Nat
      /\ \A q \in Polls : from[q] \in Nat
  BY <1>1, ListenerAssumption DEF TypeOK
<1>7. \A k \in 1 .. Len(log) : log[k].ledger \in Nat  BY <1>1, LogEntries
<1>8. LogOK'
  <2>1. cursor' <= open  BY <1>2, <1>5, <1>6, <1>7
  <2>2. \A q \in Polls : from'[q] <= open  BY <1>1, <1>3, <1>6 DEF LogOK
  <2> QED  BY <1>1, <1>2, <2>1, <2>2 DEF LogOK
<1>9. CursorCovers'
  <2> SUFFICES ASSUME NEW i \in 1 .. Len(log), log[i].ledger < log[last[p]].ledger + 1
               PROVE  Covered(i)
    BY <1>2, <1>4 DEF CursorCovers, Covered
  <2>1. CASE i <= last[p]
    <3>1. i \in 1 .. next[p] - 1  BY <1>5, <1>6, <2>1
    <3> QED  BY <1>5, <3>1 DEF InPage
  <2>2. CASE i > last[p]
    <3>1. last[p] + 1 \in 1 .. Len(log) /\ last[p] < last[p] + 1 /\ last[p] \in 1 .. i - 1
      BY <1>5, <1>6, <2>2
    <3>2. log[last[p]].ledger <= log[last[p] + 1].ledger  BY <1>1, <1>5, <3>1 DEF LogOK
    <3>3. log[last[p] + 1].ledger <= log[i].ledger
      <4>1. CASE last[p] + 1 = i  BY <1>7, <4>1
      <4>2. CASE last[p] + 1 < i  BY <1>1, <3>1, <4>2 DEF LogOK
      <4> QED  BY <1>5, <2>2, <4>1, <4>2
    <3>4. /\ log[i].ledger = log[last[p]].ledger
          /\ log[last[p] + 1].ledger = log[last[p]].ledger
      <4>1. /\ log[i].ledger \in Nat /\ log[last[p]].ledger \in Nat
            /\ log[last[p] + 1].ledger \in Nat
        BY <1>5, <1>7, <3>1
      <4> QED  BY <3>2, <3>3, <4>1
    <3>5. CutsLedger(p)  BY <1>5, <1>6, <2>2, <3>4 DEF CutsLedger
    <3>6. /\ last[p] >= PageLimit
          /\ \A k \in last[p] - PageLimit + 1 .. last[p] : k \in handed
      BY <1>5, <1>6, <3>5 DEF InPage
    <3>7. CutOff(i)  BY <3>1, <3>4, <3>6 DEF CutOff
    <3> QED  BY <3>7 DEF Covered
  <2> QED  BY <1>5, <2>1, <2>2
<1>10. StartOK'
  <2> SUFFICES ASSUME NEW q \in Polls, pc'[q] = "fetching",
                      NEW k \in 1 .. Len(log), log[k].ledger < from'[q]
               PROVE  Covered(k)
    BY <1>2, <1>4 DEF StartOK
  <2>1. pc[q] = "fetching" /\ from'[q] = from[q]  BY <1>3
  <2> QED  BY <1>1, <2>1 DEF StartOK
<1>11. PageOK'
  <2> SUFFICES ASSUME NEW q \in Polls, pc'[q] \in {"handling", "saving"} PROVE InPage(q)'
    BY DEF PageOK
  <2>1. /\ q # p /\ pc'[q] = pc[q] /\ last'[q] = last[q] /\ next'[q] = next[q]
    BY <1>3
  <2>2. InPage(q)  BY <1>1, <2>1 DEF PageOK
  <2>3. CutsLedger(q)' <=> CutsLedger(q)  BY <1>2, <2>1 DEF CutsLedger
  <2> QED  BY <1>2, <1>4, <2>1, <2>2, <2>3 DEF InPage
<1> QED  BY <1>8, <1>9, <1>10, <1>11 DEF IInv

\* Every step keeps the types.
LEMMA TypeStep == IInv /\ [Next]_vars => TypeOK'
<1> SUFFICES ASSUME IInv, [Next]_vars PROVE TypeOK'  OBVIOUS
<1>1. TypeOK /\ PageOK  BY DEF IInv
<1>2. CASE UNCHANGED vars
  BY <1>1, <1>2 DEF TypeOK, vars, chain, poll, server
<1>3. ASSUME NEW kind \in {"Listed", "Delisted", "other"}, Emit(kind), state' \in States,
             UNCHANGED <<open, cursor, poll, up, listed, handed>>,
             delisting' \in BOOLEAN, drift' \in BOOLEAN
      PROVE  TypeOK'
  <2>1. [ledger |-> open, kind |-> kind] \in Event  BY <1>1, <1>3 DEF TypeOK, Event
  <2>2. log' \in Seq(Event) /\ Len(log') = Len(log) + 1  BY <1>1, <1>3, <2>1 DEF TypeOK, Emit
  <2>3. handed' \subseteq 1 .. Len(log')  BY <1>1, <1>3, <2>2 DEF TypeOK
  <2> QED  BY <1>1, <1>3, <2>2, <2>3 DEF TypeOK, poll
<1>4. ASSUME NEW to \in {"Listed", "Delisted"}, CreatorSetsListed(to) PROVE TypeOK'
  <2>1. drift' \in BOOLEAN  BY <1>1, <1>4 DEF CreatorSetsListed, SetListed, Overlap, TypeOK
  <2>2. /\ Emit(to) /\ state' \in States /\ delisting' \in BOOLEAN
        /\ UNCHANGED <<open, cursor, poll, up, listed, handed>>
    BY <1>1, <1>4 DEF CreatorSetsListed, SetListed, server, States, TypeOK
  <2> QED  BY <1>3, <2>1, <2>2
<1>5. CASE DelistOnChain
  <2>1. drift' \in BOOLEAN  BY <1>1, <1>5 DEF DelistOnChain, SetListed, Overlap, TypeOK
  <2>2. /\ Emit("Delisted") /\ state' \in States /\ delisting' \in BOOLEAN
        /\ UNCHANGED <<open, cursor, poll, up, listed, handed>>
    BY <1>5 DEF DelistOnChain, SetListed, States
  <2> QED  BY <1>3, <2>1, <2>2
<1>12. CASE EmergencyDelist \/ Reactivate \/ OtherCall
  <2>1. /\ Emit("other") /\ state' \in States /\ delisting' \in BOOLEAN /\ drift' \in BOOLEAN
        /\ UNCHANGED <<open, cursor, poll, up, listed, handed>>
    BY <1>1, <1>12 DEF EmergencyDelist, Reactivate, OtherCall, Transition, server, States, TypeOK
  <2> QED  BY <1>3, <2>1
<1>13. CASE Silent
  BY <1>1, <1>13
     DEF Silent, Freeze, OpenDispute, ResolveDispute, Tombstone, Transition, States, TypeOK, poll, server
<1>6. CASE CloseLedger  BY <1>1, <1>6 DEF CloseLedger, TypeOK, poll, server
<1>7. CASE Delist \/ DelistLost
  BY <1>1, <1>7 DEF Delist, DelistLost, Announced, TypeOK, chain, poll
<1>8. ASSUME NEW o \in BOOLEAN, Verdict(o) PROVE TypeOK'
  <2>1. drift' \in BOOLEAN /\ listed' \in BOOLEAN
    BY <1>1, <1>8 DEF Verdict, Announced, TypeOK
  <2> QED  BY <1>1, <1>8, <2>1 DEF Verdict, TypeOK, chain, poll
<1>9. ASSUME NEW p \in Polls, StartPoll(p) \/ PollStep(p) PROVE TypeOK'
  <2>1. CASE StartPoll(p)
    <3>1. drift' \in BOOLEAN  BY <1>1, <2>1 DEF StartPoll, TypeOK
    <3>2. pc' \in [Polls -> Steps] /\ from' \in [Polls -> Nat] /\ cursor' \in Nat
          /\ last' = last /\ next' = next
      <4>1. CASE cursor = 0 /\ cursor' = 1 /\ UNCHANGED poll  BY <1>1, <4>1 DEF TypeOK, poll
      <4>2. CASE /\ cursor' = cursor /\ last' = last /\ next' = next
                 /\ from' = [from EXCEPT ![p] = cursor] /\ pc' = [pc EXCEPT ![p] = "fetching"]
        BY <1>1, <4>2 DEF TypeOK, Steps
      <4> QED  BY <2>1, <4>1, <4>2 DEF StartPoll, Goto
    <3> QED  BY <1>1, <2>1, <3>1, <3>2 DEF StartPoll, TypeOK, chain, server
  <2>2. CASE Return(p) /\ UNCHANGED <<chain, server, handed>> /\ cursor' \in Nat /\ drift' \in BOOLEAN
    <3>1. /\ pc' \in [Polls -> Steps] /\ from' \in [Polls -> Nat]
          /\ last' \in [Polls -> Nat] /\ next' \in [Polls -> Nat]
      BY <1>1, <2>2 DEF Return, Goto, TypeOK, Steps
    <3> QED  BY <1>1, <2>2, <3>1 DEF TypeOK, chain, server
  <2>3. CASE Fetch(p)
    <3>1. CASE Return(p)  BY <1>1, <2>2, <2>3, <3>1 DEF Fetch, TypeOK
    <3>2. CASE ~Return(p)
      <4>1. /\ pc' \in [Polls -> Steps] /\ from' \in [Polls -> Nat]
            /\ last' \in [Polls -> Nat] /\ next' \in [Polls -> Nat]
        <5>1. PICK i, j \in 1 .. Len(log) :
                /\ next' = [next EXCEPT ![p] = i] /\ last' = [last EXCEPT ![p] = j]
                /\ pc' = [pc EXCEPT ![p] = "handling"] /\ from' = [from EXCEPT ![p] = 0]
          BY <2>3, <3>2 DEF Fetch, Goto
        <5> QED  BY <1>1, <5>1 DEF TypeOK, Steps
      <4> QED  BY <1>1, <2>3, <4>1 DEF Fetch, TypeOK, chain, server
    <3> QED  BY <3>1, <3>2
  <2>4. CASE FetchFails(p) \/ SaveFails(p)
    BY <1>1, <2>2, <2>4 DEF FetchFails, SaveFails, TypeOK
  <2>5. CASE Save(p)
    <3>1. last[p] \in 1 .. Len(log)  BY <1>1, <2>5 DEF Save, PageOK, InPage
    <3>2. log[last[p]].ledger \in Nat  BY <1>1, <3>1, LogEntries
    <3>3. cursor' \in Nat  BY <2>5, <3>2 DEF Save, SavedLedger
    <3>4. drift' \in BOOLEAN  BY <1>1, <2>5 DEF Save, TypeOK, CutsLedger
    <3> QED  BY <2>2, <2>5, <3>3, <3>4 DEF Save
  <2>6. CASE Handle(p) \/ HandlesNothing(p)
    <3>1. pc[p] = "handling" /\ NextEvent(p) /\ UNCHANGED <<chain, cursor, from, last, up, delisting>>
      BY <2>6 DEF Handle, HandlesNothing, server
    <3>2. next[p] \in 1 .. Len(log)
      BY <1>1, <3>1 DEF PageOK, InPage, TypeOK
    <3>3. /\ pc' \in [Polls -> Steps] /\ next' \in [Polls -> Nat] /\ handed' \subseteq 1 .. Len(log)
      <4>1. handed' \subseteq 1 .. Len(log)  BY <1>1, <3>1, <3>2 DEF NextEvent, TypeOK
      <4>2. next' \in [Polls -> Nat]  BY <1>1, <3>1 DEF NextEvent, TypeOK
      <4>3. pc' \in [Polls -> Steps]  BY <1>1, <3>1 DEF NextEvent, TypeOK, Steps
      <4> QED  BY <4>1, <4>2, <4>3
    <3>4. listed' \in BOOLEAN /\ drift' \in BOOLEAN
      BY <1>1, <2>6 DEF Handle, HandlesNothing, NewListed, Latest, Setlisted, server, TypeOK
    <3> QED  BY <1>1, <3>1, <3>3, <3>4 DEF TypeOK, chain
  <2> QED  BY <1>9, <2>1, <2>3, <2>4, <2>5, <2>6 DEF PollStep
<1>10. CASE Crash
  <2>1. /\ pc' \in [Polls -> Steps] /\ from' \in [Polls -> Nat]
        /\ last' \in [Polls -> Nat] /\ next' \in [Polls -> Nat]
    BY <1>10 DEF Crash, Steps
  <2>2. cursor' \in Nat /\ drift' \in BOOLEAN /\ delisting' \in BOOLEAN
    <3>1. cursor' \in Nat  BY <1>1, <1>10 DEF Crash, TypeOK
    <3>2. drift' \in BOOLEAN  BY <1>1, <1>10 DEF Crash, Announced, TypeOK
    <3>3. delisting' \in BOOLEAN  BY <1>10 DEF Crash
    <3> QED  BY <3>1, <3>2, <3>3
  <2> QED  BY <1>1, <1>10, <2>1, <2>2 DEF Crash, TypeOK, chain
<1>11. CASE Boot  BY <1>1, <1>11 DEF Boot, TypeOK, chain, poll
<1> QED  BY <1>2, <1>4, <1>5, <1>6, <1>7, <1>8, <1>9, <1>10, <1>11, <1>12, <1>13
     DEF Next, Silent

\* One step of the specification.
LEMMA StepHolds == IInv /\ [Next]_vars => IInv'
<1> SUFFICES ASSUME IInv, [Next]_vars PROVE IInv'  OBVIOUS
<1>1. TypeOK /\ TypeOK'  BY TypeStep DEF IInv
<1>2. CASE UNCHANGED vars  BY <1>1, <1>2, QuietStep DEF vars, chain, poll
<1>3. CASE CloseLedger \/ Delist \/ DelistLost \/ \E o \in BOOLEAN : Verdict(o)
  BY <1>1, <1>3, QuietStep DEF CloseLedger, Delist, DelistLost, Verdict, chain, poll
<1>4. CASE \/ DelistOnChain \/ \E to \in {"Listed", "Delisted"} : CreatorSetsListed(to)
           \/ EmergencyDelist \/ Reactivate \/ OtherCall
  BY <1>1, <1>4, EmitStep
     DEF DelistOnChain, CreatorSetsListed, SetListed, EmergencyDelist, Reactivate, OtherCall, Transition
<1>8. CASE Silent
  BY <1>1, <1>8, QuietStep
     DEF Silent, Freeze, OpenDispute, ResolveDispute, Tombstone, Transition, poll
<1>5. ASSUME NEW p \in Polls, StartPoll(p) \/ PollStep(p) PROVE IInv'
  <2>1. CASE StartPoll(p)
    <3>1. UNCHANGED <<log, open, handed>>  BY <2>1 DEF StartPoll, chain
    <3>2. cursor' = cursor \/ cursor' \in {0, 1}  BY <2>1 DEF StartPoll
    <3>3. ASSUME NEW q \in Polls
          PROVE  \/ pc'[q] = pc[q] /\ from'[q] = from[q] /\ last'[q] = last[q] /\ next'[q] = next[q]
                 \/ pc'[q] = "fetching" /\ from'[q] = cursor
      BY <1>1, <2>1 DEF StartPoll, Goto, TypeOK, poll
    <3> QED  BY <1>1, <3>1, <3>2, <3>3, QuietStep
  <2>2. CASE Return(p) /\ UNCHANGED <<chain, cursor, handed>>
    <3>1. ASSUME NEW q \in Polls
          PROVE  \/ pc'[q] = "idle" /\ from'[q] = 0
                 \/ pc'[q] = pc[q] /\ from'[q] = from[q] /\ last'[q] = last[q] /\ next'[q] = next[q]
      BY <1>1, <2>2 DEF Return, Goto, TypeOK
    <3> QED  BY <1>1, <2>2, <3>1, QuietStep DEF chain
  <2>3. CASE Fetch(p)
    <3>1. CASE Return(p)  BY <2>2, <2>3, <3>1 DEF Fetch
    <3>2. CASE ~Return(p)
      <4>1. pc'[p] = "handling"  BY <1>1, <2>3, <3>2 DEF Fetch, Goto, TypeOK
      <4> QED  BY <1>1, <2>3, <4>1, FetchStep
    <3> QED  BY <3>1, <3>2
  <2>4. CASE FetchFails(p) \/ SaveFails(p)  BY <2>2, <2>4 DEF FetchFails, SaveFails
  <2>5. CASE Save(p)  BY <1>1, <2>5, SaveStep
  <2>6. CASE Handle(p) \/ HandlesNothing(p)
    BY <1>1, <2>6, LoopStep DEF Handle, HandlesNothing
  <2> QED  BY <1>5, <2>1, <2>3, <2>4, <2>5, <2>6 DEF PollStep
<1>6. CASE Crash
  <2>1. \A p \in Polls : pc'[p] = "idle" /\ from'[p] = 0  BY <1>6 DEF Crash
  <2>2. UNCHANGED <<log, open, handed>> /\ (cursor' = cursor \/ cursor' \in {0, 1})
    BY <1>6 DEF Crash, chain
  <2> QED  BY <1>1, <2>1, <2>2, QuietStep
<1>7. CASE Boot  BY <1>1, <1>7, QuietStep DEF Boot, chain, poll
<1> QED  BY <1>2, <1>3, <1>4, <1>5, <1>6, <1>7, <1>8 DEF Next, Silent

\* The types of the listener's state, over any run.
THEOREM TypesHold == Spec => []TypeOK
<1>1. IInv => TypeOK  BY DEF IInv
<1> QED  BY InitHolds, StepHolds, <1>1, PTL DEF Spec

\* The tracker passes no event that was neither handed over nor cut off.
THEOREM TrackerCovers == Spec => []CursorCovers
<1>1. IInv => CursorCovers  BY DEF IInv
<1> QED  BY InitHolds, StepHolds, <1>1, PTL DEF Spec
============================================================================
