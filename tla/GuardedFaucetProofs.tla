------------------------ MODULE GuardedFaucetProofs ------------------------
(* Theorems about GuardedFaucet, for any number of accounts, faucets and requests, and  *)
(* any sizes of the queue and the batch.                                                *)
EXTENDS GuardedFaucet, FiniteSums

Types ==
  /\ now \in Nat /\ now > Guard /\ now <= Guard + MaxTime + 1 /\ down \in BOOLEAN
  /\ requests \in Seq(Request) /\ Len(requests) <= MaxRequests
  /\ senders \in Seq(Ids) /\ queue \in Seq(Ids) /\ batch \in Seq(Ids)
  /\ Len(queue) <= QueueSize /\ Len(batch) <= Limit
  /\ pool \in 0..Len(Pools)
  /\ recipients \in [Users \X Faucets -> 0..now]
  /\ outcome \in Seq(Outcomes) /\ Len(outcome) = Len(requests)
  /\ minted \subseteq [id : Ids, at : 0..now]

\* A request is at one place of one of the three sequences, and its outcome says of which.
Places ==
  /\ \A i \in DOMAIN senders : outcome[senders[i]] = "asked"
  /\ \A i \in DOMAIN queue : outcome[queue[i]] = "queued"
  /\ \A i \in DOMAIN batch : outcome[batch[i]] \notin {"asked", "cancelled"}
  /\ \A i, j \in DOMAIN senders : senders[i] = senders[j] => i = j
  /\ \A i, j \in DOMAIN queue : queue[i] = queue[j] => i = j
  /\ \A i, j \in DOMAIN batch : batch[i] = batch[j] => i = j
  /\ \A i \in DOMAIN batch, j \in DOMAIN queue : batch[i] # queue[j]

\* What was accepted and not yet decided is in the queue, or in the batch and of a faucet
\* whose turn has not yet come.
Pending ==
  /\ pool = 0 => batch = <<>>
  /\ \A id \in Ids : outcome[id] = "queued" =>
       (\E i \in DOMAIN queue : queue[i] = id) \/ (\E i \in DOMAIN batch : batch[i] = id)
  /\ \A i \in DOMAIN batch : outcome[batch[i]] = "queued" =>
       \A k \in 1..(pool - 1) : requests[batch[i]].faucet # Pools[k]

\* The recipients know of every mint.
Spaced == MintsSpaced /\ \A m \in minted : m.at <= recipients[Key(m.id)]

Inv == Types /\ Places /\ Pending /\ Spaced

\* The clock does not run so far that the subtraction wraps.
LEMMA CanMint ==
  ASSUME Types, NEW last \in 0..now
  PROVE  can_mint(last) <=> now > last + Guard
<1>1. now \in Nat /\ last \in Nat /\ last <= now /\ now < Word /\ Word \in Nat /\ Guard \in Nat
  BY FaucetAssumption DEF Types
<1>2. now - last \in 0..(Word - 1)
  BY <1>1
<1>3. (now - last) % Word = now - last
  BY <1>1, <1>2
<1>4. QED
  BY <1>1, <1>3 DEF can_mint

\* A request keeps its account and faucet.
LEMMA KeyType == ASSUME Types, NEW id \in Ids PROVE Key(id) \in Users \X Faucets
<1>1. requests \in Seq(Request)
  BY DEF Types
<1>2. id \in DOMAIN requests
  BY DEF Ids
<1>3. requests[id] \in Request
  BY <1>1, <1>2
<1>4. QED
  BY <1>3 DEF Key, Request

\* The channel, the batch and the marks are empty at the start.
LEMMA FaucetInit == Init => Inv
<1> SUFFICES ASSUME Init PROVE Inv
  OBVIOUS
<1>1. Types
  <2>1. now \in Nat /\ now > Guard /\ now <= Guard + MaxTime + 1 /\ 0 \in 0..now
    BY FaucetAssumption DEF Init
  <2>2. pool \in 0..Len(Pools) /\ 0 <= MaxRequests /\ 0 <= QueueSize /\ 0 <= Limit
    BY FaucetAssumption DEF Init
  <2>3. recipients \in [Users \X Faucets -> 0..now]
    BY <2>1 DEF Init
  <2>4. /\ requests \in Seq(Request) /\ Len(requests) = 0
        /\ senders \in Seq(Ids) /\ queue \in Seq(Ids) /\ batch \in Seq(Ids)
        /\ Len(queue) = 0 /\ Len(batch) = 0
        /\ outcome \in Seq(Outcomes) /\ Len(outcome) = 0 /\ minted = {} /\ down = FALSE
    BY DEF Init
  <2>5. QED
    BY <2>1, <2>2, <2>3, <2>4 DEF Types
<1>2. Places /\ Pending /\ Spaced
  BY DEF Init, Places, Pending, Spaced, MintsSpaced, Ids
<1>3. QED
  BY <1>1, <1>2 DEF Inv

-----------------------------------------------------------------------------
\* Time passes: no mint comes closer to another.
LEMMA TickNext == ASSUME Inv, Tick PROVE Inv'
<1>1. now' = now + 1 /\ now <= Guard + MaxTime
      /\ UNCHANGED <<requests, senders, queue, batch, pool, recipients, outcome, minted, down>>
  BY DEF Tick
<1>2. now \in Nat /\ Guard \in Nat /\ MaxTime \in Nat
  BY FaucetAssumption DEF Inv, Types
<1>3. 0..now \subseteq 0..now'
  BY <1>1, <1>2
<1>4. recipients' \in [Users \X Faucets -> 0..now'] /\ minted' \subseteq [id : Ids, at : 0..now']
  BY <1>1, <1>3 DEF Inv, Types
<1>5. Types'
  BY <1>1, <1>2, <1>4 DEF Inv, Types, Ids
<1>6. Places' /\ Pending' /\ Spaced'
  BY <1>1 DEF Inv, Places, Pending, Spaced, MintsSpaced, Ids, Key
<1>7. QED
  BY <1>5, <1>6 DEF Inv

\* A new request is behind all others.
LEMMA AskNext ==
  ASSUME Inv, NEW user \in Users, NEW faucet \in Faucets \cup {Unknown}, mint_faucet(user, faucet)
  PROVE  Inv'
<1> DEFINE r == [user |-> user, faucet |-> faucet]
           n == Len(requests) + 1
<1>1. /\ Len(requests) < MaxRequests /\ faucet \in Faucets
      /\ requests' = Append(requests, r) /\ outcome' = Append(outcome, "asked")
      /\ senders' = Append(senders, Len(requests'))
      /\ UNCHANGED <<now, queue, batch, pool, recipients, minted, down>>
  BY DEF mint_faucet
<1>2. /\ requests \in Seq(Request) /\ r \in Request
      /\ outcome \in Seq(Outcomes) /\ Len(outcome) = Len(requests) /\ MaxRequests \in Nat
      /\ senders \in Seq(Ids) /\ queue \in Seq(Ids) /\ batch \in Seq(Ids)
  BY <1>1, FaucetAssumption DEF Inv, Types, Request
<1> HIDE DEF r
<1>3. /\ Ids = 1..Len(requests) /\ Ids' = 1..n /\ n \in Nat /\ n \notin Ids /\ Len(requests') = n
      /\ requests' \in Seq(Request) /\ outcome' \in Seq(Outcomes)
      /\ Len(outcome') = n /\ n <= MaxRequests
  BY <1>1, <1>2 DEF Ids, Outcomes
<1>4. Ids' = Ids \cup {n} /\ \A id \in Ids : requests'[id] = requests[id] /\ outcome'[id] = outcome[id]
  BY <1>1, <1>2, <1>3
<1>5. outcome'[n] = "asked"
  BY <1>1, <1>2
<1>6. senders' \in Seq(Ids') /\ queue' \in Seq(Ids') /\ batch' \in Seq(Ids')
  <2>1. senders \in Seq(Ids') /\ queue \in Seq(Ids') /\ batch \in Seq(Ids')
    BY <1>2, <1>4
  <2>2. QED
    BY <1>1, <1>3, <2>1
<1>7. minted' \subseteq [id : Ids', at : 0..now']
  BY <1>1, <1>4 DEF Inv, Types
<1>8. Types'
  BY <1>1, <1>3, <1>6, <1>7 DEF Inv, Types
<1>9. \A i \in DOMAIN senders' : \/ i \in DOMAIN senders /\ senders'[i] = senders[i] /\ senders[i] \in Ids
                                 \/ i = Len(senders) + 1 /\ senders'[i] = n
  BY <1>1, <1>2, <1>3
<1>10. /\ \A i \in DOMAIN queue : queue[i] \in Ids
       /\ \A i \in DOMAIN batch : batch[i] \in Ids
  BY <1>2
<1>11. Places'
  BY <1>1, <1>3, <1>4, <1>5, <1>9, <1>10 DEF Inv, Places
<1>12. Pending'
  <2>1. \A id \in Ids' : outcome'[id] = "queued" => id \in Ids /\ outcome[id] = "queued"
    BY <1>4, <1>5
  <2>2. \A i \in DOMAIN batch : requests'[batch[i]] = requests[batch[i]] /\ outcome'[batch[i]] = outcome[batch[i]]
    BY <1>4, <1>10
  <2>3. pool' = 0 => batch' = <<>>
    BY <1>1 DEF Inv, Pending
  <2>4. \A id \in Ids' : outcome'[id] = "queued" =>
          (\E i \in DOMAIN queue' : queue'[i] = id) \/ (\E i \in DOMAIN batch' : batch'[i] = id)
    BY <1>1, <2>1 DEF Inv, Pending
  <2>5. \A i \in DOMAIN batch' : outcome'[batch'[i]] = "queued" =>
          \A k \in 1..(pool' - 1) : requests'[batch'[i]].faucet # Pools[k]
    <3>1. \A i \in DOMAIN batch : outcome[batch[i]] = "queued" =>
            \A k \in 1..(pool - 1) : requests[batch[i]].faucet # Pools[k]
      BY DEF Inv, Pending
    <3>2. batch' = batch /\ pool' = pool
      BY <1>1
    <3>3. QED
      BY <2>2, <3>1, <3>2
  <2>6. QED
    BY <2>3, <2>4, <2>5 DEF Pending
<1>13. Spaced'
  <2>1. \A m \in minted : m.id \in Ids
    BY DEF Inv, Types
  <2>2. \A m \in minted : Key(m.id)' = Key(m.id)
    BY <1>4, <2>1 DEF Key
  <2>3. QED
    BY <1>1, <2>2 DEF Inv, Spaced, MintsSpaced
<1>14. QED
  BY <1>8, <1>11, <1>12, <1>13 DEF Inv

-----------------------------------------------------------------------------
\* The handlers' side of the queue.
LEMMA EnqueueNext == ASSUME Inv, Enqueue PROVE Inv'
<1> DEFINE id == Head(senders)
<1>1. /\ senders # <<>> /\ Len(queue) < QueueSize
      /\ queue' = Append(queue, id) /\ senders' = Tail(senders)
      /\ outcome' = [outcome EXCEPT ![id] = "queued"]
      /\ UNCHANGED <<now, requests, batch, pool, recipients, minted, down>>
  BY DEF Enqueue
<1>2. /\ senders \in Seq(Ids) /\ queue \in Seq(Ids) /\ batch \in Seq(Ids)
      /\ outcome \in Seq(Outcomes) /\ Len(outcome) = Len(requests) /\ requests \in Seq(Request)
      /\ QueueSize \in Nat
  BY FaucetAssumption DEF Inv, Types
<1>3. id = senders[1] /\ 1 \in DOMAIN senders /\ id \in Ids
  BY <1>1, <1>2
<1> HIDE DEF id
<1>4. Ids = 1..Len(requests) /\ DOMAIN outcome = Ids /\ Ids' = Ids
  BY <1>1, <1>2 DEF Ids
<1>5. /\ outcome' \in Seq(Outcomes) /\ Len(outcome') = Len(requests) /\ outcome'[id] = "queued"
      /\ \A other \in Ids \ {id} : outcome'[other] = outcome[other]
  BY <1>1, <1>2, <1>3, <1>4 DEF Outcomes
<1>6. senders' \in Seq(Ids) /\ queue' \in Seq(Ids) /\ Len(queue') <= QueueSize
  BY <1>1, <1>2, <1>3
<1>7. Types'
  BY <1>1, <1>4, <1>5, <1>6 DEF Inv, Types
<1>8. \A i \in DOMAIN senders' : i + 1 \in DOMAIN senders /\ senders'[i] = senders[i + 1] /\ i + 1 # 1 /\ i \in Nat
  BY <1>1, <1>2
<1>9. \A i \in DOMAIN queue' : \/ i \in DOMAIN queue /\ queue'[i] = queue[i]
                               \/ i = Len(queue) + 1 /\ queue'[i] = id
  BY <1>1, <1>2, <1>3
<1>10. /\ \A i \in DOMAIN queue : queue[i] # id /\ queue[i] \in Ids
       /\ \A i \in DOMAIN batch : batch[i] # id /\ batch[i] \in Ids
       /\ \A i \in DOMAIN senders : i # 1 => senders[i] # id /\ senders[i] \in Ids
  <2>1. outcome[id] = "asked"
    BY <1>3 DEF Inv, Places
  <2>2. \A i \in DOMAIN queue : queue[i] # id
    BY <2>1 DEF Inv, Places
  <2>3. \A i \in DOMAIN batch : batch[i] # id
    BY <2>1 DEF Inv, Places
  <2>4. \A i \in DOMAIN senders : i # 1 => senders[i] # id
    BY <1>3 DEF Inv, Places
  <2>5. QED
    BY <1>2, <2>2, <2>3, <2>4
<1>11. Places'
  <2>1. \A i \in DOMAIN senders' : outcome'[senders'[i]] = "asked"
    BY <1>5, <1>8, <1>10 DEF Inv, Places
  <2>2. \A i \in DOMAIN queue' : outcome'[queue'[i]] = "queued"
    BY <1>5, <1>9, <1>10 DEF Inv, Places
  <2>3. \A i \in DOMAIN batch' : outcome'[batch'[i]] \notin {"asked", "cancelled"}
    BY <1>1, <1>5, <1>10 DEF Inv, Places
  <2>4. \A i, j \in DOMAIN senders' : senders'[i] = senders'[j] => i = j
    <3>1. \A i, j \in DOMAIN senders' : senders[i + 1] = senders[j + 1] => i + 1 = j + 1
      BY <1>8 DEF Inv, Places
    <3>2. QED
      BY <1>8, <3>1
  <2>5. \A i, j \in DOMAIN queue' : queue'[i] = queue'[j] => i = j
    BY <1>9, <1>10 DEF Inv, Places
  <2>6. \A i, j \in DOMAIN batch' : batch'[i] = batch'[j] => i = j
    BY <1>1 DEF Inv, Places
  <2>7. \A i \in DOMAIN batch', j \in DOMAIN queue' : batch'[i] # queue'[j]
    BY <1>1, <1>9, <1>10 DEF Inv, Places
  <2>8. QED
    BY <2>1, <2>2, <2>3, <2>4, <2>5, <2>6, <2>7 DEF Places
<1>12. Pending'
  <2>1. pool' = 0 => batch' = <<>>
    BY <1>1 DEF Inv, Pending
  <2>2. \A i \in DOMAIN queue : i \in DOMAIN queue' /\ queue'[i] = queue[i]
    BY <1>1, <1>2, <1>3
  <2>3. Len(queue) + 1 \in DOMAIN queue' /\ queue'[Len(queue) + 1] = id
    BY <1>1, <1>2, <1>3
  <2>4. \A other \in Ids' : outcome'[other] = "queued" =>
          (\E i \in DOMAIN queue' : queue'[i] = other) \/ (\E i \in DOMAIN batch' : batch'[i] = other)
    <3>1. SUFFICES ASSUME NEW other \in Ids, other # id, outcome'[other] = "queued"
                   PROVE  (\E i \in DOMAIN queue' : queue'[i] = other) \/ (\E i \in DOMAIN batch' : batch'[i] = other)
      BY <1>4, <2>3
    <3>2. outcome[other] = "queued"
      BY <1>5, <3>1
    <3>3. (\E i \in DOMAIN queue : queue[i] = other) \/ (\E i \in DOMAIN batch : batch[i] = other)
      BY <3>1, <3>2 DEF Inv, Pending
    <3>4. QED
      BY <1>1, <2>2, <3>3
  <2>5. \A i \in DOMAIN batch' : outcome'[batch'[i]] = "queued" =>
          \A k \in 1..(pool' - 1) : requests'[batch'[i]].faucet # Pools[k]
    <3>1. \A i \in DOMAIN batch : outcome'[batch[i]] = outcome[batch[i]]
      BY <1>5, <1>10
    <3>2. batch' = batch /\ pool' = pool /\ requests' = requests
      BY <1>1
    <3>3. QED
      BY <3>1, <3>2 DEF Inv, Pending
  <2>6. QED
    BY <2>1, <2>4, <2>5 DEF Pending
<1>13. Spaced'
  BY <1>1 DEF Inv, Spaced, MintsSpaced, Key
<1>14. QED
  BY <1>7, <1>11, <1>12, <1>13 DEF Inv

\* A handler that leaves takes its request out of the line.
LEMMA HangUpNext == ASSUME Inv, NEW h \in DOMAIN senders, HangUp(h) PROVE Inv'
<1> DEFINE id == senders[h]
<1>1. /\ senders' = SubSeq(senders, 1, h - 1) \o SubSeq(senders, h + 1, Len(senders))
      /\ outcome' = [outcome EXCEPT ![id] = "cancelled"]
      /\ UNCHANGED <<now, requests, queue, batch, pool, recipients, minted, down>>
  BY DEF HangUp, RemoveAt
<1>2. /\ senders \in Seq(Ids) /\ queue \in Seq(Ids) /\ batch \in Seq(Ids)
      /\ outcome \in Seq(Outcomes) /\ Len(outcome) = Len(requests) /\ requests \in Seq(Request)
  BY DEF Inv, Types
<1>3. id \in Ids /\ h \in 1..Len(senders) /\ Len(senders) \in Nat
  BY <1>2
<1>4. Ids = 1..Len(requests) /\ DOMAIN outcome = Ids /\ Ids' = Ids
  BY <1>1, <1>2 DEF Ids
<1>5. /\ outcome' \in Seq(Outcomes) /\ Len(outcome') = Len(requests)
      /\ \A other \in Ids \ {id} : outcome'[other] = outcome[other]
      /\ outcome'[id] = "cancelled"
  BY <1>1, <1>2, <1>3, <1>4 DEF Outcomes
<1>6. /\ senders' \in Seq(Ids)
      /\ \A i \in DOMAIN senders' : senders'[i] = IF i < h THEN senders[i] ELSE senders[i + 1]
      /\ DOMAIN senders' = 1..(Len(senders) - 1)
  <2> DEFINE a == SubSeq(senders, 1, h - 1)
             b == SubSeq(senders, h + 1, Len(senders))
  <2>1. a \in Seq(Ids) /\ Len(a) = h - 1 /\ \A i \in 1..(h - 1) : a[i] = senders[i]
    BY <1>2, <1>3
  <2>2. b \in Seq(Ids) /\ Len(b) = Len(senders) - h /\ \A i \in 1..(Len(senders) - h) : b[i] = senders[h + i]
    BY <1>2, <1>3
  <2> HIDE DEF a, b
  <2>3. a \o b \in Seq(Ids) /\ Len(a \o b) = Len(senders) - 1
    BY <1>3, <2>1, <2>2
  <2>4. \A i \in 1..(Len(senders) - 1) : (a \o b)[i] = IF i < h THEN a[i] ELSE b[i - (h - 1)]
    BY <1>3, <2>1, <2>2
  <2>5. \A i \in 1..(Len(senders) - 1) : ~(i < h) => b[i - (h - 1)] = senders[i + 1]
    <3>1. \A i \in 1..(Len(senders) - 1) : ~(i < h) => i - (h - 1) \in 1..(Len(senders) - h) /\ h + (i - (h - 1)) = i + 1
      BY <1>3
    <3>2. QED
      BY <2>2, <3>1
  <2>6. senders' = a \o b
    BY <1>1 DEF a, b
  <2>7. DOMAIN senders' = 1..(Len(senders) - 1)
    BY <2>3, <2>6
  <2>8. \A i \in 1..(Len(senders) - 1) : i < h => a[i] = senders[i]
    BY <1>3, <2>1
  <2>9. \A i \in DOMAIN senders' : senders'[i] = IF i < h THEN senders[i] ELSE senders[i + 1]
    BY <2>4, <2>5, <2>6, <2>7, <2>8
  <2>10. QED
    BY <2>3, <2>6, <2>7, <2>9
<1> HIDE DEF id
<1>7. Types'
  BY <1>1, <1>4, <1>5, <1>6 DEF Inv, Types
<1>8. \A i \in DOMAIN senders' : \E k \in DOMAIN senders : k # h /\ senders'[i] = senders[k] /\ k = IF i < h THEN i ELSE i + 1
  BY <1>2, <1>3, <1>6
<1>9. /\ \A i \in DOMAIN queue : queue[i] # id /\ queue[i] \in Ids
      /\ \A i \in DOMAIN batch : batch[i] # id /\ batch[i] \in Ids
      /\ \A i \in DOMAIN senders : i # h => senders[i] # id /\ senders[i] \in Ids
  <2>1. outcome[id] = "asked"
    BY <1>3 DEF Inv, Places, id
  <2>2. \A i \in DOMAIN queue : queue[i] # id
    BY <2>1 DEF Inv, Places
  <2>3. \A i \in DOMAIN batch : batch[i] # id
    BY <2>1 DEF Inv, Places
  <2>4. \A i \in DOMAIN senders : i # h => senders[i] # id
    BY <1>3 DEF Inv, Places, id
  <2>5. QED
    BY <1>2, <2>2, <2>3, <2>4
<1>10. Places'
  <2>1. \A i \in DOMAIN senders' : outcome'[senders'[i]] = "asked"
    BY <1>5, <1>8, <1>9 DEF Inv, Places
  <2>2. \A i \in DOMAIN queue' : outcome'[queue'[i]] = "queued"
    BY <1>1, <1>5, <1>9 DEF Inv, Places
  <2>3. \A i \in DOMAIN batch' : outcome'[batch'[i]] \notin {"asked", "cancelled"}
    BY <1>1, <1>5, <1>9 DEF Inv, Places
  <2>4. \A i, j \in DOMAIN senders' : senders'[i] = senders'[j] => i = j
    <3>1. SUFFICES ASSUME NEW i \in DOMAIN senders', NEW j \in DOMAIN senders', senders'[i] = senders'[j]
                   PROVE  i = j
      OBVIOUS
    <3>2. PICK k \in DOMAIN senders : senders'[i] = senders[k] /\ k = IF i < h THEN i ELSE i + 1
      BY <1>8
    <3>3. PICK l \in DOMAIN senders : senders'[j] = senders[l] /\ l = IF j < h THEN j ELSE j + 1
      BY <1>8
    <3>4. k = l
      BY <3>1, <3>2, <3>3 DEF Inv, Places
    <3>5. i \in Int /\ j \in Int /\ h \in Int
      BY <1>3, <1>6
    <3>6. QED
      BY <3>2, <3>3, <3>4, <3>5
  <2>5. /\ \A i, j \in DOMAIN queue' : queue'[i] = queue'[j] => i = j
        /\ \A i, j \in DOMAIN batch' : batch'[i] = batch'[j] => i = j
        /\ \A i \in DOMAIN batch', j \in DOMAIN queue' : batch'[i] # queue'[j]
    BY <1>1 DEF Inv, Places
  <2>6. QED
    BY <2>1, <2>2, <2>3, <2>4, <2>5 DEF Places
<1>11. Pending'
  <2>1. \A other \in Ids : outcome'[other] = "queued" => outcome[other] = "queued"
    BY <1>5
  <2>2. \A i \in DOMAIN batch : outcome'[batch[i]] = outcome[batch[i]]
    BY <1>5, <1>9
  <2>3. queue' = queue /\ batch' = batch /\ pool' = pool /\ requests' = requests
    BY <1>1
  <2>4. QED
    BY <1>4, <2>1, <2>2, <2>3 DEF Inv, Pending
<1>12. Spaced'
  BY <1>1 DEF Inv, Spaced, MintsSpaced, Key
<1>13. QED
  BY <1>7, <1>10, <1>11, <1>12 DEF Inv

-----------------------------------------------------------------------------
\* The thread takes the front of the queue.
LEMMA RecvNext == ASSUME Inv, recv_many PROVE Inv'
<1> DEFINE n == IF Len(queue) < Limit THEN Len(queue) ELSE Limit
<1>1. /\ pool = 0 /\ queue # <<>> /\ pool' = 1
      /\ batch' = SubSeq(queue, 1, n) /\ queue' = SubSeq(queue, n + 1, Len(queue))
      /\ UNCHANGED <<now, requests, senders, recipients, outcome, minted, down>>
  BY DEF recv_many
<1>2. /\ queue \in Seq(Ids) /\ Len(queue) \in Nat /\ Len(queue) <= QueueSize /\ Limit \in Nat \ {0}
      /\ QueueSize \in Nat /\ batch = <<>> /\ requests \in Seq(Request)
  BY <1>1, FaucetAssumption DEF Inv, Types, Pending
<1>3. n \in 0..Len(queue) /\ n <= Limit
  BY <1>2
<1> HIDE DEF n
<1>4. batch' \in Seq(Ids) /\ DOMAIN batch' = 1..n /\ Len(batch') = n /\ \A i \in 1..n : batch'[i] = queue[i]
  BY <1>1, <1>2, <1>3
<1>5. /\ queue' \in Seq(Ids) /\ DOMAIN queue' = 1..(Len(queue) - n) /\ Len(queue') = Len(queue) - n
      /\ \A i \in 1..(Len(queue) - n) : queue'[i] = queue[n + i]
  BY <1>1, <1>2, <1>3
<1>6. Len(Pools) \in Nat /\ 1 <= Len(Pools)
  <2>1. Pools \in Seq(Faucets)
    BY FaucetAssumption
  <2>2. requests[queue[1]] \in Request
    <3>1. queue[1] \in Ids
      BY <1>1, <1>2
    <3>2. queue[1] \in DOMAIN requests
      BY <3>1 DEF Ids
    <3>3. QED
      BY <1>2, <3>2
  <2>3. Faucets # {}
    BY <2>2 DEF Request
  <2>4. QED
    BY <2>1, <2>3 DEF Faucets, Range
<1>7. Ids' = Ids
  BY <1>1 DEF Ids
<1>8. Types'
  BY <1>1, <1>2, <1>3, <1>4, <1>5, <1>6, <1>7 DEF Inv, Types
<1>9. /\ \A i \in 1..n : i \in DOMAIN queue
      /\ \A i \in 1..(Len(queue) - n) : n + i \in DOMAIN queue /\ n + i > n
  BY <1>2, <1>3
<1>10. Places'
  <2>1. /\ \A i \in DOMAIN senders' : outcome'[senders'[i]] = "asked"
        /\ \A i, j \in DOMAIN senders' : senders'[i] = senders'[j] => i = j
    BY <1>1 DEF Inv, Places
  <2>2. \A i \in DOMAIN queue' : outcome'[queue'[i]] = "queued"
    BY <1>1, <1>5, <1>9 DEF Inv, Places
  <2>3. \A i \in DOMAIN batch' : outcome'[batch'[i]] \notin {"asked", "cancelled"}
    BY <1>1, <1>4, <1>9 DEF Inv, Places
  <2>4. \A i, j \in DOMAIN queue' : queue'[i] = queue'[j] => i = j
    <3>1. SUFFICES ASSUME NEW i \in DOMAIN queue', NEW j \in DOMAIN queue', queue'[i] = queue'[j]
                   PROVE  i = j
      OBVIOUS
    <3>2. queue[n + i] = queue[n + j] /\ n + i \in DOMAIN queue /\ n + j \in DOMAIN queue
      BY <1>5, <1>9, <3>1
    <3>3. n + i = n + j
      BY <3>2 DEF Inv, Places
    <3>4. n \in Int /\ i \in Int /\ j \in Int
      BY <1>3, <1>5
    <3>5. QED
      BY <3>3, <3>4
  <2>5. \A i, j \in DOMAIN batch' : batch'[i] = batch'[j] => i = j
    BY <1>4, <1>9 DEF Inv, Places
  <2>6. \A i \in DOMAIN batch', j \in DOMAIN queue' : batch'[i] # queue'[j]
    <3>1. \A i \in 1..n, j \in 1..(Len(queue) - n) : n + j # i
      BY <1>3
    <3>2. QED
      BY <1>4, <1>5, <1>9, <3>1 DEF Inv, Places
  <2>7. QED
    BY <2>1, <2>2, <2>3, <2>4, <2>5, <2>6 DEF Places
<1>11. Pending'
  <2>1. pool' # 0
    BY <1>1
  <2>2. ASSUME NEW id \in Ids, outcome[id] = "queued"
        PROVE  (\E i \in DOMAIN queue' : queue'[i] = id) \/ (\E i \in DOMAIN batch' : batch'[i] = id)
    <3>1. PICK i \in DOMAIN queue : queue[i] = id
      BY <1>2, <2>2 DEF Inv, Pending
    <3>2. CASE i <= n
      <4>1. i \in 1..n
        BY <1>2, <1>3, <3>2
      <4>2. QED
        BY <1>4, <3>1, <4>1
    <3>3. CASE ~(i <= n)
      <4>1. i - n \in 1..(Len(queue) - n) /\ n + (i - n) = i
        BY <1>2, <1>3, <3>3
      <4>2. QED
        BY <1>5, <3>1, <4>1
    <3>4. QED
      BY <3>2, <3>3
  <2>3. \A k \in 1..(pool' - 1) : FALSE
    BY <1>1
  <2>4. QED
    BY <1>1, <1>7, <2>1, <2>2, <2>3 DEF Pending
<1>12. Spaced'
  BY <1>1 DEF Inv, Spaced, MintsSpaced, Key
<1>13. QED
  BY <1>8, <1>10, <1>11, <1>12 DEF Inv

\* One pass over the instructions of a pool's faucet makes a note for an instruction, or
\* refuses it, or fails to make its note, and makes at most one for each account.
LEMMA PassOutcome ==
  ASSUME Types, NEW unmade
  PROVE  /\ Noted(unmade) \subseteq Free /\ Free \subseteq Mine /\ Mine \subseteq DOMAIN batch
         /\ \A i \in Mine : i \in Noted(unmade) <=> i \notin Guarded(unmade) /\ batch[i] \notin unmade
         /\ \A i, j \in Noted(unmade) : SameKey(i, j) => i = j
<1>1. Noted(unmade) \subseteq Free /\ Free \subseteq Mine /\ Mine \subseteq DOMAIN batch
  BY DEF Noted, Free, Mine
<1>2. DOMAIN batch \subseteq Nat
  <2>1. batch \in Seq(Ids)
    BY DEF Types
  <2>2. QED
    BY <2>1
<1>3. \A i, j \in Noted(unmade) : SameKey(i, j) => ~(j < i)
  BY DEF Noted
<1>4. \A i, j \in Noted(unmade) : SameKey(i, j) => i = j
  <2>1. \A i, j \in Noted(unmade) : SameKey(i, j) => SameKey(j, i) /\ i \in Nat /\ j \in Nat
    BY <1>1, <1>2 DEF SameKey
  <2>2. QED
    BY <1>3, <2>1
<1>5. \A i \in Noted(unmade) : i \notin Guarded(unmade) /\ batch[i] \notin unmade
  BY <1>1, <1>3 DEF Noted, Guarded
<1>6. ASSUME NEW i \in Mine, i \notin Guarded(unmade), batch[i] \notin unmade
      PROVE  i \in Noted(unmade)
  <2>1. i \in Free /\ \A j \in Noted(unmade) : ~(j < i /\ SameKey(i, j))
    BY <1>6 DEF Guarded
  <2> DEFINE S == {j \in Free : j < i /\ SameKey(i, j) /\ batch[j] \notin unmade}
  <2>2. S = {}
    <3>1. SUFFICES ASSUME S # {} PROVE FALSE
      OBVIOUS
    <3>2. S \subseteq Nat
      BY <1>1, <1>2
    <3>3. PICK n \in S : \A m \in S : n <= m
      BY <3>1, <3>2, LeastMember
    <3>4. n \in Free /\ n < i /\ SameKey(i, n) /\ batch[n] \notin unmade
      BY <3>3
    <3>5. \A j \in Free : j < n /\ SameKey(n, j) => batch[j] \in unmade
      <4>1. SUFFICES ASSUME NEW j \in Free, j < n, SameKey(n, j), batch[j] \notin unmade PROVE FALSE
        OBVIOUS
      <4>2. j \in Nat /\ n \in Nat /\ i \in Nat
        BY <1>1, <1>2, <3>4
      <4>3. j < i /\ SameKey(i, j)
        BY <3>4, <4>1, <4>2 DEF SameKey
      <4>4. j \in S
        BY <4>1, <4>3
      <4>5. QED
        BY <3>3, <4>1, <4>2, <4>4
    <3>6. n \in Noted(unmade)
      BY <3>4, <3>5 DEF Noted
    <3>7. QED
      BY <2>1, <3>4, <3>6
  <2>3. QED
    BY <1>6, <2>1, <2>2 DEF Noted
<1>7. QED
  BY <1>1, <1>4, <1>5, <1>6

\* The turn of one pool: its instructions are decided, those of the pools before stay so.
LEMMA MintNext ==
  ASSUME Inv, NEW unmade, NEW ok \in BOOLEAN, MintForPool(unmade, ok)
  PROVE  Inv'
<1> DEFINE asked   == {batch[i] : i \in Mine}
           guarded == {batch[i] : i \in Guarded(unmade)}
           notes   == asked \ (guarded \cup unmade)
<1>1. /\ pool # 0 /\ unmade \subseteq asked
      /\ recipients' = [k \in Users \X Faucets |->
           IF \E i \in Noted(unmade) : Key(batch[i]) = k THEN now ELSE recipients[k]]
      /\ outcome' = [id \in Ids |->
           IF id \in notes THEN IF ok THEN "minted" ELSE "lost"
           ELSE IF id \in guarded THEN "guarded"
           ELSE IF id \in unmade THEN "unmade"
           ELSE outcome[id]]
      /\ minted' = IF ok THEN minted \cup {[id |-> id, at |-> now] : id \in notes} ELSE minted
      /\ UNCHANGED <<now, requests, senders, queue, down>>
  BY DEF MintForPool
<1>2. \/ pool = Len(Pools) /\ pool' = 0 /\ batch' = <<>>
      \/ pool # Len(Pools) /\ pool' = pool + 1 /\ batch' = batch
  BY DEF MintForPool, NextPool
<1>3. /\ senders \in Seq(Ids) /\ queue \in Seq(Ids) /\ batch \in Seq(Ids)
      /\ outcome \in Seq(Outcomes) /\ Len(outcome) = Len(requests) /\ requests \in Seq(Request)
      /\ now \in Nat /\ Guard \in Nat /\ pool \in 1..Len(Pools) /\ Len(Pools) \in Nat
      /\ recipients \in [Users \X Faucets -> 0..now]
      /\ minted \subseteq [id : Ids, at : 0..now]
  <2>1. Len(Pools) \in Nat /\ Guard \in Nat
    BY FaucetAssumption
  <2>2. QED
    BY <1>1, <2>1 DEF Inv, Types
<1>4. /\ Noted(unmade) \subseteq Free /\ Free \subseteq Mine /\ Mine \subseteq DOMAIN batch
      /\ \A i \in Mine : i \in Noted(unmade) <=> i \notin Guarded(unmade) /\ batch[i] \notin unmade
      /\ \A i, j \in Noted(unmade) : SameKey(i, j) => i = j
  BY PassOutcome DEF Inv
<1>5. \A id \in notes : \E i \in Noted(unmade) : batch[i] = id
  <2>1. SUFFICES ASSUME NEW i \in Mine, batch[i] \notin guarded, batch[i] \notin unmade
                 PROVE  i \in Noted(unmade)
    OBVIOUS
  <2>2. i \notin Guarded(unmade)
    BY <2>1
  <2>3. QED
    BY <1>4, <2>1, <2>2
<1>6. asked \subseteq Ids /\ guarded \subseteq asked
  BY <1>3, <1>4 DEF Guarded
<1>7. Ids' = Ids /\ Ids = 1..Len(requests) /\ DOMAIN outcome = Ids /\ Len(requests) \in Nat
  BY <1>1, <1>3 DEF Ids
<1>8. /\ \A id \in Ids \ asked : outcome'[id] = outcome[id]
      /\ \A id \in asked : outcome'[id] \in {"minted", "lost", "guarded", "unmade"}
  BY <1>1, <1>6
<1>9. \A i \in DOMAIN batch : batch[i] \in asked <=> i \in Mine
  <2>1. \A i, j \in DOMAIN batch : batch[i] = batch[j] => i = j
    BY DEF Inv, Places
  <2>2. QED
    BY <1>4, <2>1
<1> HIDE DEF asked, guarded, notes
<1>10. notes \subseteq Ids
  BY <1>6 DEF notes
<1>11. \A k \in Users \X Faucets : /\ recipients'[k] \in {now, recipients[k]}
                                   /\ recipients[k] \in 0..now /\ recipients[k] <= recipients'[k]
  BY <1>1, <1>3
<1>12. Types'
  <2>1. recipients' \in [Users \X Faucets -> 0..now]
    BY <1>1, <1>3
  <2>2. \A id \in Ids : outcome[id] \in Outcomes
    BY <1>3, <1>7
  <2>3. \A id \in Ids : outcome'[id] \in Outcomes
    BY <1>8, <2>2 DEF Outcomes
  <2>4. DOMAIN outcome' = Ids /\ outcome' = [id \in Ids |-> outcome'[id]]
    BY <1>1
  <2>5. outcome' \in [1..Len(requests) -> Outcomes]
    BY <1>7, <2>3, <2>4
  <2>6. outcome' \in Seq(Outcomes) /\ Len(outcome') = Len(requests)
    BY <1>7, <2>5
  <2>7. minted' \subseteq [id : Ids, at : 0..now]
    <3>1. \A id \in notes : [id |-> id, at |-> now] \in [id : Ids, at : 0..now]
      BY <1>3, <1>10
    <3>2. QED
      BY <1>1, <1>3, <3>1
  <2>8. pool' \in 0..Len(Pools) /\ batch' \in Seq(Ids) /\ Len(batch') <= Limit
    <3>1. Len(batch) <= Limit /\ Limit \in Nat
      BY FaucetAssumption DEF Inv, Types
    <3>2. CASE pool = Len(Pools) /\ pool' = 0 /\ batch' = <<>>
      BY <1>3, <3>1, <3>2
    <3>3. CASE pool # Len(Pools) /\ pool' = pool + 1 /\ batch' = batch
      BY <1>3, <3>1, <3>3
    <3>4. QED
      BY <1>2, <3>2, <3>3
  <2>9. QED
    BY <1>1, <1>7, <2>1, <2>6, <2>7, <2>8 DEF Inv, Types
<1>13. Places'
  <2>1. \A i \in DOMAIN senders : senders[i] \in Ids \ asked
    <3>1. \A i \in DOMAIN senders : senders[i] \in Ids
      BY <1>3
    <3>2. QED
      BY <1>4, <3>1 DEF Inv, Places, asked
  <2>2. \A i \in DOMAIN queue : queue[i] \in Ids \ asked
    <3>1. \A i \in DOMAIN queue : queue[i] \in Ids
      BY <1>3
    <3>2. QED
      BY <1>4, <3>1 DEF Inv, Places, asked
  <2>3. /\ \A i \in DOMAIN senders' : outcome'[senders'[i]] = "asked"
        /\ \A i, j \in DOMAIN senders' : senders'[i] = senders'[j] => i = j
    BY <1>1, <1>8, <2>1 DEF Inv, Places
  <2>4. /\ \A i \in DOMAIN queue' : outcome'[queue'[i]] = "queued"
        /\ \A i, j \in DOMAIN queue' : queue'[i] = queue'[j] => i = j
    BY <1>1, <1>8, <2>2 DEF Inv, Places
  <2>5. \A i \in DOMAIN batch : outcome'[batch[i]] \notin {"asked", "cancelled"}
    <3>1. \A i \in DOMAIN batch : batch[i] \in Ids /\ outcome[batch[i]] \notin {"asked", "cancelled"}
      BY <1>3 DEF Inv, Places
    <3>2. QED
      BY <1>8, <3>1
  <2>6. CASE batch' = <<>>
    BY <2>3, <2>4, <2>6 DEF Places
  <2>7. CASE batch' = batch
    <3>1. /\ \A i, j \in DOMAIN batch' : batch'[i] = batch'[j] => i = j
          /\ \A i \in DOMAIN batch', j \in DOMAIN queue' : batch'[i] # queue'[j]
      BY <1>1, <2>7 DEF Inv, Places
    <3>2. QED
      BY <2>3, <2>4, <2>5, <2>7, <3>1 DEF Places
  <2>8. QED
    BY <1>2, <2>6, <2>7
<1>14. Pending'
  <2>1. ASSUME NEW i \in DOMAIN batch, outcome'[batch[i]] = "queued", NEW k \in 1..pool
        PROVE  requests[batch[i]].faucet # Pools[k]
    <3>1. batch[i] \in Ids
      BY <1>3
    <3>2. i \notin Mine /\ outcome[batch[i]] = "queued"
      BY <1>8, <1>9, <2>1, <3>1
    <3>3. k = pool \/ k \in 1..(pool - 1)
      BY <1>3
    <3>4. QED
      BY <2>1, <3>2, <3>3 DEF Inv, Pending, Mine
  <2>2. ASSUME NEW id \in Ids, outcome'[id] = "queued"
        PROVE  (\E i \in DOMAIN queue : queue[i] = id) \/ (\E i \in DOMAIN batch : batch[i] = id)
    BY <1>8, <2>2 DEF Inv, Pending
  <2>3. CASE pool # Len(Pools) /\ pool' = pool + 1 /\ batch' = batch
    <3>1. pool' - 1 = pool /\ pool' # 0
      BY <1>3, <2>3
    <3>2. QED
      BY <1>1, <1>7, <2>1, <2>2, <2>3, <3>1 DEF Pending
  <2>4. CASE pool = Len(Pools) /\ pool' = 0 /\ batch' = <<>>
    <3>1. ASSUME NEW i \in DOMAIN batch, outcome'[batch[i]] = "queued" PROVE FALSE
      <4>1. requests[batch[i]] \in Request
        <5>1. batch[i] \in Ids
          BY <1>3
        <5>2. batch[i] \in DOMAIN requests
          BY <5>1 DEF Ids
        <5>3. QED
          BY <1>3, <5>2
      <4>2. \E k \in DOMAIN Pools : requests[batch[i]].faucet = Pools[k]
        BY <4>1 DEF Request, Faucets, Range
      <4>3. DOMAIN Pools = 1..pool
        BY <2>4, FaucetAssumption
      <4>4. QED
        BY <2>1, <3>1, <4>2, <4>3
    <3>2. \A id \in Ids : outcome'[id] = "queued" => \E i \in DOMAIN queue : queue[i] = id
      BY <2>2, <3>1
    <3>3. QED
      BY <1>1, <1>7, <2>4, <3>2 DEF Pending
  <2>5. QED
    BY <1>2, <2>3, <2>4
<1>15. Spaced'
  <2>1. \A m \in minted : m.id \in Ids /\ m.at \in Nat /\ Key(m.id) \in Users \X Faucets
    <3>1. \A m \in minted : m.id \in Ids /\ m.at \in Nat
      BY <1>3
    <3>2. QED
      BY <3>1, KeyType DEF Inv
  <2>2. \A m \in minted : m.at <= recipients[Key(m.id)] /\ m.at <= recipients'[Key(m.id)]
    <3>1. \A m \in minted : m.at <= recipients[Key(m.id)]
      BY DEF Inv, Spaced
    <3>2. \A k \in Users \X Faucets : recipients[k] \in Nat /\ recipients'[k] \in Nat
      <4>1. 0..now \subseteq Nat
        BY <1>3
      <4>2. QED
        BY <1>3, <1>11, <4>1
    <3>3. QED
      BY <1>11, <2>1, <3>1, <3>2
  <2>3. ASSUME NEW id \in notes
        PROVE  /\ recipients'[Key(id)] = now
               /\ recipients[Key(id)] \in Nat /\ now > recipients[Key(id)] + Guard
    <3>1. PICK i \in Noted(unmade) : batch[i] = id
      BY <1>5
    <3>2. Key(id) \in Users \X Faucets
      BY <1>10, KeyType DEF Inv
    <3>3. recipients'[Key(id)] = now
      BY <1>1, <3>1, <3>2
    <3>4. can_mint(recipients[Key(id)])
      BY <1>4, <3>1 DEF Free
    <3>5. QED
      BY <1>3, <3>2, <3>3, <3>4, CanMint DEF Inv
  <2>4. \A i, j \in notes : Key(i) = Key(j) => i = j
    <3>1. SUFFICES ASSUME NEW i \in notes, NEW j \in notes, Key(i) = Key(j) PROVE i = j
      OBVIOUS
    <3>2. PICK p \in Noted(unmade) : batch[p] = i
      BY <1>5
    <3>3. PICK q \in Noted(unmade) : batch[q] = j
      BY <1>5
    <3>4. p = q
      BY <1>4, <3>1, <3>2, <3>3 DEF SameKey
    <3>5. QED
      BY <3>2, <3>3, <3>4
  <2>5. \A m \in minted' : m \in minted \/ (m.id \in notes /\ m.at = now /\ m = [id |-> m.id, at |-> now])
    BY <1>1
  <2>6. \A m \in minted' : m.at <= recipients'[Key(m.id)]
    BY <1>3, <2>2, <2>3, <2>5
  <2>7. ASSUME NEW m \in minted', NEW n \in minted', m # n, Key(m.id) = Key(n.id)
        PROVE  m.at > n.at + Guard \/ n.at > m.at + Guard
    <3>1. CASE m \in minted /\ n \in minted
      BY <2>7, <3>1 DEF Inv, Spaced, MintsSpaced
    <3>2. CASE m.id \in notes /\ m.at = now /\ n \in minted
      BY <1>3, <2>1, <2>2, <2>3, <2>7, <3>2
    <3>3. CASE n.id \in notes /\ n.at = now /\ m \in minted
      BY <1>3, <2>1, <2>2, <2>3, <2>7, <3>3
    <3>4. CASE /\ m.id \in notes /\ m = [id |-> m.id, at |-> now]
               /\ n.id \in notes /\ n = [id |-> n.id, at |-> now]
      BY <2>4, <2>7, <3>4
    <3>5. QED
      BY <2>5, <3>1, <3>2, <3>3, <3>4
  <2>8. \A id : Key(id)' = Key(id)
    BY <1>1 DEF Key
  <2>9. QED
    BY <1>1, <2>6, <2>7, <2>8 DEF Spaced, MintsSpaced
<1>16. QED
  BY <1>12, <1>13, <1>14, <1>15 DEF Inv

\* Every step of the handlers and the thread keeps Inv.
LEMMA FaucetNext == Inv /\ [Next]_vars => Inv'
<1> SUFFICES ASSUME Inv, [Next]_vars PROVE Inv'
  OBVIOUS
<1>1. CASE SyncFails \/ UNCHANGED vars
  <2>1. /\ UNCHANGED <<now, requests, senders, queue, batch, pool, recipients, outcome, minted>>
        /\ down' \in BOOLEAN
    BY <1>1 DEF SyncFails, vars, Inv, Types
  <2>2. Types'
    BY <2>1 DEF Inv, Types, Ids
  <2>3. Places' /\ Pending' /\ Spaced'
    BY <2>1 DEF Inv, Places, Pending, Spaced, MintsSpaced, Key, Ids
  <2>4. QED
    BY <2>2, <2>3 DEF Inv
<1>2. QED
  BY <1>1, TickNext, AskNext, EnqueueNext, HangUpNext, RecvNext, MintNext DEF Next, FaucetThread

\* The queue and the batch stay within the channel's capacity and the limit of recv_many,
\* and the thread's counters within their ranges.
THEOREM FaucetTypeCorrect == Spec => []TypeOK
<1>1. Inv => TypeOK
  <2> SUFFICES ASSUME Types PROVE TypeOK
    BY DEF Inv
  <2>2. outcome \in [Ids -> Outcomes]
    BY DEF Types, Ids
  <2>3. Range(senders) \cup Range(queue) \cup Range(batch) \subseteq Ids
    <3>1. senders \in Seq(Ids) /\ queue \in Seq(Ids) /\ batch \in Seq(Ids)
      BY DEF Types
    <3>2. QED
      BY <3>1 DEF Range
  <2>4. \A m \in minted : m.id \in Ids /\ m.at \in 0..now
    BY DEF Types
  <2>5. QED
    BY <2>2, <2>3, <2>4 DEF Types, TypeOK
<1>2. QED
  BY <1>1, FaucetInit, FaucetNext, PTL DEF Spec

\* The guard spaces the mints of an account and faucet, within a batch and over batches.
THEOREM GuardSpacesMints == Spec => []MintsSpaced
<1>1. Inv => MintsSpaced
  BY DEF Inv, Spaced
<1>2. QED
  BY <1>1, FaucetInit, FaucetNext, PTL DEF Spec

\* An instruction that was answered success is decided once, in whatever way the queue is
\* cut into batches and whoever hangs up meanwhile.
THEOREM AcceptedServedOnce == Spec => []AcceptedOnce
<1>1. Inv => AcceptedOnce
  <2> SUFFICES ASSUME Inv PROVE AcceptedOnce
    OBVIOUS
  <2> DEFINE held == batch \o queue
  <2>1. /\ batch \in Seq(Ids) /\ queue \in Seq(Ids) /\ Len(batch) \in Nat /\ Len(queue) \in Nat
    BY DEF Inv, Types
  <2>2. /\ DOMAIN held = 1..(Len(batch) + Len(queue))
        /\ \A i \in DOMAIN held : held[i] = IF i <= Len(batch) THEN batch[i] ELSE queue[i - Len(batch)]
    BY <2>1
  <2>3. /\ \A i \in DOMAIN held : i <= Len(batch) => i \in DOMAIN batch
        /\ \A i \in DOMAIN held : ~(i <= Len(batch)) => i - Len(batch) \in DOMAIN queue
        /\ \A i \in DOMAIN batch : i \in DOMAIN held /\ i <= Len(batch)
        /\ \A i \in DOMAIN queue : /\ i + Len(batch) \in DOMAIN held /\ ~(i + Len(batch) <= Len(batch))
                                   /\ (i + Len(batch)) - Len(batch) = i
    BY <2>1, <2>2
  <2> HIDE DEF held
  <2>4. \A id \in Ids : outcome[id] = "queued" => id \in Range(held)
    <3>1. /\ \A i \in DOMAIN batch : batch[i] \in Range(held)
          /\ \A i \in DOMAIN queue : queue[i] \in Range(held)
      BY <2>2, <2>3 DEF Range
    <3>2. QED
      BY <3>1 DEF Inv, Pending
  <2>5. ASSUME NEW i \in DOMAIN held, NEW j \in DOMAIN held, held[i] = held[j] PROVE i = j
    <3>1. i \in Int /\ j \in Int /\ Len(batch) \in Int
      BY <2>1, <2>2
    <3>2. CASE i <= Len(batch) /\ j <= Len(batch)
      BY <2>2, <2>3, <2>5, <3>2 DEF Inv, Places
    <3>3. CASE ~(i <= Len(batch)) /\ ~(j <= Len(batch))
      <4>1. queue[i - Len(batch)] = queue[j - Len(batch)]
        BY <2>2, <2>5, <3>3
      <4>2. i - Len(batch) = j - Len(batch)
        BY <2>3, <3>3, <4>1 DEF Inv, Places
      <4>3. QED
        BY <3>1, <4>2
    <3>4. CASE i <= Len(batch) /\ ~(j <= Len(batch))
      <4>1. batch[i] = queue[j - Len(batch)]
        BY <2>2, <2>5, <3>4
      <4>2. QED
        BY <2>3, <3>4, <4>1 DEF Inv, Places
    <3>5. CASE ~(i <= Len(batch)) /\ j <= Len(batch)
      <4>1. batch[j] = queue[i - Len(batch)]
        BY <2>2, <2>5, <3>5
      <4>2. QED
        BY <2>3, <3>5, <4>1 DEF Inv, Places
    <3>6. QED
      BY <3>2, <3>3, <3>4, <3>5
  <2>6. \A i \in DOMAIN queue : outcome[queue[i]] = "queued"
    BY DEF Inv, Places
  <2>7. QED
    BY <2>4, <2>5, <2>6 DEF AcceptedOnce, held
<1>2. QED
  BY <1>1, FaucetInit, FaucetNext, PTL DEF Spec

-----------------------------------------------------------------------------
\* No faucet has two pools: otherwise the loop over the pools visits its instructions twice.
Distinct == \A k, l \in DOMAIN Pools : Pools[k] = Pools[l] => k = l

\* An instruction of the batch is decided at its pool's turn and not before, and a mark
\* among the recipients has a note behind it.
RefusalInv ==
  /\ Distinct
  /\ \A i \in DOMAIN batch : outcome[batch[i]] # "queued" =>
       \E k \in 1..(pool - 1) : requests[batch[i]].faucet = Pools[k]
  /\ \A k \in Users \X Faucets : recipients[k] # 0 =>
       \E id \in Ids : Key(id) = k /\ outcome[id] \in {"minted", "lost"}

Justified ==
  \A id \in Ids :
    outcome'[id] = "guarded" /\ outcome[id] # "guarded" =>
      \E other \in Ids : /\ Key(other) = Key(id)
                         /\ outcome'[other] \in {"minted", "lost"}
                         /\ now <= recipients'[Key(id)] + Guard

\* The handlers and the receipt of a batch decide nothing and mark nobody.
LEMMA RefusalElsewhere ==
  ASSUME Inv, RefusalInv, recipients' = recipients, Ids \subseteq Ids',
         \A id \in Ids : requests'[id] = requests[id],
         \A id \in Ids : outcome'[id] = outcome[id] \/ (outcome[id] = "asked" /\ outcome'[id] # "guarded"),
         \/ batch' = batch /\ pool' = pool
         \/ \A i \in DOMAIN batch' : batch'[i] \in Ids /\ outcome[batch'[i]] = "queued"
  PROVE  RefusalInv' /\ Justified
<1>1. Justified
  BY DEF Justified
<1>2. \A k \in Users \X Faucets : recipients'[k] # 0 =>
        \E id \in Ids' : Key(id)' = k /\ outcome'[id] \in {"minted", "lost"}
  <2>1. SUFFICES ASSUME NEW k \in Users \X Faucets, recipients[k] # 0
                 PROVE  \E id \in Ids' : Key(id)' = k /\ outcome'[id] \in {"minted", "lost"}
    OBVIOUS
  <2>2. PICK id \in Ids : Key(id) = k /\ outcome[id] \in {"minted", "lost"}
    BY <2>1 DEF RefusalInv
  <2>3. Key(id)' = k /\ outcome'[id] = outcome[id]
    BY <2>2 DEF Key
  <2>4. QED
    BY <2>2, <2>3
<1>3. \A i \in DOMAIN batch' : outcome'[batch'[i]] # "queued" =>
        \E k \in 1..(pool' - 1) : requests'[batch'[i]].faucet = Pools[k]
  <2>1. batch \in Seq(Ids)
    BY DEF Inv, Types
  <2>2. \A i \in DOMAIN batch : batch[i] \in Ids /\ outcome[batch[i]] # "asked"
    BY <2>1 DEF Inv, Places
  <2>3. QED
    BY <2>2 DEF RefusalInv
<1>4. QED
  BY <1>1, <1>2, <1>3 DEF RefusalInv, Distinct

\* At a pool's turn all its instructions are undecided, and whoever is refused was marked
\* with a note: long ago, or earlier in the batch.
LEMMA RefusalMint ==
  ASSUME Inv, RefusalInv, NEW unmade, NEW ok \in BOOLEAN, MintForPool(unmade, ok)
  PROVE  RefusalInv' /\ Justified
<1> DEFINE asked   == {batch[i] : i \in Mine}
           guarded == {batch[i] : i \in Guarded(unmade)}
           notes   == asked \ (guarded \cup unmade)
<1>1. /\ pool # 0 /\ unmade \subseteq asked
      /\ recipients' = [k \in Users \X Faucets |->
           IF \E i \in Noted(unmade) : Key(batch[i]) = k THEN now ELSE recipients[k]]
      /\ outcome' = [id \in Ids |->
           IF id \in notes THEN IF ok THEN "minted" ELSE "lost"
           ELSE IF id \in guarded THEN "guarded"
           ELSE IF id \in unmade THEN "unmade"
           ELSE outcome[id]]
      /\ requests' = requests
  BY DEF MintForPool
<1>2. \/ pool = Len(Pools) /\ pool' = 0 /\ batch' = <<>>
      \/ pool # Len(Pools) /\ pool' = pool + 1 /\ batch' = batch
  BY DEF MintForPool, NextPool
<1>3. /\ batch \in Seq(Ids) /\ now \in Nat /\ Guard \in Nat /\ now > Guard
      /\ pool \in 1..Len(Pools) /\ Len(Pools) \in Nat
      /\ recipients \in [Users \X Faucets -> 0..now]
  <2>1. Len(Pools) \in Nat /\ Guard \in Nat /\ DOMAIN Pools = 1..Len(Pools)
    BY FaucetAssumption
  <2>2. QED
    BY <1>1, <2>1 DEF Inv, Types
<1>4. /\ Noted(unmade) \subseteq Free /\ Free \subseteq Mine /\ Mine \subseteq DOMAIN batch
      /\ \A i \in Mine : i \in Noted(unmade) <=> i \notin Guarded(unmade) /\ batch[i] \notin unmade
  BY PassOutcome DEF Inv
<1>5. \A i, j \in DOMAIN batch : batch[i] = batch[j] => i = j
  BY DEF Inv, Places
<1>6. \A i \in Noted(unmade) : batch[i] \in Ids /\ batch[i] \in notes
  BY <1>3, <1>4, <1>5 DEF Guarded
<1>7. asked \subseteq Ids /\ guarded \subseteq asked
  BY <1>3, <1>4 DEF Guarded
<1>8. \A id \in asked : outcome[id] = "queued"
  <2>1. SUFFICES ASSUME NEW i \in Mine, outcome[batch[i]] # "queued" PROVE FALSE
    OBVIOUS
  <2>2. i \in DOMAIN batch /\ requests[batch[i]].faucet = Pools[pool]
    BY <2>1 DEF Mine
  <2>3. PICK k \in 1..(pool - 1) : requests[batch[i]].faucet = Pools[k]
    BY <2>1, <2>2 DEF RefusalInv
  <2>4. k \in DOMAIN Pools /\ pool \in DOMAIN Pools /\ k # pool
    <3>1. DOMAIN Pools = 1..Len(Pools)
      BY FaucetAssumption
    <3>2. QED
      BY <1>3, <3>1
  <2>5. QED
    BY <2>2, <2>3, <2>4 DEF RefusalInv, Distinct
<1>9. \A id \in Ids : Key(id)' = Key(id)
  BY <1>1 DEF Key
<1>10. \A id \in Ids : outcome[id] \in {"minted", "lost"} => outcome'[id] = outcome[id]
  BY <1>1, <1>7, <1>8
<1>11. \A id \in notes : outcome'[id] \in {"minted", "lost"}
  BY <1>1, <1>7
<1>12. Ids' = Ids
  BY <1>1 DEF Ids
<1>13. ASSUME NEW id \in Ids, outcome'[id] = "guarded", outcome[id] # "guarded"
       PROVE  \E other \in Ids : /\ Key(other) = Key(id)
                                 /\ outcome'[other] \in {"minted", "lost"}
                                 /\ now <= recipients'[Key(id)] + Guard
  <2>1. id \in guarded
    BY <1>1, <1>13
  <2>2. PICK i \in Guarded(unmade) : batch[i] = id
    BY <2>1
  <2>3. Key(id) \in Users \X Faucets
    BY <1>13, KeyType DEF Inv
  <2>4. ASSUME NEW j \in Noted(unmade), Key(batch[j]) = Key(id)
        PROVE  \E other \in Ids : /\ Key(other) = Key(id)
                                  /\ outcome'[other] \in {"minted", "lost"}
                                  /\ now <= recipients'[Key(id)] + Guard
    <3>1. recipients'[Key(id)] = now
      BY <1>1, <2>3, <2>4
    <3>2. now <= recipients'[Key(id)] + Guard
      BY <1>3, <3>1
    <3>3. batch[j] \in Ids /\ outcome'[batch[j]] \in {"minted", "lost"}
      BY <1>6, <1>11
    <3>4. QED
      BY <2>4, <3>2, <3>3
  <2>5. CASE i \notin Free /\ ~ \E j \in Noted(unmade) : Key(batch[j]) = Key(id)
    <3>1. i \in Mine
      BY DEF Guarded
    <3>2. ~can_mint(recipients[Key(id)])
      BY <2>2, <2>5, <3>1 DEF Free
    <3>3. recipients[Key(id)] \in 0..now
      BY <1>3, <2>3
    <3>4. ~(now > recipients[Key(id)] + Guard)
      BY <3>2, <3>3, CanMint DEF Inv
    <3>5. now <= recipients[Key(id)] + Guard /\ recipients[Key(id)] # 0
      BY <1>3, <3>3, <3>4
    <3>6. PICK other \in Ids : Key(other) = Key(id) /\ outcome[other] \in {"minted", "lost"}
      BY <2>3, <3>5 DEF RefusalInv
    <3>7. recipients'[Key(id)] = recipients[Key(id)]
      BY <1>1, <2>3, <2>5
    <3>8. QED
      BY <1>10, <3>5, <3>6, <3>7
  <2>6. i \in Free => \E j \in Noted(unmade) : Key(batch[j]) = Key(id)
    BY <2>2 DEF Guarded, SameKey
  <2>7. QED
    BY <2>4, <2>5, <2>6
<1>14. Justified
  BY <1>13 DEF Justified
<1>15. \A k \in Users \X Faucets : recipients'[k] # 0 =>
         \E id \in Ids : Key(id) = k /\ outcome'[id] \in {"minted", "lost"}
  <2>1. SUFFICES ASSUME NEW k \in Users \X Faucets, recipients'[k] # 0
                 PROVE  \E id \in Ids : Key(id) = k /\ outcome'[id] \in {"minted", "lost"}
    OBVIOUS
  <2>2. CASE \E i \in Noted(unmade) : Key(batch[i]) = k
    BY <1>6, <1>11, <2>2
  <2>3. CASE ~ \E i \in Noted(unmade) : Key(batch[i]) = k
    <3>1. recipients[k] # 0
      BY <1>1, <2>1, <2>3
    <3>2. PICK id \in Ids : Key(id) = k /\ outcome[id] \in {"minted", "lost"}
      BY <3>1 DEF RefusalInv
    <3>3. QED
      BY <1>10, <3>2
  <2>4. QED
    BY <2>2, <2>3
<1>16. \A i \in DOMAIN batch' : outcome'[batch'[i]] # "queued" =>
         \E k \in 1..(pool' - 1) : requests'[batch'[i]].faucet = Pools[k]
  <2>1. CASE pool = Len(Pools) /\ pool' = 0 /\ batch' = <<>>
    BY <2>1
  <2>2. CASE pool # Len(Pools) /\ pool' = pool + 1 /\ batch' = batch
    <3> DEFINE Decided(i) == \E k \in 1..pool : requests[batch[i]].faucet = Pools[k]
    <3>0. batch' = batch /\ pool' - 1 = pool /\ requests' = requests
      BY <1>1, <1>3, <2>2
    <3>1. SUFFICES ASSUME NEW i \in DOMAIN batch, outcome'[batch[i]] # "queued"
                   PROVE  Decided(i)
      BY <3>0
    <3>2. batch[i] \in Ids
      BY <1>3
    <3>3. CASE i \in Mine
      BY <1>3, <3>3 DEF Mine
    <3>4. CASE i \notin Mine
      <4>1. batch[i] \notin asked
        BY <1>4, <1>5, <3>4
      <4>2. outcome[batch[i]] # "queued"
        BY <1>1, <1>7, <3>1, <3>2, <4>1
      <4>3. PICK k \in 1..(pool - 1) : requests[batch[i]].faucet = Pools[k]
        BY <4>2 DEF RefusalInv
      <4>4. k \in 1..pool
        BY <1>3
      <4>5. QED
        BY <4>3, <4>4
    <3>5. QED
      BY <3>3, <3>4
  <2>3. QED
    BY <1>2, <2>1, <2>2
<1>17. QED
  BY <1>9, <1>12, <1>14, <1>15, <1>16 DEF RefusalInv, Distinct

\* Every step keeps RefusalInv, and refuses only with a note behind the mark.
LEMMA RefusalNext == Inv /\ RefusalInv /\ [Next]_vars => RefusalInv' /\ [Justified]_vars
<1> SUFFICES ASSUME Inv, RefusalInv, [Next]_vars PROVE RefusalInv' /\ Justified
  OBVIOUS
<1>1. /\ outcome \in Seq(Outcomes) /\ Len(outcome) = Len(requests) /\ requests \in Seq(Request)
      /\ senders \in Seq(Ids) /\ queue \in Seq(Ids) /\ batch \in Seq(Ids)
  BY DEF Inv, Types
<1>2. Ids = 1..Len(requests) /\ DOMAIN outcome = Ids
  BY <1>1 DEF Ids
<1>3. ASSUME NEW user \in Users, NEW faucet \in Faucets \cup {Unknown}, mint_faucet(user, faucet)
      PROVE  RefusalInv' /\ Justified
  <2>1. /\ UNCHANGED <<recipients, batch, pool>>
        /\ requests' = Append(requests, [user |-> user, faucet |-> faucet])
        /\ outcome' = Append(outcome, "asked")
    BY <1>3 DEF mint_faucet
  <2>2. \A id \in Ids : requests'[id] = requests[id] /\ outcome'[id] = outcome[id]
    BY <1>1, <1>2, <2>1
  <2>3. Ids \subseteq Ids'
    <3>1. DOMAIN requests' = 1..(Len(requests) + 1)
      BY <1>1, <2>1
    <3>2. QED
      BY <1>1, <1>2, <3>1 DEF Ids
  <2>4. QED
    BY <2>1, <2>2, <2>3, RefusalElsewhere
<1>4. ASSUME NEW id \in Ids, outcome[id] = "asked", NEW value \in {"queued", "cancelled"},
             outcome' = [outcome EXCEPT ![id] = value], UNCHANGED <<recipients, requests, batch, pool>>
      PROVE  RefusalInv' /\ Justified
  <2>1. \A other \in Ids : \/ outcome'[other] = outcome[other]
                           \/ outcome[other] = "asked" /\ outcome'[other] # "guarded"
    BY <1>2, <1>4
  <2>2. Ids' = Ids /\ \A other \in Ids : requests'[other] = requests[other]
    BY <1>4 DEF Ids
  <2>3. QED
    BY <1>4, <2>1, <2>2, RefusalElsewhere
<1>5. CASE Enqueue
  <2>1. senders # <<>> /\ Head(senders) = senders[1] /\ 1 \in DOMAIN senders /\ senders[1] \in Ids
    BY <1>1, <1>5 DEF Enqueue
  <2>2. outcome[senders[1]] = "asked"
    BY <2>1 DEF Inv, Places
  <2>3. outcome' = [outcome EXCEPT ![senders[1]] = "queued"] /\ UNCHANGED <<recipients, requests, batch, pool>>
    BY <1>5, <2>1 DEF Enqueue
  <2>4. QED
    BY <1>4, <2>1, <2>2, <2>3
<1>6. ASSUME NEW h \in DOMAIN senders, HangUp(h) PROVE RefusalInv' /\ Justified
  <2>1. senders[h] \in Ids
    BY <1>1
  <2>2. outcome[senders[h]] = "asked"
    BY DEF Inv, Places
  <2>3. outcome' = [outcome EXCEPT ![senders[h]] = "cancelled"] /\ UNCHANGED <<recipients, requests, batch, pool>>
    BY <1>6 DEF HangUp
  <2>4. QED
    BY <1>4, <2>1, <2>2, <2>3
<1>7. CASE recv_many
  <2> DEFINE n == IF Len(queue) < Limit THEN Len(queue) ELSE Limit
  <2>1. batch' = SubSeq(queue, 1, n) /\ UNCHANGED <<recipients, requests, outcome>>
    BY <1>7 DEF recv_many
  <2>2. n \in Nat /\ n <= Len(queue)
    BY <1>1, FaucetAssumption
  <2> HIDE DEF n
  <2>3. \A i \in DOMAIN batch' : i \in DOMAIN queue /\ batch'[i] = queue[i] /\ queue[i] \in Ids
    BY <1>1, <2>1, <2>2
  <2>4. \A i \in DOMAIN batch' : batch'[i] \in Ids /\ outcome[batch'[i]] = "queued"
    BY <2>3 DEF Inv, Places
  <2>5. Ids' = Ids
    BY <2>1 DEF Ids
  <2>6. QED
    BY <2>1, <2>4, <2>5, RefusalElsewhere
<1>8. CASE Tick \/ SyncFails \/ UNCHANGED vars
  <2>1. UNCHANGED <<recipients, requests, outcome, batch, pool>>
    BY <1>8 DEF Tick, SyncFails, vars
  <2>2. Ids' = Ids
    BY <2>1 DEF Ids
  <2>3. QED
    BY <2>1, <2>2, RefusalElsewhere
<1>9. QED
  BY <1>3, <1>5, <1>6, <1>7, <1>8, RefusalMint DEF Next, FaucetThread

\* Where each faucet has one pool, the guard refuses an instruction only because of a note
\* that was made, whether or not the transaction with that note went through.
THEOREM GuardRefusesJustly == Spec /\ Distinct => RefusalsJustified
<1>1. Init /\ Distinct => RefusalInv
  BY DEF Init, RefusalInv, Ids
<1>2. Inv /\ RefusalInv /\ [Next]_vars => RefusalInv' /\ [Justified]_vars
  BY RefusalNext
<1>3. QED
  BY <1>1, <1>2, FaucetInit, FaucetNext, PTL DEF Spec, RefusalsJustified, Justified
=============================================================================
