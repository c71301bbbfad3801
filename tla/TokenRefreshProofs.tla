------------------------- MODULE TokenRefreshProofs -------------------------
(***************************************************************************)
(* Proofs about TokenRefresh for any number of callers and processes, all  *)
(* retry bounds and any number of upsets.                                  *)
(***************************************************************************)
EXTENDS TokenRefresh, TLAPS

TokenRecords == [from : Nat, login : Nat, stranded : BOOLEAN]
Claims == (Processes \X (1..MaxToken)) \cup {None}
Results == {"none", "adopted", "transient", "permanent", "refreshed", "flagged"}
TaskRecords == [pc : Flying \cup {"idle", "loaded", "join", "mark", "done"},
                want : 0..MaxToken, seen : (0..MaxToken) \X (0..MaxUpsets),
                status : {"active", "reauth"}, minted : 0..MaxToken,
                tries : 0..(CasTries + FinalTries - 1), result : Results]
Rows == [token : 1..MaxToken, encryption : 0..upsets, status : {"active", "reauth"}]

(* Stages of a refresh with a new token in hand, and of one that knows     *)
(* that the token it is about is dead.                                     *)
Unstored == {"persist", "persist_reread"}
Consumed == Unstored \cup {"flag", "flag_write", "denied", "denied_write", "mark"}
Told(r) == r.pc = "release" /\ r.result = "permanent"

EnvOK ==
    /\ tokens \in Seq(TokenRecords)
    /\ \A g \in 1..MaxToken : tokens[g].login \in 1..MaxToken
    /\ usable \in SUBSET (1..MaxToken)
    /\ upsets \in 0..MaxUpsets

(* A flagged row holds a dead token. *)
RowOK(a) ==
    \/ a = Gone
    \/ a \in Rows /\ (a.status = "reauth" => Dead(a.token))

(* A remembered failure is about a dead token. *)
KeyOK(k) == k \in Processes \X (1..MaxToken) /\ Dead(k[2])

(* What a refresh in stage r.pc may rely on: it is about the token it last *)
(* saw in the row, and a new token comes from that one.                    *)
RecOK(r) ==
    /\ r \in TaskRecords
    /\ r.pc \notin {"idle", "done"} => r.want \in 1..MaxToken /\ r.seen[1] = r.want
    /\ r.pc \in {"idle", "loaded", "join", "claim", "wait", "reread", "exchange"} => r.tries = 0
    /\ r.pc = "denied" => r.tries <= CasTries
    /\ r.pc = "denied_write" => r.tries < CasTries
    /\ r.pc \in {"flag", "flag_write"} => r.tries < FinalTries
    /\ r.pc \in Unstored => r.minted \in 1..MaxToken /\ tokens[r.minted].from = r.want
    /\ r.pc \in Consumed \/ Told(r) => Dead(r.want)

TasksOK ==
    /\ task = [t \in Tasks |-> task[t]]
    /\ \A t \in Tasks : RecOK(task[t])

IInv ==
    /\ EnvOK /\ RowOK(account) /\ claim \in Claims /\ TasksOK
    /\ \A k \in cooldown : KeyOK(k)
    /\ down \subseteq Processes

-----------------------------------------------------------------------------
(* The parts give the type invariant. *)
LEMMA IInvTypes == IInv => TypeOK
  <1> SUFFICES ASSUME IInv PROVE TypeOK
    OBVIOUS
  <1>1. account \in [token : 1..MaxToken, encryption : 0..MaxUpsets,
                     status : {"active", "reauth"}] \cup {Gone}
    BY RefreshAssumption DEF IInv, RowOK, Rows, EnvOK
  <1>2. task \in [Tasks -> TaskRecords]
    BY DEF IInv, TasksOK, RecOK
  <1>3. cooldown \subseteq Processes \X (1..MaxToken) /\ usable \subseteq 1..MaxToken
    BY DEF IInv, KeyOK, EnvOK
  <1> QED
    BY <1>1, <1>2, <1>3 DEF IInv, Claims, TypeOK, TaskRecords, Results

(* The invariant holds at the start: one live token, no refresh yet. *)
LEMMA InitIInv == Init => IInv
  <1> SUFFICES ASSUME Init PROVE IInv
    OBVIOUS
  <1>1. MaxToken = 1 /\ tokens[1] = [from |-> 0, login |-> 1, stranded |-> FALSE]
    BY DEF Init, MaxToken
  <1>2. EnvOK
    <2>1. tokens \in Seq(TokenRecords)
      BY DEF Init, TokenRecords
    <2> QED
      BY <1>1, <2>1, RefreshAssumption DEF Init, EnvOK
  <1>3. RowOK(account)
    BY <1>1 DEF Init, RowOK, Rows
  <1>4. RecOK(Idle)
    <2>1. Idle \in TaskRecords
      BY <1>1, RefreshAssumption DEF Idle, TaskRecords, Results
    <2> QED
      BY <2>1 DEF RecOK, Idle, Unstored, Consumed, Told
  <1>5. TasksOK
    BY <1>4 DEF Init, TasksOK
  <1> QED
    BY <1>2, <1>3, <1>5 DEF Init, IInv, Claims

(* Steps that leave the upstream's tokens alone. *)
LEMMA SameTokens ==
    ASSUME EnvOK, UNCHANGED <<tokens, usable>>, upsets' \in upsets..MaxUpsets
    PROVE  /\ EnvOK' /\ Claims' = Claims
           /\ \A r : RecOK(r)' <=> RecOK(r)
           /\ \A k : KeyOK(k)' <=> KeyOK(k)
           /\ \A a : RowOK(a) => RowOK(a)'
           /\ \A g : Dead(g)' <=> Dead(g)
  <1>1. MaxToken' = MaxToken /\ \A g : Dead(g)' <=> Dead(g)
    BY DEF MaxToken, Dead
  <1>2. EnvOK' /\ Claims' = Claims
    BY <1>1, RefreshAssumption DEF EnvOK, Claims
  <1>3. TaskRecords' = TaskRecords
    BY <1>1 DEF TaskRecords
  <1>4. \A r : RecOK(r)' <=> RecOK(r)
    BY <1>1, <1>3 DEF RecOK, Told
  <1>5. \A k : KeyOK(k)' <=> KeyOK(k)
    BY <1>1 DEF KeyOK
  <1>6. \A a : RowOK(a) => RowOK(a)'
    <2>1. \A a : a \in Rows => a \in Rows'
      BY <1>1, RefreshAssumption DEF Rows, EnvOK
    <2> QED
      BY <1>1, <2>1 DEF RowOK
  <1> QED
    BY <1>1, <1>2, <1>4, <1>5, <1>6

(* Such a step keeps the invariant when it leaves the refreshes, the row,  *)
(* the claim and the remembered failures in order.                         *)
LEMMA CalmStep ==
    ASSUME IInv, UNCHANGED <<tokens, usable>>, upsets' \in upsets..MaxUpsets,
           task' = [u \in Tasks |-> task'[u]], \A u \in Tasks : RecOK(task'[u]),
           RowOK(account)', claim' \in Claims, \A k \in cooldown' : KeyOK(k),
           down' \subseteq Processes
    PROVE  IInv'
  <1>1. EnvOK
    BY DEF IInv
  <1>2. EnvOK' /\ claim' \in Claims'
    BY <1>1, SameTokens
  <1>3. ASSUME NEW u \in Tasks PROVE RecOK(task[u])'
    <2>1. PICK r : r = task'[u]
      OBVIOUS
    <2>2. RecOK(r)'
      BY <1>1, <2>1, SameTokens
    <2> QED
      BY <2>1, <2>2
  <1>4. \A k \in cooldown' : KeyOK(k)'
    BY <1>1, SameTokens
  <1> QED
    BY <1>2, <1>3, <1>4 DEF IInv, TasksOK

(* An upset, or none, keeps to the bound. *)
LEMMA UpsetsBounded ==
    ASSUME EnvOK, Upset \/ UNCHANGED upsets
    PROVE  upsets' \in upsets..MaxUpsets
  BY RefreshAssumption DEF EnvOK, Upset

(* A step that also leaves the row alone. *)
LEMMA QuietStep ==
    ASSUME IInv, UNCHANGED <<account, tokens, usable, down>>, Upset \/ UNCHANGED upsets,
           task' = [u \in Tasks |-> task'[u]], \A u \in Tasks : RecOK(task'[u]),
           claim' \in Claims, \A k \in cooldown' : KeyOK(k)
    PROVE  IInv'
  <1>1. EnvOK /\ RowOK(account)
    BY DEF IInv
  <1>2. upsets' \in upsets..MaxUpsets
    BY <1>1, UpsetsBounded
  <1>3. RowOK(account)'
    <2>1. PICK a : a = account /\ a = account'
      OBVIOUS
    <2>2. RowOK(a)'
      BY <1>1, <1>2, <2>1, SameTokens
    <2> QED
      BY <2>1, <2>2
  <1> QED
    BY <1>2, <1>3, CalmStep DEF IInv

(* The same for a step of one refresh, which goes on as r. *)
LEMMA OneTaskStep ==
    ASSUME IInv, NEW t \in Tasks, NEW r, RecOK(r), task' = [task EXCEPT ![t] = r],
           UNCHANGED <<account, tokens, usable, down>>, Upset \/ UNCHANGED upsets,
           claim' \in Claims, UNCHANGED cooldown
    PROVE  IInv'
  <1>1. /\ task = [u \in Tasks |-> task[u]]
        /\ \A u \in Tasks : RecOK(task[u])
        /\ \A k \in cooldown : KeyOK(k)
    BY DEF IInv, TasksOK
  <1>2. task' = [u \in Tasks |-> task'[u]] /\ \A u \in Tasks : RecOK(task'[u])
    BY <1>1
  <1> QED
    BY <1>1, <1>2, QuietStep

(* The key of a refresh names its process and its token. *)
LEMMA KeyIsClaim ==
    ASSUME IInv, NEW t \in Tasks, task[t].pc \notin {"idle", "done"}
    PROVE  /\ Key(t) \in Processes \X (1..MaxToken)
           /\ Key(t)[2] = task[t].want
           /\ Key(t) \in Claims /\ Key(t) # None
  <1>1. task[t].want \in 1..MaxToken /\ MaxToken \in Nat
    BY DEF IInv, TasksOK, RecOK, EnvOK, MaxToken
  <1>2. ProcessOf[t] \in Processes
    BY DEF Processes
  <1>3. Key(t) \in Processes \X Nat
    BY <1>1, <1>2 DEF Key
  <1> QED
    BY <1>1, <1>2, <1>3, RefreshAssumption DEF Key, Claims, Processes

(* A refresh whose token is dead, or whose outcome is not a permanent      *)
(* failure, may end.                                                       *)
LEMMA EndFlightStep ==
    ASSUME IInv, NEW t \in Tasks, task[t].pc \notin {"idle", "done"},
           NEW result \in Results, EndFlight(t, result),
           result = "permanent" => Dead(task[t].want),
           claim' \in Claims, Upset \/ UNCHANGED upsets,
           UNCHANGED <<account, tokens, usable, down>>
    PROVE  IInv'
  <1> DEFINE ended(u) == IF result = "permanent" /\ u # t THEN "mark" ELSE "done"
             touched(u) == u = t \/ (task[u].pc = "join" /\ Key(u) = Key(t))
             after(u) == [task[u] EXCEPT !.pc = ended(u), !.result = result]
  <1>1. task' = [u \in Tasks |-> IF touched(u) THEN after(u) ELSE task[u]]
    BY DEF EndFlight
  <1>2. Key(t) \in Processes \X (1..MaxToken) /\ Key(t)[2] = task[t].want
    BY KeyIsClaim
  <1>3. ASSUME NEW u \in Tasks PROVE RecOK(task'[u])
    <2>1. RecOK(task[u])
      BY DEF IInv, TasksOK
    <2>2. CASE ~touched(u)
      BY <1>1, <2>1, <2>2
    <2>3. CASE touched(u)
      <3>1. task[u].want = task[t].want
        BY <2>3 DEF Key
      <3>2. u # t => task[u].pc = "join"
        BY <2>3
      <3>3. after(u) \in TaskRecords
        BY <2>1 DEF RecOK, TaskRecords
      <3>4. /\ after(u).pc = ended(u) /\ after(u).want = task[u].want /\ after(u).seen = task[u].seen
        BY <2>1 DEF RecOK, TaskRecords
      <3>5. ended(u) = "done" \/ (ended(u) = "mark" /\ u # t /\ result = "permanent")
        OBVIOUS
      <3>6. RecOK(after(u))
        <4> HIDE DEF after, ended
        <4> QED
          BY <2>1, <3>1, <3>2, <3>3, <3>4, <3>5 DEF RecOK, Unstored, Consumed, Told
      <3> QED
        BY <1>1, <2>3, <3>6
    <2> QED
      BY <2>2, <2>3
  <1>4. \A k \in cooldown' : KeyOK(k)
    <2>1. \A k \in cooldown : KeyOK(k)
      BY DEF IInv
    <2>2. result = "permanent" => KeyOK(Key(t))
      BY <1>2 DEF KeyOK
    <2> QED
      BY <2>1, <2>2 DEF EndFlight
  <1>5. task' = [u \in Tasks |-> task'[u]]
    BY <1>1
  <1> QED
    BY <1>3, <1>4, <1>5, QuietStep

-----------------------------------------------------------------------------
(* The singleflight and the claim. *)

(* A caller takes a copy of the row. *)
LEMMA LoadAccountStep ==
    ASSUME IInv, NEW t \in Tasks, LoadAccount(t)
    PROVE  IInv'
  <1> DEFINE s == [Idle EXCEPT !.pc = "loaded", !.want = account.token,
                               !.seen = Ciphertext(account), !.status = account.status]
  <1>1. account \in Rows /\ EnvOK /\ MaxToken \in Nat
    BY DEF IInv, RowOK, LoadAccount, EnvOK, MaxToken
  <1>2. RecOK(s)
    <2>1. s \in TaskRecords
      <3>1. /\ account.token \in 0..MaxToken /\ account.status \in {"active", "reauth"}
            /\ account.encryption \in 0..MaxUpsets
        BY <1>1, RefreshAssumption DEF Rows, EnvOK
      <3>2. 0 \in 0..(CasTries + FinalTries - 1) /\ 0 \in 0..MaxToken
        BY <1>1, RefreshAssumption
      <3>3. Ciphertext(account) \in (0..MaxToken) \X (0..MaxUpsets)
        BY <3>1 DEF Ciphertext
      <3>4. Idle \in TaskRecords
        BY <1>1, <3>2, RefreshAssumption DEF Idle, TaskRecords, Results
      <3> QED
        BY <3>1, <3>3, <3>4 DEF TaskRecords, Flying
    <2>2. /\ s.pc = "loaded" /\ s.want = account.token /\ s.seen[1] = account.token
          /\ s.tries = 0 /\ s.result = "none" /\ account.token \in 1..MaxToken
      BY <1>1 DEF Idle, Ciphertext, Rows
    <2> HIDE DEF s
    <2> QED
      BY <2>1, <2>2 DEF RecOK, Unstored, Consumed, Told
  <1>3. task' = [task EXCEPT ![t] = s] /\ claim' \in Claims
    BY DEF LoadAccount, IInv
  <1> HIDE DEF s
  <1> QED
    BY <1>2, <1>3, OneTaskStep DEF LoadAccount, environment

(* A change of stage that carries no new knowledge along. *)
LEMMA GotoOK ==
    ASSUME NEW r, RecOK(r), r.pc \notin {"idle", "done"},
           NEW p \in {"reread", "wait", "join", "claim", "exchange"}, r.tries = 0
    PROVE  RecOK([r EXCEPT !.pc = p])
  <1> DEFINE s == [r EXCEPT !.pc = p]
  <1>1. s \in TaskRecords
    BY DEF RecOK, TaskRecords, Flying, Holding
  <1>2. /\ s.pc = p /\ s.want = r.want /\ s.seen = r.seen /\ s.tries = r.tries
    BY DEF RecOK, TaskRecords
  <1> HIDE DEF s
  <1>3. RecOK(s)
    BY <1>1, <1>2 DEF RecOK, Unstored, Consumed, Told
  <1> QED
    BY <1>3 DEF s

(* A caller meets a remembered failure, joins a refresh or starts one, all *)
(* about the token of its copy.                                            *)
LEMMA EnsureFreshStep ==
    ASSUME IInv, NEW t \in Tasks, ensure_fresh(t)
    PROVE  IInv'
  <1>0. PICK r : r = task[t]
    OBVIOUS
  <1>1. RecOK(r) /\ r.pc = "loaded" /\ r.tries = 0
    BY <1>0 DEF IInv, TasksOK, ensure_fresh, RecOK
  <1>2. \A k \in cooldown : KeyOK(k)
    BY DEF IInv
  <1>3. Key(t) \in cooldown => Dead(r.want)
    BY <1>0, <1>2 DEF KeyOK, Key
  <1>4. PICK p \in {"mark", "join", "claim"} :
            (p = "mark" => Dead(r.want)) /\ task' = [task EXCEPT ![t] = [r EXCEPT !.pc = p]]
    BY <1>0, <1>3 DEF ensure_fresh, Goto
  <1>5. RecOK([r EXCEPT !.pc = p])
    <2>1. CASE p \in {"join", "claim"}
      BY <1>1, <2>1, GotoOK
    <2>2. CASE p = "mark"
      <3> DEFINE s == [r EXCEPT !.pc = "mark"]
      <3>1. s \in TaskRecords
        BY <1>1 DEF RecOK, TaskRecords
      <3>2. s.pc = "mark" /\ s.want = r.want /\ s.seen = r.seen
        BY <1>1 DEF RecOK, TaskRecords
      <3> HIDE DEF s
      <3>3. RecOK(s)
        BY <1>1, <1>4, <2>2, <3>1, <3>2 DEF RecOK, Unstored, Told
      <3> QED
        BY <2>2, <3>3 DEF s
    <2> QED
      BY <2>1, <2>2
  <1>6. cooldown' \subseteq cooldown /\ claim' = claim /\ UNCHANGED <<account, tokens, usable, down, upsets>>
    BY DEF ensure_fresh, environment
  <1>7. task' = [u \in Tasks |-> task'[u]] /\ \A u \in Tasks : RecOK(task'[u])
    BY <1>4, <1>5 DEF IInv, TasksOK
  <1> QED
    BY <1>2, <1>6, <1>7, QuietStep DEF IInv

(* A refresh leaves for the release of its claim. *)
LEMMA LeaveOK ==
    ASSUME NEW r, RecOK(r), r.pc \notin {"idle", "done"},
           NEW result \in Results, result = "permanent" => Dead(r.want)
    PROVE  RecOK([r EXCEPT !.pc = "release", !.result = result])
  <1> DEFINE s == [r EXCEPT !.pc = "release", !.result = result]
  <1>1. s \in TaskRecords
    BY DEF RecOK, TaskRecords, Flying, Holding
  <1>2. /\ s.pc = "release" /\ s.result = result /\ s.want = r.want /\ s.seen = r.seen
    BY DEF RecOK, TaskRecords
  <1> HIDE DEF s
  <1>3. RecOK(s)
    BY <1>1, <1>2 DEF RecOK, Unstored, Consumed, Told
  <1> QED
    BY <1>3 DEF s

(* The claim is won, or the refresh waits for its holder. *)
LEMMA TryAcquireStep ==
    ASSUME IInv, NEW t \in Tasks, try_acquire(t)
    PROVE  IInv'
  <1>1. RecOK(task[t]) /\ task[t].pc = "claim" /\ task[t].tries = 0
    BY DEF IInv, TasksOK, try_acquire, RecOK
  <1>2. PICK p \in {"reread", "wait"} : task' = [task EXCEPT ![t] = [task[t] EXCEPT !.pc = p]]
    BY DEF try_acquire, Goto
  <1>3. claim' \in Claims
    <2>1. Key(t) \in Claims
      BY <1>1, KeyIsClaim
    <2> QED
      BY <2>1 DEF IInv, try_acquire
  <1> QED
    <2>1. RecOK([task[t] EXCEPT !.pc = p])
      BY <1>1, GotoOK
    <2> QED
      BY <1>2, <1>3, <2>1, OneTaskStep DEF try_acquire, environment

(* Waiting ends with the peer's rotation, another try or the deadline. *)
LEMMA WaitForPeerStep ==
    ASSUME IInv, NEW t \in Tasks, wait_for_peer(t)
    PROVE  IInv'
  <1>1. RecOK(task[t]) /\ task[t].pc = "wait" /\ task[t].tries = 0 /\ claim' \in Claims
    BY DEF IInv, TasksOK, wait_for_peer, RecOK
  <1>2. CASE EndFlight(t, "adopted") \/ EndFlight(t, "transient")
    BY <1>1, <1>2, EndFlightStep DEF wait_for_peer, environment, Results
  <1>3. CASE Goto(t, "claim") /\ UNCHANGED cooldown
    <2>1. RecOK([task[t] EXCEPT !.pc = "claim"])
      BY <1>1, GotoOK
    <2> QED
      BY <1>1, <1>3, <2>1, OneTaskStep DEF wait_for_peer, environment, Goto
  <1> QED
    BY <1>2, <1>3 DEF wait_for_peer

(* What the row shows is noted, for the token the refresh is about. *)
LEMMA NoteOK ==
    ASSUME IInv, NEW t \in Tasks, task[t].pc \notin {"idle", "done"}, account # Gone,
           account.token = task[t].want, NEW n \in 0..(CasTries + FinalTries - 1),
           NEW p \in {"exchange", "persist", "flag", "flag_write", "denied_write"},
           p = "exchange" => n = 0, p = "denied_write" => n < CasTries,
           p \in {"flag", "flag_write"} => n < FinalTries,
           p # "exchange" => Dead(task[t].want),
           p = "persist" => task[t].minted \in 1..MaxToken /\ tokens[task[t].minted].from = task[t].want
    PROVE  RecOK([task[t] EXCEPT !.pc = p, !.tries = n, !.seen = Ciphertext(account),
                                 !.status = account.status])
  <1> DEFINE s == [task[t] EXCEPT !.pc = p, !.tries = n, !.seen = Ciphertext(account),
                                  !.status = account.status]
  <1>1. RecOK(task[t]) /\ account \in Rows /\ EnvOK
    BY DEF IInv, TasksOK, RowOK
  <1>2. /\ account.status \in {"active", "reauth"} /\ account.token \in 0..MaxToken
        /\ account.encryption \in 0..MaxUpsets
    BY <1>1, RefreshAssumption DEF Rows, EnvOK
  <1>3. Ciphertext(account) \in (0..MaxToken) \X (0..MaxUpsets) /\ Ciphertext(account)[1] = task[t].want
    BY <1>2 DEF Ciphertext
  <1>4. s \in TaskRecords
    BY <1>1, <1>2, <1>3 DEF RecOK, TaskRecords, Flying, Holding
  <1>5. /\ s.pc = p /\ s.tries = n /\ s.seen = Ciphertext(account) /\ s.want = task[t].want
        /\ s.minted = task[t].minted
    BY <1>1 DEF RecOK, TaskRecords
  <1>6. task[t].want \in 1..MaxToken
    BY <1>1 DEF RecOK
  <1> HIDE DEF s
  <1>7. RecOK(s)
    BY <1>3, <1>4, <1>5, <1>6 DEF RecOK, Unstored, Consumed, Told
  <1> QED
    BY <1>7 DEF s

(* A step that notes the row. *)
LEMMA NoteStep ==
    ASSUME IInv, NEW t \in Tasks, NEW p, NEW n, Note(t, p, n),
           RecOK([task[t] EXCEPT !.pc = p, !.tries = n, !.seen = Ciphertext(account),
                                 !.status = account.status]),
           UNCHANGED <<account, tokens, usable, down, upsets, cooldown>>, claim' \in Claims
    PROVE  IInv'
  <1> DEFINE s == [task[t] EXCEPT !.pc = p, !.tries = n, !.seen = Ciphertext(account),
                                  !.status = account.status]
  <1>1. task' = [task EXCEPT ![t] = s]
    BY DEF Note
  <1> HIDE DEF s
  <1>2. RecOK(s)
    BY DEF s
  <1> QED
    BY <1>1, <1>2, OneTaskStep

(* A step that leaves with an outcome its knowledge justifies. *)
LEMMA LeaveStep ==
    ASSUME IInv, NEW t \in Tasks, task[t].pc \notin {"idle", "done"},
           NEW result \in Results, Leave(t, result), result = "permanent" => Dead(task[t].want),
           UNCHANGED <<account, tokens, usable, down, cooldown>>, Upset \/ UNCHANGED upsets,
           claim' \in Claims
    PROVE  IInv'
  <1>0. PICK s : s = [task[t] EXCEPT !.pc = "release", !.result = result]
    OBVIOUS
  <1>1. task' = [task EXCEPT ![t] = s]
    BY <1>0 DEF Leave
  <1>2. RecOK(s)
    <2>1. RecOK(task[t])
      BY DEF IInv, TasksOK
    <2> QED
      BY <1>0, <2>1, LeaveOK
  <1> QED
    BY <1>1, <1>2, OneTaskStep

(* Under the claim: a terminal status is honoured, and it marks a dead token. *)
LEMMA RereadStep ==
    ASSUME IInv, NEW t \in Tasks, reread_under_claim(t)
    PROVE  IInv'
  <1>1. RecOK(task[t]) /\ task[t].pc = "reread" /\ task[t].tries = 0 /\ claim' \in Claims
    BY DEF IInv, TasksOK, reread_under_claim, RecOK
  <1>2. ASSUME NEW result \in {"adopted", "permanent", "transient"}, Leave(t, result),
               result = "permanent" => account # Gone /\ ~Rotated(task[t].want) /\ account.status = "reauth"
        PROVE  IInv'
    <2>1. result = "permanent" => Dead(task[t].want)
      BY <1>2 DEF IInv, RowOK, Rotated
    <2>2. RecOK([task[t] EXCEPT !.pc = "release", !.result = result])
      BY <1>1, <2>1, LeaveOK DEF Results
    <2> QED
      BY <1>1, <1>2, <2>2, OneTaskStep DEF reread_under_claim, environment, Leave
  <1>3. CASE account = Gone /\ Goto(t, "exchange")
    <2>1. RecOK([task[t] EXCEPT !.pc = "exchange"])
      BY <1>1, GotoOK
    <2> QED
      BY <1>1, <1>3, <2>1, OneTaskStep DEF reread_under_claim, environment, Goto
  <1>4. CASE account # Gone /\ ~Rotated(task[t].want) /\ Note(t, "exchange", 0)
    <2>1. account.token = task[t].want /\ 0 \in 0..(CasTries + FinalTries - 1)
      BY <1>4, RefreshAssumption DEF Rotated
    <2>2. RecOK([task[t] EXCEPT !.pc = "exchange", !.tries = 0, !.seen = Ciphertext(account),
                                !.status = account.status])
      BY <1>1, <1>4, <2>1, NoteOK
    <2>3. UNCHANGED <<account, tokens, usable, down, upsets, cooldown>>
      BY DEF reread_under_claim, environment
    <2> QED
      BY <1>1, <1>4, <2>2, <2>3, NoteStep
  <1> QED
    BY <1>2, <1>3, <1>4 DEF reread_under_claim

(* The release ends the flight with the outcome it left with. *)
LEMMA ReleaseStep ==
    ASSUME IInv, NEW t \in Tasks, release(t)
    PROVE  IInv'
  <1>1. RecOK(task[t]) /\ task[t].pc = "release" /\ claim \in Claims
    BY DEF IInv, TasksOK, release
  <1>2. task[t].result \in Results /\ (task[t].result = "permanent" => Dead(task[t].want))
    BY <1>1 DEF RecOK, TaskRecords, Told
  <1>3. claim' \in Claims /\ (Upset \/ UNCHANGED upsets)
    BY <1>1 DEF release, Claims
  <1> QED
    BY <1>1, <1>2, <1>3, EndFlightStep DEF release, environment

-----------------------------------------------------------------------------
(* Steps of the upstream: tokens are added and die, but none changes its   *)
(* origin and no dead one comes back.                                      *)

TokensGrow ==
    /\ EnvOK' /\ MaxToken <= MaxToken' /\ upsets' \in upsets..MaxUpsets
    /\ \A g \in 1..MaxToken : tokens'[g].from = tokens[g].from /\ (Dead(g) => Dead(g)')

(* What is known of a refresh, a failure and a row outlives such a step. *)
LEMMA KeptByGrowth ==
    ASSUME EnvOK, TokensGrow
    PROVE  /\ \A r : RecOK(r) => RecOK(r)'
           /\ \A k : KeyOK(k) => KeyOK(k)'
           /\ \A a : RowOK(a) => RowOK(a)'
           /\ Claims \subseteq Claims'
  <1>1. MaxToken \in Nat /\ MaxToken' \in Nat /\ upsets \in Nat /\ upsets' \in Nat /\ upsets <= upsets'
    BY RefreshAssumption DEF EnvOK, MaxToken, TokensGrow
  <1>2. 1..MaxToken \subseteq 1..MaxToken' /\ 0..MaxToken \subseteq 0..MaxToken' /\ 0..upsets \subseteq 0..upsets'
    BY <1>1 DEF TokensGrow
  <1>3. TaskRecords \subseteq TaskRecords'
    BY <1>2 DEF TaskRecords
  <1>4. ASSUME NEW r, RecOK(r) PROVE RecOK(r)'
    <2>1. r \in TaskRecords'
      BY <1>3, <1>4 DEF RecOK
    <2>2. r.pc \notin {"idle", "done"} => r.want \in 1..MaxToken' /\ r.seen[1] = r.want
      BY <1>2, <1>4 DEF RecOK
    <2>3. r.pc \in Unstored => r.minted \in 1..MaxToken' /\ tokens'[r.minted].from = r.want
      BY <1>2, <1>4 DEF RecOK, TokensGrow
    <2>4. r.pc \in Consumed \/ Told(r) => Dead(r.want)'
      BY <1>4 DEF RecOK, TokensGrow, Consumed, Unstored, Told
    <2> QED
      BY <1>4, <2>1, <2>2, <2>3, <2>4 DEF RecOK, Told
  <1>5. ASSUME NEW k, KeyOK(k) PROVE KeyOK(k)'
    <2>1. k[2] \in 1..MaxToken
      BY <1>5 DEF KeyOK
    <2> QED
      BY <1>2, <1>5, <2>1 DEF KeyOK, TokensGrow
  <1>6. ASSUME NEW a, RowOK(a) PROVE RowOK(a)'
    BY <1>2, <1>6 DEF RowOK, Rows, TokensGrow
  <1>7. Claims \subseteq Claims'
    BY <1>2 DEF Claims
  <1> QED
    BY <1>4, <1>5, <1>6, <1>7

(* Refresh t goes on as r while the tokens grow. *)
LEMMA GrowingStep ==
    ASSUME IInv, TokensGrow, RowOK(account)', NEW t \in Tasks, NEW r, RecOK(r)',
           task' = [task EXCEPT ![t] = r] \/ UNCHANGED task,
           UNCHANGED <<claim, cooldown, down>>
    PROVE  IInv'
  <1>1. EnvOK /\ claim \in Claims /\ down \subseteq Processes
        /\ task = [u \in Tasks |-> task[u]] /\ \A u \in Tasks : RecOK(task[u])
        /\ \A k \in cooldown : KeyOK(k)
    BY DEF IInv, TasksOK
  <1>2. ASSUME NEW u \in Tasks PROVE RecOK(task[u])'
    <2>1. PICK x : x = task'[u]
      OBVIOUS
    <2>2. x = r \/ x = task[u]
      BY <1>1, <2>1
    <2>3. RecOK(x)'
      BY <1>1, <2>2, KeptByGrowth
    <2> QED
      BY <2>1, <2>3
  <1>3. task' = [u \in Tasks |-> task'[u]]
    BY <1>1
  <1>4. EnvOK' /\ claim' \in Claims' /\ \A k \in cooldown' : KeyOK(k)'
    BY <1>1, KeptByGrowth DEF TokensGrow
  <1> QED
    BY <1>1, <1>2, <1>3, <1>4 DEF IInv, TasksOK

(* An unchanged row stays in order. *)
LEMMA RowKept ==
    ASSUME IInv, TokensGrow, UNCHANGED account
    PROVE  RowOK(account)'
  <1>1. PICK a : a = account /\ a = account'
    OBVIOUS
  <1>2. RowOK(a)'
    BY <1>1, KeptByGrowth DEF IInv
  <1> QED
    BY <1>1, <1>2

(* A token is exchanged for a new one: it dies, the new one descends from it. *)
LEMMA MintGrows ==
    ASSUME EnvOK, NEW token \in usable, Mint(token), Upset \/ UNCHANGED upsets
    PROVE  /\ TokensGrow /\ MaxToken' = MaxToken + 1
           /\ tokens'[MaxToken + 1].from = token
           /\ Dead(token)'
           /\ \A g \in 1..MaxToken : tokens'[g] = tokens[g]
  <1> DEFINE new == [from |-> token, login |-> tokens[token].login, stranded |-> FALSE]
  <1>1. MaxToken \in Nat /\ token \in 1..MaxToken /\ token \in Nat
    BY DEF EnvOK, MaxToken
  <1>2. tokens[token].login \in 1..MaxToken
    BY <1>1 DEF EnvOK
  <1>3. new \in TokenRecords
    BY <1>1, <1>2 DEF TokenRecords
  <1> HIDE DEF new
  <1>4. /\ tokens' \in Seq(TokenRecords) /\ MaxToken' = MaxToken + 1
        /\ tokens'[MaxToken + 1] = new
        /\ \A g \in 1..MaxToken : tokens'[g] = tokens[g]
    BY <1>1, <1>3 DEF Mint, EnvOK, MaxToken, new
  <1>5. usable' = (usable \ {token}) \cup {MaxToken + 1}
    BY DEF Mint
  <1>6. upsets' \in upsets..MaxUpsets
    BY UpsetsBounded
  <1>7. new.from = token /\ new.login \in 1..MaxToken
    BY <1>2 DEF new
  <1>8. EnvOK'
    <2>1. /\ \A g \in 1..(MaxToken + 1) : g \in 1..MaxToken \/ g = MaxToken + 1
          /\ 1..MaxToken \subseteq 1..(MaxToken + 1) /\ MaxToken + 1 \in 1..(MaxToken + 1)
      BY <1>1
    <2>2. \A g \in 1..(MaxToken + 1) : tokens'[g].login \in 1..(MaxToken + 1)
      <3>1. \A g \in 1..MaxToken : tokens[g].login \in 1..MaxToken
        BY DEF EnvOK
      <3> QED
        BY <1>4, <1>7, <2>1, <3>1
    <2>3. usable' \in SUBSET (1..(MaxToken + 1))
      <3>1. usable \subseteq 1..MaxToken
        BY DEF EnvOK
      <3> QED
        BY <1>5, <2>1, <3>1
    <2>4. upsets' \in 0..MaxUpsets
      BY <1>6, RefreshAssumption DEF EnvOK
    <2> QED
      BY <1>4, <2>2, <2>3, <2>4 DEF EnvOK
  <1>9. \A g \in 1..MaxToken : Dead(g) => Dead(g)'
    BY <1>1, <1>4, <1>5 DEF Dead
  <1>10. Dead(token)'
    BY <1>1, <1>5 DEF Dead
  <1> QED
    BY <1>1, <1>4, <1>6, <1>7, <1>8, <1>9, <1>10 DEF TokensGrow

(* The exchange: answered, lost, refused or never made. *)
LEMMA ExchangeStep ==
    ASSUME IInv, NEW t \in Tasks, exchange(t)
    PROVE  IInv'
  <1>0. PICK r, n : r = task[t] /\ n = MaxToken
    OBVIOUS
  <1> DEFINE token == r.want
  <1>1. /\ RecOK(r) /\ r.pc = "exchange" /\ r.seen[1] = r.want /\ r.want \in 1..MaxToken
        /\ r.tries = 0 /\ EnvOK /\ MaxToken \in Nat
    BY <1>0 DEF IInv, TasksOK, RecOK, exchange, EnvOK, MaxToken
  <1>2. UNCHANGED <<account, claim, cooldown, down>>
    BY DEF exchange
  <1>3. CASE /\ token \in usable /\ Mint(token) /\ UNCHANGED upsets
             /\ task' = [task EXCEPT ![t].pc = "persist", ![t].minted = MaxToken + 1]
    <2> DEFINE s == [r EXCEPT !.pc = "persist", !.minted = n + 1]
    <2>1. /\ TokensGrow /\ MaxToken' = n + 1 /\ tokens'[n + 1].from = r.want
          /\ Dead(r.want)'
      BY <1>0, <1>1, <1>3, MintGrows
    <2>2. /\ s.pc = "persist" /\ s.minted = n + 1 /\ s.want = r.want /\ s.seen = r.seen
      BY <1>1 DEF RecOK, TaskRecords
    <2>3. s \in TaskRecords'
      <3>1. r \in TaskRecords'
        BY <1>1, <2>1, KeptByGrowth DEF RecOK
      <3>2. n + 1 \in 0..MaxToken'
        BY <1>0, <1>1, <2>1
      <3> QED
        BY <3>1, <3>2 DEF TaskRecords, Flying, Holding
    <2>4. task' = [task EXCEPT ![t] = s]
      BY <1>0, <1>3
    <2> HIDE DEF s
    <2>5. RecOK(s)'
      <3>1. r.want \in 1..MaxToken' /\ n + 1 \in 1..MaxToken'
        BY <1>0, <1>1, <2>1
      <3> QED
        BY <1>1, <2>1, <2>2, <2>3, <3>1 DEF RecOK, Unstored, Consumed, Told
    <2> QED
      BY <1>2, <2>1, <2>4, <2>5, GrowingStep, RowKept
  <1>4. CASE token \in usable /\ Mint(token) /\ Leave(t, "transient") /\ Upset
    <2> DEFINE s == [r EXCEPT !.pc = "release", !.result = "transient"]
    <2>1. TokensGrow
      BY <1>4, <1>1, MintGrows
    <2>2. RecOK(s)
      BY <1>1, LeaveOK DEF Results
    <2>3. task' = [task EXCEPT ![t] = s]
      BY <1>0, <1>4 DEF Leave
    <2> HIDE DEF s
    <2>4. RecOK(s)'
      BY <1>1, <2>1, <2>2, KeptByGrowth
    <2> QED
      BY <1>2, <2>1, <2>3, <2>4, GrowingStep, RowKept
  <1>5. CASE /\ token \notin usable /\ Goto(t, "denied") /\ UNCHANGED <<tokens, upsets>>
             /\ usable' \in {usable, {g \in usable : tokens[g].login # tokens[token].login}}
    <2> DEFINE s == [r EXCEPT !.pc = "denied"]
    <2>1. usable' \subseteq usable /\ MaxToken' = MaxToken
      BY <1>5 DEF MaxToken
    <2>2. TokensGrow
      <3>1. upsets' \in upsets..MaxUpsets
        BY <1>1, <1>5, UpsetsBounded
      <3>2. EnvOK'
        BY <1>1, <1>5, <2>1 DEF EnvOK
      <3>3. \A g : Dead(g) => Dead(g)'
        BY <1>5, <2>1 DEF Dead
      <3> QED
        BY <1>1, <1>5, <2>1, <3>1, <3>2, <3>3 DEF TokensGrow
    <2>3. /\ s.pc = "denied" /\ s.want = r.want /\ s.seen = r.seen /\ s.tries = 0
          /\ s \in TaskRecords
      BY <1>1 DEF RecOK, TaskRecords, Flying, Holding
    <2>4. task' = [task EXCEPT ![t] = s]
      BY <1>0, <1>5 DEF Goto
    <2>5. Dead(r.want) /\ 0 <= CasTries
      BY <1>1, <1>5, RefreshAssumption DEF Dead
    <2> HIDE DEF s
    <2>6. RecOK(s)
      BY <1>1, <2>3, <2>5 DEF RecOK, Unstored, Consumed, Told
    <2>7. RecOK(s)'
      BY <1>1, <2>2, <2>6, KeptByGrowth
    <2> QED
      BY <1>2, <2>2, <2>4, <2>7, GrowingStep, RowKept
  <1>6. CASE Leave(t, "transient") /\ Upset /\ UNCHANGED <<tokens, usable>>
    <2>1. RecOK([r EXCEPT !.pc = "release", !.result = "transient"])
      BY <1>1, LeaveOK DEF Results
    <2> QED
      BY <1>0, <1>2, <1>6, <2>1, OneTaskStep DEF Leave, IInv
  <1> QED
    BY <1>0, <1>1, <1>3, <1>4, <1>5, <1>6 DEF exchange

(* The guarded write: the new token replaces the one it descends from. *)
LEMMA RotateStep ==
    ASSUME IInv, NEW t \in Tasks, rotate_tokens(t)
    PROVE  IInv'
  <1>0. PICK r : r = task[t]
    OBVIOUS
  <1> DEFINE m == r.minted
  <1>1. /\ RecOK(r) /\ r.pc = "persist" /\ m \in 1..MaxToken /\ EnvOK /\ MaxToken \in Nat
        /\ r.want \in 1..MaxToken
    BY <1>0 DEF IInv, TasksOK, RecOK, rotate_tokens, EnvOK, MaxToken, Unstored
  <1>2. UNCHANGED <<claim, usable, cooldown, down, upsets>>
    BY DEF rotate_tokens
  <1>3. CASE ~StoredAsSeen(t)
    <2> DEFINE s == [r EXCEPT !.pc = "persist_reread"]
    <2>1. task' = [task EXCEPT ![t] = s] /\ UNCHANGED <<account, tokens>>
      BY <1>0, <1>3 DEF rotate_tokens, Goto
    <2>2. /\ s \in TaskRecords /\ s.pc = "persist_reread" /\ s.want = r.want /\ s.seen = r.seen
          /\ s.minted = m
      BY <1>1 DEF RecOK, TaskRecords, Flying, Holding
    <2> HIDE DEF s
    <2>3. RecOK(s)
      BY <1>1, <2>2 DEF RecOK, Unstored, Consumed, Told
    <2> QED
      BY <1>2, <2>1, <2>3, OneTaskStep DEF IInv
  <1>4. CASE StoredAsSeen(t)
    <2> DEFINE s == [r EXCEPT !.pc = "release", !.result = "refreshed"]
    <2>1. /\ account # Gone /\ account' = [account EXCEPT !.token = m, !.encryption = 0]
          /\ tokens' = [tokens EXCEPT ![m].stranded = @ \/ account.status = "reauth"]
          /\ task' = [task EXCEPT ![t] = s]
      BY <1>0, <1>4 DEF rotate_tokens, Leave, StoredAsSeen
    <2>2. tokens \in [1..MaxToken -> TokenRecords]
      BY <1>1 DEF EnvOK, MaxToken
    <2>3. tokens' \in [1..MaxToken -> TokenRecords]
      BY <1>1, <2>1, <2>2 DEF TokenRecords
    <2>4. tokens' \in Seq(TokenRecords) /\ MaxToken' = MaxToken
      BY <1>1, <2>3 DEF MaxToken
    <2>5. \A g \in 1..MaxToken :
              /\ tokens'[g].from = tokens[g].from
              /\ tokens'[g].login = tokens[g].login
              /\ tokens[g].stranded => tokens'[g].stranded
      BY <2>1, <2>2 DEF TokenRecords
    <2>6. account.status = "reauth" => tokens'[m].stranded
      BY <1>1, <2>1, <2>2 DEF TokenRecords
    <2>7. TokensGrow
      <3>1. EnvOK'
        BY <1>1, <1>2, <2>4, <2>5 DEF EnvOK
      <3>2. upsets' \in upsets..MaxUpsets
        BY <1>1, <1>2, UpsetsBounded
      <3>3. \A g \in 1..MaxToken : Dead(g) => Dead(g)'
        BY <1>2, <2>5 DEF Dead
      <3> QED
        BY <1>1, <2>4, <2>5, <3>1, <3>2, <3>3 DEF TokensGrow
    <2>8. RowOK(account)'
      <3>1. account \in Rows
        BY <2>1 DEF IInv, RowOK
      <3>2. account' \in Rows' /\ account'.token = m /\ account'.status = account.status
        <4>1. 0 \in 0..upsets /\ upsets' = upsets
          BY <1>1, <1>2, RefreshAssumption DEF EnvOK
        <4>2. Rows' = Rows
          BY <2>4, <4>1 DEF Rows
        <4> QED
          BY <1>1, <2>1, <3>1, <4>1, <4>2 DEF Rows
      <3> QED
        BY <2>6, <3>2 DEF RowOK, Dead
    <2>9. RecOK(s)
      BY <1>1, LeaveOK DEF Results
    <2> HIDE DEF s
    <2>10. RecOK(s)'
      BY <1>1, <2>7, <2>9, KeptByGrowth
    <2> QED
      BY <1>2, <2>1, <2>7, <2>8, <2>10, GrowingStep
  <1> QED
    BY <1>3, <1>4

(* After a miss: the same token under another ciphertext is tried again,   *)
(* and when no try is left the account is to be flagged.                   *)
LEMMA PersistRereadStep ==
    ASSUME IInv, NEW t \in Tasks, persist_reread(t)
    PROVE  IInv'
  <1>1. /\ RecOK(task[t]) /\ task[t].pc = "persist_reread" /\ claim' \in Claims
        /\ task[t].seen[1] = task[t].want /\ Dead(task[t].want)
        /\ task[t].minted \in 1..MaxToken /\ tokens[task[t].minted].from = task[t].want
    BY DEF IInv, TasksOK, RecOK, persist_reread, Unstored, Consumed
  <1>2. UNCHANGED <<account, tokens, usable, down, upsets, cooldown>>
    BY DEF persist_reread, environment
  <1>3. CASE Leave(t, "refreshed") \/ Leave(t, "adopted")
    BY <1>1, <1>2, <1>3, LeaveStep DEF Results
  <1>4. ASSUME account # Gone, ~Rotated(task[t].seen[1]),
               NEW n \in {task[t].tries + 1, CasTries}, n > task[t].tries,
               IF n < TriesInAll THEN Note(t, "persist", n) ELSE Note(t, "flag", 0)
        PROVE  IInv'
    <2>1. account.token = task[t].want
      BY <1>1, <1>4 DEF Rotated
    <2>2. task[t].tries \in Nat
      BY <1>1 DEF RecOK, TaskRecords
    <2>3. CASE n < TriesInAll /\ Note(t, "persist", n)
      <3>1. n \in 0..(CasTries + FinalTries - 1)
        BY <1>4, <2>2, <2>3, RefreshAssumption DEF TriesInAll
      <3>2. RecOK([task[t] EXCEPT !.pc = "persist", !.tries = n, !.seen = Ciphertext(account),
                                  !.status = account.status])
        BY <1>1, <1>4, <2>1, <3>1, NoteOK
      <3> QED
        BY <1>1, <1>2, <2>3, <3>2, NoteStep
    <2>4. CASE Note(t, "flag", 0)
      <3>1. 0 \in 0..(CasTries + FinalTries - 1) /\ 0 < FinalTries
        BY RefreshAssumption
      <3>2. RecOK([task[t] EXCEPT !.pc = "flag", !.tries = 0, !.seen = Ciphertext(account),
                                  !.status = account.status])
        BY <1>1, <1>4, <2>1, <3>1, NoteOK
      <3> QED
        BY <1>1, <1>2, <2>4, <3>2, NoteStep
    <2> QED
      BY <1>4, <2>3, <2>4
  <1> QED
    BY <1>3, <1>4 DEF persist_reread

-----------------------------------------------------------------------------
(* Flags. *)

(* The row as a refresh that knows of a dead token last saw it holds that token. *)
LEMMA FlaggedRow ==
    ASSUME IInv, NEW t \in Tasks, task[t].pc \in Consumed, StatusAsSeen(t),
           account' = [account EXCEPT !.status = "reauth"], UNCHANGED <<tokens, usable, upsets>>
    PROVE  RowOK(account)' /\ Dead(account.token)
  <1>1. task[t].seen[1] = task[t].want /\ Dead(task[t].want)
    BY DEF IInv, TasksOK, RecOK, Consumed, Unstored
  <1>2. account \in Rows /\ account.token = task[t].want
    BY <1>1 DEF StatusAsSeen, StoredAsSeen, Ciphertext, IInv, RowOK
  <1>3. MaxToken' = MaxToken
    BY DEF MaxToken
  <1>4. account' \in Rows' /\ account'.token = account.token
    BY <1>2, <1>3 DEF Rows
  <1> QED
    BY <1>1, <1>2, <1>4 DEF RowOK, Dead

(* A step of one refresh that may write the row. *)
LEMMA WritingStep ==
    ASSUME IInv, NEW t \in Tasks, NEW r, RecOK(r), task' = [task EXCEPT ![t] = r],
           RowOK(account)', UNCHANGED <<claim, cooldown, tokens, usable, down, upsets>>
    PROVE  IInv'
  <1>1. /\ task = [u \in Tasks |-> task[u]] /\ \A u \in Tasks : RecOK(task[u])
        /\ EnvOK /\ claim \in Claims /\ down \subseteq Processes /\ \A k \in cooldown : KeyOK(k)
    BY DEF IInv, TasksOK
  <1>2. task' = [u \in Tasks |-> task'[u]] /\ \A u \in Tasks : RecOK(task'[u])
    BY <1>1
  <1>3. upsets' \in upsets..MaxUpsets
    BY <1>1, UpsetsBounded
  <1> QED
    BY <1>1, <1>2, <1>3, CalmStep

(* A refresh leaves having written the row. *)
LEMMA WriteAndLeave ==
    ASSUME IInv, NEW t \in Tasks, task[t].pc \notin {"idle", "done"},
           NEW result \in Results, Leave(t, result), result = "permanent" => Dead(task[t].want),
           RowOK(account)', UNCHANGED <<claim, cooldown, tokens, usable, down, upsets>>
    PROVE  IInv'
  <1>0. PICK s : s = [task[t] EXCEPT !.pc = "release", !.result = result]
    OBVIOUS
  <1>1. task' = [task EXCEPT ![t] = s]
    BY <1>0 DEF Leave
  <1>2. RecOK(s)
    <2>1. RecOK(task[t])
      BY DEF IInv, TasksOK
    <2> QED
      BY <1>0, <2>1, LeaveOK
  <1> QED
    BY <1>1, <1>2, WritingStep

(* Before flagging, the row is read once more. *)
LEMMA FlagConflictStep ==
    ASSUME IInv, NEW t \in Tasks, flag_persist_conflict(t)
    PROVE  IInv'
  <1>1. /\ RecOK(task[t]) /\ task[t].pc = "flag" /\ claim' \in Claims
        /\ task[t].seen[1] = task[t].want /\ Dead(task[t].want) /\ task[t].tries < FinalTries
        /\ task[t].tries \in 0..(CasTries + FinalTries - 1)
    BY DEF IInv, TasksOK, RecOK, flag_persist_conflict, Consumed, TaskRecords
  <1>2. UNCHANGED <<account, tokens, usable, down, upsets, cooldown>>
    BY DEF flag_persist_conflict, environment
  <1>3. CASE Leave(t, "refreshed") \/ Leave(t, "adopted")
    BY <1>1, <1>2, <1>3, LeaveStep DEF Results
  <1>4. CASE account # Gone /\ ~Rotated(task[t].seen[1]) /\ Note(t, "flag_write", task[t].tries)
    <2>1. account.token = task[t].want
      BY <1>1, <1>4 DEF Rotated
    <2>2. RecOK([task[t] EXCEPT !.pc = "flag_write", !.tries = task[t].tries,
                                !.seen = Ciphertext(account), !.status = account.status])
      BY <1>1, <1>4, <2>1, NoteOK
    <2> QED
      BY <1>1, <1>2, <1>4, <2>2, NoteStep
  <1> QED
    BY <1>3, <1>4 DEF flag_persist_conflict

(* The flag is written under the guard, tried again or given up. *)
LEMMA WriteConflictStep ==
    ASSUME IInv, NEW t \in Tasks, write_conflict_flag(t)
    PROVE  IInv'
  <1>1. /\ RecOK(task[t]) /\ task[t].pc = "flag_write" /\ RowOK(account)
        /\ task[t].seen[1] = task[t].want /\ Dead(task[t].want) /\ task[t].want \in 1..MaxToken
        /\ task[t].tries \in 0..(CasTries + FinalTries - 1) /\ task[t].tries < FinalTries
    BY DEF IInv, TasksOK, RecOK, write_conflict_flag, Consumed, TaskRecords
  <1>2. UNCHANGED <<claim, tokens, usable, down, upsets, cooldown>>
    BY DEF write_conflict_flag, environment
  <1>3. CASE StatusAsSeen(t)
    <2>1. RowOK(account)'
      BY <1>1, <1>2, <1>3, FlaggedRow DEF write_conflict_flag, Consumed
    <2> QED
      BY <1>1, <1>2, <1>3, <2>1, WriteAndLeave DEF write_conflict_flag, Results
  <1>4. CASE ~StatusAsSeen(t) /\ task[t].tries + 1 < FinalTries
    <2>0. PICK s : s = [task[t] EXCEPT !.pc = "flag", !.tries = task[t].tries + 1]
      OBVIOUS
    <2>1. task' = [task EXCEPT ![t] = s] /\ UNCHANGED account
      BY <1>4, <2>0 DEF write_conflict_flag
    <2>2. task[t].tries + 1 \in 0..(CasTries + FinalTries - 1)
      BY <1>1, <1>4, RefreshAssumption
    <2>3. /\ s \in TaskRecords /\ s.pc = "flag" /\ s.tries = task[t].tries + 1
          /\ s.want = task[t].want /\ s.seen = task[t].seen
      BY <1>1, <2>0, <2>2 DEF RecOK, TaskRecords, Flying, Holding
    <2>4. RecOK(s)
      BY <1>1, <1>4, <2>3 DEF RecOK, Unstored, Consumed, Told
    <2> QED
      BY <1>2, <2>1, <2>4, OneTaskStep DEF IInv
  <1>5. CASE ~StatusAsSeen(t) /\ ~(task[t].tries + 1 < FinalTries)
    <2>1. Leave(t, "transient") /\ UNCHANGED account
      BY <1>5 DEF write_conflict_flag
    <2> QED
      BY <1>1, <1>2, <2>1, LeaveStep DEF Results, IInv
  <1> QED
    BY <1>3, <1>4, <1>5

(* A refused token: the row is read again before it is flagged. *)
LEMMA HandleFailureStep ==
    ASSUME IInv, NEW t \in Tasks, handle_permanent_failure(t)
    PROVE  IInv'
  <1>1. /\ RecOK(task[t]) /\ task[t].pc = "denied" /\ claim' \in Claims
        /\ Dead(task[t].want) /\ task[t].tries \in 0..(CasTries + FinalTries - 1)
    BY DEF IInv, TasksOK, RecOK, handle_permanent_failure, Consumed, TaskRecords
  <1>2. UNCHANGED <<account, tokens, usable, down, upsets, cooldown>>
    BY DEF handle_permanent_failure, environment
  <1>3. CASE Leave(t, "permanent") \/ Leave(t, "adopted") \/ Leave(t, "transient")
    BY <1>1, <1>2, <1>3, LeaveStep DEF Results
  <1>4. CASE /\ account # Gone /\ ~Rotated(task[t].want) /\ task[t].tries < CasTries
             /\ Note(t, "denied_write", task[t].tries)
    <2>1. account.token = task[t].want
      BY <1>1, <1>4 DEF Rotated
    <2>2. RecOK([task[t] EXCEPT !.pc = "denied_write", !.tries = task[t].tries,
                                !.seen = Ciphertext(account), !.status = account.status])
      BY <1>1, <1>4, <2>1, NoteOK
    <2> QED
      BY <1>1, <1>2, <1>4, <2>2, NoteStep
  <1> QED
    BY <1>3, <1>4 DEF handle_permanent_failure

(* The flag of a refused token, under the guard. *)
LEMMA WriteFailureStep ==
    ASSUME IInv, NEW t \in Tasks, write_permanent_failure(t)
    PROVE  IInv'
  <1>1. /\ RecOK(task[t]) /\ task[t].pc = "denied_write"
        /\ task[t].seen[1] = task[t].want /\ Dead(task[t].want) /\ task[t].want \in 1..MaxToken
        /\ task[t].tries \in 0..(CasTries + FinalTries - 1) /\ task[t].tries < CasTries
    BY DEF IInv, TasksOK, RecOK, write_permanent_failure, Consumed, TaskRecords
  <1>2. UNCHANGED <<claim, tokens, usable, down, upsets, cooldown>>
    BY DEF write_permanent_failure, environment
  <1>3. CASE StatusAsSeen(t)
    <2>1. RowOK(account)'
      BY <1>1, <1>2, <1>3, FlaggedRow DEF write_permanent_failure, Consumed
    <2> QED
      BY <1>1, <1>2, <1>3, <2>1, WriteAndLeave DEF write_permanent_failure, Results
  <1>4. CASE ~StatusAsSeen(t)
    <2>0. PICK s : s = [task[t] EXCEPT !.pc = "denied", !.tries = task[t].tries + 1]
      OBVIOUS
    <2>1. task' = [task EXCEPT ![t] = s] /\ UNCHANGED account
      BY <1>4, <2>0 DEF write_permanent_failure
    <2>2. task[t].tries + 1 \in 0..(CasTries + FinalTries - 1) /\ task[t].tries + 1 <= CasTries
      BY <1>1, RefreshAssumption
    <2>3. /\ s \in TaskRecords /\ s.pc = "denied" /\ s.tries = task[t].tries + 1
          /\ s.want = task[t].want /\ s.seen = task[t].seen
      BY <1>1, <2>0, <2>2 DEF RecOK, TaskRecords, Flying, Holding
    <2>4. RecOK(s)
      BY <1>1, <2>2, <2>3 DEF RecOK, Unstored, Consumed, Told
    <2> QED
      BY <1>2, <2>1, <2>4, OneTaskStep DEF IInv
  <1> QED
    BY <1>3, <1>4

(* A caller that was told of the failure marks its own copy of the row. *)
LEMMA MarkStep ==
    ASSUME IInv, NEW t \in Tasks, mark_permanent_failure(t)
    PROVE  IInv'
  <1>0. PICK s : s = [task[t] EXCEPT !.pc = "done"]
    OBVIOUS
  <1>1. RecOK(task[t]) /\ task[t].pc = "mark" /\ RowOK(account)
    BY DEF IInv, TasksOK, mark_permanent_failure
  <1>2. UNCHANGED <<claim, tokens, usable, down, upsets, cooldown>> /\ task' = [task EXCEPT ![t] = s]
    BY <1>0 DEF mark_permanent_failure, environment, Goto
  <1>3. RecOK(s)
    <2>1. s \in TaskRecords /\ s.pc = "done"
      BY <1>0, <1>1 DEF RecOK, TaskRecords
    <2> QED
      BY <2>1 DEF RecOK, Unstored, Consumed, Told
  <1>4. CASE StatusAsSeen(t)
    <2>1. RowOK(account)'
      BY <1>1, <1>2, <1>4, FlaggedRow DEF mark_permanent_failure, Consumed
    <2> QED
      BY <1>2, <1>3, <2>1, WritingStep
  <1>5. CASE ~StatusAsSeen(t)
    <2>1. UNCHANGED account
      BY <1>5 DEF mark_permanent_failure
    <2> QED
      BY <1>2, <1>3, <2>1, OneTaskStep DEF IInv
  <1> QED
    BY <1>4, <1>5

-----------------------------------------------------------------------------
(* Faults and operators' hands. *)

(* A statement that raises ends the refresh as a transient failure. *)
LEMMA DatabaseErrorStep ==
    ASSUME IInv, NEW t \in Tasks, DatabaseError(t)
    PROVE  IInv'
  <1>1. /\ task[t].pc \notin {"idle", "done"} /\ claim' \in Claims /\ Upset
        /\ UNCHANGED <<account, tokens, usable, down>>
    BY DEF IInv, DatabaseError, environment, Flying, Holding
  <1>2. CASE Leave(t, "transient") /\ UNCHANGED cooldown
    BY <1>1, <1>2, LeaveStep DEF Results
  <1>3. CASE EndFlight(t, "transient")
    BY <1>1, <1>3, EndFlightStep DEF Results
  <1> QED
    BY <1>2, <1>3 DEF DatabaseError

(* A crash ends every refresh of its process and forgets its failures. *)
LEMMA CrashStep ==
    ASSUME IInv, NEW p \in Processes, Crash(p)
    PROVE  IInv'
  <1>0. PICK s : s = [Idle EXCEPT !.pc = "done"]
    OBVIOUS
  <1>1. EnvOK /\ RowOK(account) /\ claim \in Claims /\ TasksOK /\ \A k \in cooldown : KeyOK(k)
    BY DEF IInv
  <1>2. RecOK(s)
    <2>1. MaxToken \in Nat
      BY <1>1 DEF EnvOK, MaxToken
    <2>2. s \in TaskRecords /\ s.pc = "done"
      BY <1>0, <2>1, RefreshAssumption DEF Idle, TaskRecords, Results
    <2> QED
      BY <2>2 DEF RecOK, Unstored, Consumed, Told
  <1>3. task' = [t \in Tasks |-> IF ProcessOf[t] = p THEN s ELSE task[t]]
    BY <1>0 DEF Crash
  <1>4. task' = [u \in Tasks |-> task'[u]] /\ \A u \in Tasks : RecOK(task'[u])
    BY <1>1, <1>2, <1>3 DEF TasksOK
  <1>5. /\ UNCHANGED <<account, claim, tokens, usable>> /\ Upset
        /\ cooldown' \subseteq cooldown /\ down' \subseteq Processes
    BY DEF Crash, IInv
  <1>6. upsets' \in upsets..MaxUpsets
    BY <1>1, <1>5, UpsetsBounded
  <1>7. RowOK(account)'
    <2>1. PICK a : a = account /\ a = account'
      BY <1>5
    <2>2. RowOK(a)'
      BY <1>1, <1>5, <1>6, <2>1, SameTokens
    <2> QED
      BY <2>1, <2>2
  <1> QED
    BY <1>1, <1>4, <1>5, <1>6, <1>7, CalmStep

(* The claim may be gone at any moment. *)
LEMMA ClaimExpiresStep ==
    ASSUME IInv, ClaimExpires
    PROVE  IInv'
  <1>1. /\ UNCHANGED <<account, task, tokens, usable, down, cooldown>> /\ claim' \in Claims
        /\ Upset \/ UNCHANGED upsets
    BY DEF ClaimExpires, environment, Claims
  <1>2. task' = [u \in Tasks |-> task'[u]] /\ \A u \in Tasks : RecOK(task'[u])
    BY <1>1 DEF IInv, TasksOK
  <1> QED
    BY <1>1, <1>2, QuietStep DEF IInv

(* A sign-in writes a token of its own into the row. *)
LEMMA SignInStep ==
    ASSUME IInv, SignIn
    PROVE  IInv'
  <1>0. PICK n, new : n = MaxToken /\ new = [from |-> 0, login |-> MaxToken + 1, stranded |-> FALSE]
    OBVIOUS
  <1>1. EnvOK /\ n \in Nat /\ Upset /\ UNCHANGED <<claim, task, cooldown, down>>
    BY <1>0 DEF IInv, EnvOK, MaxToken, SignIn
  <1>2. new \in TokenRecords /\ new.login = n + 1
    BY <1>0, <1>1 DEF TokenRecords
  <1>3. /\ tokens' \in Seq(TokenRecords) /\ MaxToken' = n + 1 /\ tokens'[n + 1] = new
        /\ \A g \in 1..n : tokens'[g] = tokens[g]
    BY <1>0, <1>1, <1>2 DEF SignIn, EnvOK, MaxToken
  <1>4. usable' = usable \cup {n + 1} /\ account' = [token |-> n + 1, encryption |-> 0, status |-> "active"]
    BY <1>0 DEF SignIn
  <1>5. upsets' \in upsets..MaxUpsets /\ 0 \in 0..upsets'
    <2>1. upsets' \in upsets..MaxUpsets
      BY <1>1, UpsetsBounded
    <2> QED
      BY <1>1, <2>1, RefreshAssumption DEF EnvOK
  <1>6. /\ \A g \in 1..(n + 1) : g \in 1..n \/ g = n + 1
        /\ 1..n \subseteq 1..(n + 1) /\ n + 1 \in 1..(n + 1) /\ n + 1 \notin 1..n
    BY <1>1
  <1>7. EnvOK'
    <2>1. \A g \in 1..(n + 1) : tokens'[g].login \in 1..(n + 1)
      <3>1. \A g \in 1..n : tokens[g].login \in 1..n
        BY <1>0, <1>1 DEF EnvOK
      <3> QED
        BY <1>2, <1>3, <1>6, <3>1
    <2>2. usable' \in SUBSET (1..(n + 1))
      BY <1>0, <1>1, <1>4, <1>6 DEF EnvOK
    <2>3. upsets' \in 0..MaxUpsets
      BY <1>1, <1>5, RefreshAssumption DEF EnvOK
    <2> QED
      BY <1>3, <2>1, <2>2, <2>3 DEF EnvOK
  <1>8. \A g \in 1..n : Dead(g) => Dead(g)'
    BY <1>3, <1>4, <1>6 DEF Dead
  <1>9. TokensGrow
    BY <1>0, <1>1, <1>3, <1>5, <1>7, <1>8 DEF TokensGrow
  <1>10. RowOK(account)'
    BY <1>3, <1>4, <1>5, <1>6 DEF RowOK, Rows
  <1>11. /\ claim \in Claims /\ TasksOK /\ down \subseteq Processes /\ \A k \in cooldown : KeyOK(k)
    BY DEF IInv
  <1>12. TasksOK'
    <2>1. ASSUME NEW u \in Tasks PROVE RecOK(task[u])'
      <3>1. PICK x : x = task[u] /\ x = task'[u]
        BY <1>1
      <3>2. RecOK(x)'
        BY <1>1, <1>9, <1>11, <3>1, KeptByGrowth DEF TasksOK
      <3> QED
        BY <3>1, <3>2
    <2> QED
      BY <1>1, <1>11, <2>1 DEF TasksOK
  <1>13. claim' \in Claims' /\ \A k \in cooldown' : KeyOK(k)'
    BY <1>1, <1>9, <1>11, KeptByGrowth
  <1> QED
    BY <1>1, <1>7, <1>10, <1>11, <1>12, <1>13 DEF IInv

(* An operator writes a token of an auth file, or deletes the row. *)
LEMMA OperatorStep ==
    ASSUME IInv, (\E g \in 1..MaxToken : Reimport(g)) \/ Remove
    PROVE  IInv'
  <1>1. /\ UNCHANGED <<claim, task, tokens, usable, down, cooldown>> /\ Upset
        /\ EnvOK /\ account \in Rows
    BY DEF IInv, RowOK, Reimport, Remove, environment
  <1>2. upsets' \in upsets..MaxUpsets /\ upsets' = upsets + 1 /\ upsets \in Nat
    BY <1>1, UpsetsBounded DEF Upset, EnvOK
  <1>3. RowOK(account)'
    <2>1. CASE account' = Gone
      BY <2>1 DEF RowOK, Gone
    <2>2. ASSUME NEW g \in 1..MaxToken,
                 account' = [token |-> g, encryption |-> upsets + 1, status |-> "active"]
          PROVE  RowOK(account)'
      <3>1. upsets + 1 \in 0..upsets' /\ g \in 1..MaxToken'
        BY <1>1, <1>2 DEF MaxToken
      <3>2. account' \in Rows' /\ account'.status = "active"
        BY <2>2, <3>1 DEF Rows
      <3> QED
        BY <3>2 DEF RowOK
    <2> QED
      BY <2>1, <2>2 DEF Reimport, Remove
  <1>4. task' = [u \in Tasks |-> task'[u]] /\ \A u \in Tasks : RecOK(task'[u])
    BY <1>1 DEF IInv, TasksOK
  <1> QED
    BY <1>1, <1>2, <1>3, <1>4, CalmStep DEF IInv

-----------------------------------------------------------------------------

(* Nothing happens, and nothing changes. *)
LEMMA StutterStep ==
    ASSUME IInv, UNCHANGED vars
    PROVE  IInv'
  <1>1. task' = [u \in Tasks |-> task'[u]] /\ \A u \in Tasks : RecOK(task'[u])
    BY DEF IInv, TasksOK, vars
  <1> QED
    BY <1>1, QuietStep DEF IInv, vars, environment

(* Every step keeps the invariant. *)
LEMMA NextIInv == IInv /\ [Next]_vars => IInv'
  <1> SUFFICES ASSUME IInv, [Next]_vars PROVE IInv'
    OBVIOUS
  <1>1. CASE UNCHANGED vars
    BY <1>1, StutterStep
  <1>2. ASSUME NEW t \in Tasks,
               \/ LoadAccount(t) \/ ensure_fresh(t) \/ try_acquire(t) \/ wait_for_peer(t)
               \/ reread_under_claim(t) \/ release(t)
        PROVE  IInv'
    BY <1>2, LoadAccountStep, EnsureFreshStep, TryAcquireStep, WaitForPeerStep, RereadStep, ReleaseStep
  <1>3. ASSUME NEW t \in Tasks,
               \/ exchange(t) \/ rotate_tokens(t) \/ persist_reread(t)
               \/ flag_persist_conflict(t) \/ write_conflict_flag(t)
        PROVE  IInv'
    BY <1>3, ExchangeStep, RotateStep, PersistRereadStep, FlagConflictStep, WriteConflictStep
  <1>4. ASSUME NEW t \in Tasks,
               \/ handle_permanent_failure(t) \/ write_permanent_failure(t)
               \/ mark_permanent_failure(t) \/ DatabaseError(t)
        PROVE  IInv'
    BY <1>4, HandleFailureStep, WriteFailureStep, MarkStep, DatabaseErrorStep
  <1>5. CASE (\E p \in Processes : Crash(p)) \/ ClaimExpires \/ SignIn \/ Remove
             \/ \E g \in 1..MaxToken : Reimport(g)
    BY <1>5, CrashStep, ClaimExpiresStep, SignInStep, OperatorStep
  <1> QED
    BY <1>1, <1>2, <1>3, <1>4, <1>5 DEF Next

(* Whatever expires, crashes, is signed in or removed meanwhile, every     *)
(* refresh is about the token it last saw in the row, and what it is about *)
(* to flag, or was told of, is a dead token.                               *)
THEOREM SafetyInvariant == Spec => []IInv
  BY InitIInv, NextIInv, PTL DEF Spec

(* The row, the claim, the refreshes and their tries stay within their     *)
(* types: no loop of persist, flag or failure handling makes more tries    *)
(* than its bound (TypeOK).                                                *)
THEOREM TypeCorrect == Spec => []TypeOK
  BY SafetyInvariant, IInvTypes, PTL

-----------------------------------------------------------------------------
(* What may happen to the row. *)

(* A refresh that knows of a dead token writes the flag under its guard. *)
WritesFlag(t) ==
    /\ task[t].pc \in {"flag_write", "denied_write", "mark"} /\ StatusAsSeen(t)
    /\ account' = [account EXCEPT !.status = "reauth"]
    /\ UNCHANGED <<tokens, usable, upsets>>

(* The row is written by a rotation that finds it as it was last seen, by  *)
(* a guarded flag, or by an operator.                                      *)
LEMMA RowWriters ==
    ASSUME [Next]_vars, account' # account
    PROVE  \/ \E t \in Tasks : rotate_tokens(t) /\ StoredAsSeen(t)
           \/ \E t \in Tasks : WritesFlag(t)
           \/ SignIn \/ Remove \/ \E g \in 1..MaxToken : Reimport(g)
  <1>1. ASSUME NEW t \in Tasks,
               \/ LoadAccount(t) \/ ensure_fresh(t) \/ try_acquire(t) \/ wait_for_peer(t)
               \/ reread_under_claim(t) \/ release(t) \/ exchange(t)
        PROVE  FALSE
    BY <1>1 DEF LoadAccount, ensure_fresh, try_acquire, wait_for_peer, reread_under_claim, release, exchange
  <1>2. ASSUME NEW t \in Tasks,
               \/ persist_reread(t) \/ flag_persist_conflict(t)
               \/ handle_permanent_failure(t) \/ DatabaseError(t)
        PROVE  FALSE
    BY <1>2 DEF persist_reread, flag_persist_conflict, handle_permanent_failure, DatabaseError
  <1>3. ASSUME NEW t \in Tasks, rotate_tokens(t) PROVE StoredAsSeen(t)
    BY <1>3 DEF rotate_tokens
  <1>4. ASSUME NEW t \in Tasks,
               write_conflict_flag(t) \/ write_permanent_failure(t) \/ mark_permanent_failure(t)
        PROVE  WritesFlag(t)
    BY <1>4 DEF write_conflict_flag, write_permanent_failure, mark_permanent_failure, WritesFlag,
                environment
  <1>5. ~(\E p \in Processes : Crash(p)) /\ ~ClaimExpires /\ ~UNCHANGED vars
    BY DEF Crash, ClaimExpires, vars
  <1> QED
    BY <1>1, <1>2, <1>3, <1>4, <1>5 DEF Next

(* A rotation is stored over the token it descends from. *)
LEMMA StepChains ==
    ASSUME IInv, [Next]_vars, account # Gone, account' # Gone, account'.token # account.token,
           upsets' = upsets
    PROVE  tokens'[account'.token].from = account.token
  <1>1. account \in Rows /\ EnvOK /\ MaxToken \in Nat
    BY DEF IInv, RowOK, EnvOK, MaxToken
  <1>2. ASSUME NEW t \in Tasks, rotate_tokens(t), StoredAsSeen(t)
        PROVE  tokens'[account'.token].from = account.token
    <2>0. PICK m : m = task[t].minted
      OBVIOUS
    <2>1. /\ m \in 1..MaxToken /\ tokens[m].from = task[t].want /\ task[t].seen[1] = task[t].want
      BY <1>2, <2>0 DEF IInv, TasksOK, RecOK, rotate_tokens, Unstored
    <2>2. account.token = task[t].want
      BY <1>2, <2>1 DEF StoredAsSeen, Ciphertext
    <2>3. /\ account' = [account EXCEPT !.token = m, !.encryption = 0]
          /\ tokens' = [tokens EXCEPT ![m].stranded = @ \/ account.status = "reauth"]
      BY <1>2, <2>0 DEF rotate_tokens
    <2>4. tokens \in [1..MaxToken -> TokenRecords]
      BY <1>1 DEF EnvOK, MaxToken
    <2>5. tokens'[m].from = tokens[m].from
      BY <2>1, <2>3, <2>4 DEF TokenRecords
    <2>6. account'.token = m
      BY <1>1, <2>3 DEF Rows
    <2> QED
      BY <2>1, <2>2, <2>5, <2>6
  <1>3. ASSUME NEW t \in Tasks, WritesFlag(t) PROVE FALSE
    BY <1>1, <1>3 DEF WritesFlag, Rows
  <1>4. ~SignIn /\ ~Remove /\ ~\E g \in 1..MaxToken : Reimport(g)
    BY <1>1 DEF SignIn, Reimport, Remove, Upset, EnvOK
  <1> QED
    BY <1>2, <1>3, <1>4, RowWriters

(* The rotation of a peer or an operator's credential is never overwritten *)
(* by a refresh of an older token: a new token is stored only over the one *)
(* it was obtained for (RotationsChain).                                   *)
THEOREM RotationsAlwaysChain == Spec => RotationsChain
  <1>1. IInv /\ [Next]_vars =>
          [account' # Gone /\ account # Gone /\ account'.token # account.token /\ upsets' = upsets
             => tokens'[account'.token].from = account.token]_vars
    BY StepChains
  <1> QED
    BY <1>1, SafetyInvariant, PTL DEF Spec, RotationsChain

(* A row that becomes flagged holds a dead token. *)
LEMMA StepFlagsDead ==
    ASSUME IInv, [Next]_vars, account # Gone, account' # Gone,
           account.status = "active", account'.status = "reauth"
    PROVE  Dead(account.token)
  <1>1. account \in Rows /\ account' # account
    BY DEF IInv, RowOK
  <1>2. ASSUME NEW t \in Tasks, WritesFlag(t) PROVE Dead(account.token)
    BY <1>2, FlaggedRow DEF WritesFlag, Consumed
  <1>3. ASSUME NEW t \in Tasks, rotate_tokens(t), StoredAsSeen(t) PROVE FALSE
    BY <1>1, <1>3 DEF rotate_tokens, Rows
  <1>4. ~SignIn /\ ~Remove /\ ~\E g \in 1..MaxToken : Reimport(g)
    <2>1. ~SignIn
      <3> SUFFICES ASSUME SignIn PROVE FALSE
        OBVIOUS
      <3>1. account' = [token |-> MaxToken + 1, encryption |-> 0, status |-> "active"]
        BY DEF SignIn
      <3> QED
        BY <3>1
    <2>2. ~\E g \in 1..MaxToken : Reimport(g)
      <3> SUFFICES ASSUME NEW g \in 1..MaxToken, Reimport(g) PROVE FALSE
        OBVIOUS
      <3>1. account' = [token |-> g, encryption |-> upsets + 1, status |-> "active"]
        BY DEF Reimport
      <3> QED
        BY <3>1
    <2>3. ~Remove
      BY DEF Remove
    <2> QED
      BY <2>1, <2>2, <2>3
  <1> QED
    BY <1>1, <1>2, <1>3, <1>4, RowWriters

(* Neither a refused refresh, nor one that cannot store its token, nor a   *)
(* caller told of an old failure flags an account whose stored token still *)
(* works, unless that token was stored under a flag (FlagsOnlyDeadTokens). *)
THEOREM FlagsOnlyTheDead == Spec => FlagsOnlyDeadTokens
  <1>1. IInv /\ [Next]_vars =>
          [account' # Gone /\ account # Gone /\ account.status = "active"
             /\ account'.status = "reauth" => Dead(account.token)]_vars
    BY StepFlagsDead
  <1> QED
    BY <1>1, SafetyInvariant, PTL DEF Spec, FlagsOnlyDeadTokens

-----------------------------------------------------------------------------
(* Why refreshes alone never knock the account out.                        *)

(* A refresh, or a caller, that is about to blame the stored token. *)
Accuses(r) == r.pc \in {"denied", "denied_write", "mark"} \/ Told(r)

(* The singleflight: one refresh at a time of a token in a process. *)
OneFlight ==
    \A t, u \in Tasks : task[t].pc \in Flying /\ task[u].pc \in Flying /\ Key(t) = Key(u) => t = u

(* The claim is held by whoever works under it. *)
HoldersClaim == \A t \in Tasks : task[t].pc \in Holding => claim = Key(t)

(* The stored token works, or its successor is on its way into the row. *)
RowBacked ==
    account # Gone =>
      /\ account.status = "active"
      /\ \/ account.token \in usable
         \/ \E t \in Tasks : Unpersisted(t) /\ task[t].want = account.token

(* Nobody blames the stored token, now or on account of an old failure;    *)
(* and a refusal of another token cannot take the stored one along.        *)
RowApart ==
    account # Gone =>
      /\ \A t \in Tasks : Accuses(task[t]) => account.token # task[t].want
      /\ \A k \in cooldown : account.token # k[2]
      /\ \A t \in Tasks : task[t].pc = "exchange" /\ account.token # task[t].want
                            => tokens[account.token].login # tokens[task[t].want].login

(* A token on its way into the row works, and nobody else knows it yet. *)
NewApart ==
    \A t \in Tasks : task[t].pc \in Unstored =>
      /\ task[t].minted \in usable
      /\ account # Gone => account.token # task[t].minted
      /\ \A u \in Tasks : task[u].want # task[t].minted
      /\ \A k \in cooldown : k[2] # task[t].minted

Unspoiled == HoldersClaim /\ RowBacked /\ RowApart /\ NewApart
HealthyInv == OneFlight /\ (~spoiled => Unspoiled)

(* It holds at the start. *)
LEMMA InitHealthy == Init => HealthyInv
  <1> SUFFICES ASSUME Init PROVE HealthyInv
    OBVIOUS
  <1>1. \A t \in Tasks : task[t].pc = "idle"
    BY DEF Init, Idle
  <1>2. OneFlight /\ HoldersClaim /\ NewApart
    BY <1>1 DEF OneFlight, HoldersClaim, NewApart, Flying, Holding, Unstored
  <1>3. RowBacked
    BY DEF Init, RowBacked
  <1>4. RowApart
    BY <1>1 DEF Init, RowApart, Accuses, Told
  <1> QED
    BY <1>2, <1>3, <1>4 DEF HealthyInv, Unspoiled

(* The singleflight outlives every step that starts no refresh. *)
LEMMA FlightsGoOn ==
    ASSUME OneFlight,
           \A u \in Tasks : task'[u].pc \in Flying => task[u].pc \in Flying /\ task'[u].want = task[u].want
    PROVE  OneFlight'
  BY DEF OneFlight, Key

(* As long as every holder has the claim there is only one. *)
LEMMA OnlyHolder ==
    ASSUME OneFlight, HoldersClaim, NEW t \in Tasks, NEW u \in Tasks,
           task[t].pc \in Holding, task[u].pc \in Holding
    PROVE  t = u
  BY DEF OneFlight, HoldersClaim, Flying

(* Refresh t may go on as s. *)
MoveOK(t, s) ==
    /\ s.pc \in Holding => claim' = Key(t)
    /\ claim' = claim \/ \A u \in Tasks : task[u].pc \notin Holding
    /\ Unpersisted(t) /\ s.pc \notin {"persist", "persist_reread", "flag", "flag_write"}
         => account = Gone \/ account.token # s.want
    /\ s.pc = "exchange" => task[t].pc = "exchange" \/ account = Gone \/ account.token = s.want
    /\ Accuses(s) => account = Gone \/ account.token # s.want
    /\ s.pc \in Unstored => task[t].pc \in Unstored /\ s.minted = task[t].minted

(* Refresh t goes on as s, about the same token. *)
LEMMA TaskMoves ==
    ASSUME IInv, Unspoiled, NEW t \in Tasks, NEW s, task' = [task EXCEPT ![t] = s],
           s.want = task[t].want, UNCHANGED <<account, tokens, usable, cooldown>>, MoveOK(t, s)
    PROVE  Unspoiled'
  <1> USE DEF MoveOK
  <1>1. \A u \in Tasks : task'[u] = IF u = t THEN s ELSE task[u]
    BY DEF IInv, TasksOK
  <1>2. \A u \in Tasks : task'[u].want = task[u].want
    BY <1>1
  <1>3. HoldersClaim'
    BY <1>1 DEF HoldersClaim, Unspoiled, Key
  <1>4. RowBacked'
    BY <1>1, <1>2 DEF RowBacked, Unspoiled, Unpersisted
  <1>5. RowApart'
    <2> SUFFICES ASSUME account # Gone
                 PROVE  /\ \A u \in Tasks : Accuses(task'[u]) => account.token # task'[u].want
                        /\ \A k \in cooldown : account.token # k[2]
                        /\ \A u \in Tasks : task'[u].pc = "exchange" /\ account.token # task'[u].want
                             => tokens[account.token].login # tokens[task'[u].want].login
      BY DEF RowApart, Accuses, Told, Gone
    <2>1. \A u \in Tasks : Accuses(task'[u]) => account.token # task'[u].want
      BY <1>1 DEF RowApart, Unspoiled
    <2>2. \A u \in Tasks : task'[u].pc = "exchange" /\ account.token # task'[u].want
                            => tokens[account.token].login # tokens[task'[u].want].login
      BY <1>1 DEF RowApart, Unspoiled
    <2> QED
      BY <2>1, <2>2 DEF RowApart, Unspoiled
  <1>6. NewApart'
    BY <1>1, <1>2 DEF NewApart, Unspoiled
  <1> QED
    BY <1>3, <1>4, <1>5, <1>6 DEF Unspoiled

(* A refresh that goes on as s, whether or not something was spoiled. *)
LEMMA HealthyMove ==
    ASSUME IInv, HealthyInv, NEW t \in Tasks, NEW s, task' = [task EXCEPT ![t] = s],
           s.want = task[t].want, s.pc \in Flying => task[t].pc \in Flying,
           UNCHANGED <<account, tokens, usable, cooldown>>, spoiled => spoiled',
           ~spoiled' /\ Unspoiled => MoveOK(t, s)
    PROVE  HealthyInv'
  <1>1. \A u \in Tasks : task'[u] = IF u = t THEN s ELSE task[u]
    BY DEF IInv, TasksOK
  <1>2. OneFlight'
    BY <1>1, FlightsGoOn DEF HealthyInv
  <1>3. ~spoiled' => Unspoiled'
    BY TaskMoves DEF HealthyInv
  <1> QED
    BY <1>2, <1>3 DEF HealthyInv

(* A refresh leaves: it takes no unstored successor of the stored token    *)
(* along, and blames it for nothing.                                       *)
LEMMA HealthyLeave ==
    ASSUME IInv, HealthyInv, NEW t \in Tasks, task[t].pc \in Holding, NEW result, Leave(t, result),
           UNCHANGED <<account, tokens, usable, cooldown, claim>>, spoiled => spoiled',
           ~spoiled' /\ Unspoiled /\ (Unpersisted(t) \/ result = "permanent")
             => account = Gone \/ account.token # task[t].want
    PROVE  HealthyInv'
  <1>0. PICK s : s = [task[t] EXCEPT !.pc = "release", !.result = result]
    OBVIOUS
  <1>1. task' = [task EXCEPT ![t] = s]
    BY <1>0 DEF Leave
  <1>2. s.want = task[t].want /\ s.pc = "release" /\ s.result = result
    BY <1>0 DEF IInv, TasksOK, RecOK, TaskRecords
  <1>3. ~spoiled' /\ Unspoiled => MoveOK(t, s)
    BY <1>2 DEF MoveOK, Unspoiled, HoldersClaim, Accuses, Told, Unstored
  <1>4. task[t].pc \in Flying
    BY DEF Flying
  <1> QED
    BY <1>1, <1>2, <1>3, <1>4, HealthyMove

(* A refresh goes on in stage p, with other fields than want and minted    *)
(* changed as they may be.                                                 *)
LEMMA HealthyGoOn ==
    ASSUME IInv, HealthyInv, NEW t \in Tasks, task[t].pc \in Holding, NEW s,
           task' = [task EXCEPT ![t] = s], s.want = task[t].want, s.minted = task[t].minted,
           UNCHANGED <<account, tokens, usable, cooldown, claim>>, spoiled => spoiled',
           \/ s.pc = "exchange" /\ (account = Gone \/ account.token = s.want) /\ ~Unpersisted(t)
           \/ s.pc \in Unstored /\ task[t].pc \in Unstored
           \/ s.pc \in {"flag", "flag_write"}
           \/ /\ s.pc \in {"denied", "denied_write"} /\ ~Unpersisted(t)
              /\ ~spoiled' /\ Unspoiled => account = Gone \/ account.token # s.want
    PROVE  HealthyInv'
  <1>1. ~spoiled' /\ Unspoiled => MoveOK(t, s)
    BY DEF MoveOK, Unspoiled, HoldersClaim, Accuses, Told, Unstored, Unpersisted, Holding
  <1>2. task[t].pc \in Flying
    BY DEF Flying
  <1> QED
    BY <1>1, <1>2, HealthyMove

(* A flight that ends, with all who joined it. *)
LEMMA HealthyEnd ==
    ASSUME IInv, HealthyInv, NEW t \in Tasks, task[t].pc \in Flying, ~Unpersisted(t),
           NEW result, EndFlight(t, result),
           UNCHANGED <<account, tokens, usable>>, spoiled => spoiled',
           ~spoiled' /\ Unspoiled =>
             /\ result = "permanent" => account = Gone \/ account.token # task[t].want
             /\ claim' = claim \/ \A u \in Tasks \ {t} : task[u].pc \notin Holding
    PROVE  HealthyInv'
  <1> DEFINE touched(u) == u = t \/ (task[u].pc = "join" /\ Key(u) = Key(t))
  <1>1. ASSUME NEW u \in Tasks
        PROVE  /\ task'[u].want = task[u].want /\ task'[u].minted = task[u].minted
               /\ ~touched(u) => task'[u] = task[u]
               /\ touched(u) => /\ task'[u].pc \in {"mark", "done"} /\ task[u].want = task[t].want
                                /\ task'[u].pc = "mark" => result = "permanent"
                                /\ ~Unpersisted(u)
    <2>0. PICK s : s = [task[u] EXCEPT !.pc = IF result = "permanent" /\ u # t THEN "mark" ELSE "done",
                                       !.result = result]
      OBVIOUS
    <2>1. task'[u] = IF touched(u) THEN s ELSE task[u]
      BY <2>0 DEF EndFlight
    <2>2. /\ s.pc \in {"mark", "done"} /\ s.want = task[u].want /\ s.minted = task[u].minted
          /\ s.pc = "mark" => result = "permanent"
      BY <2>0 DEF IInv, TasksOK, RecOK, TaskRecords
    <2>3. touched(u) => task[u].want = task[t].want /\ ~Unpersisted(u)
      BY DEF Key, Unpersisted
    <2> QED
      BY <2>1, <2>2, <2>3
  <1> HIDE DEF touched
  <1>2. OneFlight'
    <2>1. \A u \in Tasks : task'[u].pc \in Flying => task[u].pc \in Flying /\ task'[u].want = task[u].want
      BY <1>1 DEF Flying, Holding
    <2> QED
      BY <2>1, FlightsGoOn DEF HealthyInv
  <1>3. ASSUME ~spoiled' PROVE Unspoiled'
    <2>1. Unspoiled
      BY <1>3 DEF HealthyInv
    <2>2. /\ result = "permanent" => account = Gone \/ account.token # task[t].want
          /\ claim' = claim \/ \A u \in Tasks \ {t} : task[u].pc \notin Holding
      BY <1>3, <2>1
    <2>3. touched(t) /\ \A k \in cooldown' : k \in cooldown \/ (result = "permanent" /\ k = Key(t))
      BY DEF EndFlight, touched
    <2>4. Key(t)[2] = task[t].want
      BY DEF Key
    <2>5. HoldersClaim'
      <3>1. \A u \in Tasks : task'[u].pc \in Holding => u # t /\ task[u].pc \in Holding
        BY <1>1, <2>3 DEF Holding
      <3> QED
        BY <1>1, <2>1, <2>2, <3>1 DEF HoldersClaim, Unspoiled, Key
    <2>6. RowBacked'
      BY <1>1, <2>1 DEF RowBacked, Unspoiled, Unpersisted
    <2>7. RowApart'
      <3> SUFFICES ASSUME account # Gone
                   PROVE  /\ \A u \in Tasks : Accuses(task'[u]) => account.token # task'[u].want
                          /\ \A k \in cooldown' : account.token # k[2]
                          /\ \A u \in Tasks : task'[u].pc = "exchange" /\ account.token # task'[u].want
                               => tokens[account.token].login # tokens[task'[u].want].login
        BY DEF RowApart, Accuses, Told, Gone
      <3>1. \A u \in Tasks : Accuses(task'[u]) => account.token # task'[u].want
        BY <1>1, <2>1, <2>2 DEF RowApart, Unspoiled, Accuses, Told
      <3>2. \A k \in cooldown' : account.token # k[2]
        BY <2>1, <2>2, <2>3, <2>4 DEF RowApart, Unspoiled
      <3>3. \A u \in Tasks : task'[u].pc = "exchange" /\ account.token # task'[u].want
                               => tokens[account.token].login # tokens[task'[u].want].login
        BY <1>1, <2>1 DEF RowApart, Unspoiled
      <3> QED
        BY <3>1, <3>2, <3>3
    <2>8. NewApart'
      <3>1. \A u \in Tasks : task'[u].pc \in Unstored => task[u].pc \in Unstored
        BY <1>1 DEF Unstored
      <3> QED
        BY <1>1, <2>1, <2>3, <2>4, <3>1 DEF NewApart, Unspoiled
    <2> QED
      BY <2>5, <2>6, <2>7, <2>8 DEF Unspoiled
  <1> QED
    BY <1>2, <1>3 DEF HealthyInv

(* The fields of a refresh that the EXCEPTs of the steps leave alone. *)
LEMMA SameRefresh ==
    ASSUME IInv, NEW t \in Tasks, NEW p, NEW n, NEW x, NEW st
    PROVE  LET goto == [task[t] EXCEPT !.pc = p]
               next == [task[t] EXCEPT !.pc = p, !.tries = n]
               note == [task[t] EXCEPT !.pc = p, !.tries = n, !.seen = x, !.status = st]
           IN  /\ goto.pc = p /\ goto.want = task[t].want /\ goto.minted = task[t].minted
               /\ next.pc = p /\ next.want = task[t].want /\ next.minted = task[t].minted
               /\ note.pc = p /\ note.want = task[t].want /\ note.minted = task[t].minted
  BY DEF IInv, TasksOK, RecOK, TaskRecords

(* A caller's copy names the stored token and starts nothing. *)
LEMMA LoadAccountHealthy ==
    ASSUME IInv, HealthyInv, NEW t \in Tasks, LoadAccount(t)
    PROVE  HealthyInv'
  <1>0. PICK s : s = [Idle EXCEPT !.pc = "loaded", !.want = account.token,
                                  !.seen = Ciphertext(account), !.status = account.status]
    OBVIOUS
  <1>1. /\ account # Gone /\ UNCHANGED <<account, claim, tokens, usable, cooldown, spoiled>>
        /\ task[t].pc = "idle" /\ task' = [task EXCEPT ![t] = s]
    BY <1>0 DEF LoadAccount, environment
  <1>2. s.pc = "loaded" /\ s.want = account.token
    BY <1>0 DEF Idle
  <1>3. \A u \in Tasks : task'[u] = IF u = t THEN s ELSE task[u]
    BY <1>1 DEF IInv, TasksOK
  <1>4. OneFlight'
    BY <1>2, <1>3, FlightsGoOn DEF HealthyInv, Flying, Holding
  <1>5. ASSUME ~spoiled' PROVE Unspoiled'
    <2>1. Unspoiled
      BY <1>1, <1>5 DEF HealthyInv
    <2>2. HoldersClaim'
      BY <1>1, <1>2, <1>3, <2>1 DEF HoldersClaim, Unspoiled, Key, Holding
    <2>3. RowBacked'
      BY <1>1, <1>2, <1>3, <2>1 DEF RowBacked, Unspoiled, Unpersisted
    <2>4. RowApart'
      <3>1. \A u \in Tasks : Accuses(task[u])' => u # t /\ Accuses(task[u])
        BY <1>2, <1>3 DEF Accuses, Told
      <3>2. \A u \in Tasks : task'[u].pc = "exchange" => u # t /\ task[u].pc = "exchange"
        BY <1>2, <1>3
      <3> QED
        BY <1>1, <1>3, <2>1, <3>1, <3>2 DEF RowApart, Unspoiled
    <2>5. NewApart'
      <3>1. \A u \in Tasks : task'[u].pc \in Unstored => u # t /\ task[u].pc \in Unstored
        BY <1>2, <1>3 DEF Unstored
      <3> QED
        BY <1>1, <1>2, <1>3, <2>1, <3>1 DEF NewApart, Unspoiled
    <2> QED
      BY <2>2, <2>3, <2>4, <2>5 DEF Unspoiled
  <1> QED
    BY <1>4, <1>5 DEF HealthyInv

(* A caller starts a refresh only when none of the same token is running   *)
(* in its process, and meets no remembered failure of the stored token.    *)
LEMMA EnsureFreshHealthy ==
    ASSUME IInv, HealthyInv, NEW t \in Tasks, ensure_fresh(t)
    PROVE  HealthyInv'
  <1> DEFINE inFlight == \E u \in Tasks : task[u].pc \in Flying /\ Key(u) = Key(t)
  <1>1. /\ UNCHANGED <<account, claim, tokens, usable, spoiled>>
        /\ task[t].pc = "loaded" /\ cooldown' \subseteq cooldown
    BY DEF ensure_fresh, environment
  <1>2. PICK p : /\ task' = [task EXCEPT ![t] = [task[t] EXCEPT !.pc = p]]
                 /\ \/ p = "mark" /\ Key(t) \in cooldown
                    \/ p = "join" /\ inFlight
                    \/ p = "claim" /\ ~inFlight
    BY DEF ensure_fresh, Goto
  <1>3. PICK s : s = [task[t] EXCEPT !.pc = p]
    OBVIOUS
  <1>4. s.pc = p /\ s.want = task[t].want
    BY <1>3 DEF IInv, TasksOK, RecOK, TaskRecords
  <1>5. \A u \in Tasks : task'[u] = IF u = t THEN s ELSE task[u]
    BY <1>2, <1>3 DEF IInv, TasksOK
  <1>6. OneFlight'
    <2>1. \A u \in Tasks : Key(u)' = Key(u)
      BY <1>4, <1>5 DEF Key
    <2>2. p \in Flying => ~inFlight
      BY <1>2 DEF Flying, Holding
    <2> QED
      BY <1>4, <1>5, <2>1, <2>2 DEF OneFlight, HealthyInv
  <1>7. ASSUME ~spoiled' PROVE Unspoiled'
    <2>1. Unspoiled
      BY <1>1, <1>7 DEF HealthyInv
    <2>2. Key(t)[2] = s.want
      BY <1>4 DEF Key
    <2>3. p = "mark" /\ account # Gone => account.token # s.want
      BY <1>2, <2>1, <2>2 DEF Unspoiled, RowApart
    <2>4. HoldersClaim'
      BY <1>1, <1>2, <1>4, <1>5, <2>1 DEF HoldersClaim, Unspoiled, Key, Holding
    <2>5. RowBacked'
      BY <1>1, <1>4, <1>5, <2>1 DEF RowBacked, Unspoiled, Unpersisted
    <2>6. RowApart'
      <3>1. \A u \in Tasks : Accuses(task[u])' =>
                (u = t /\ p = "mark") \/ (u # t /\ Accuses(task[u]))
        BY <1>2, <1>4, <1>5 DEF Accuses, Told
      <3>2. \A u \in Tasks : task'[u].pc = "exchange" => u # t /\ task[u].pc = "exchange"
        BY <1>2, <1>4, <1>5
      <3> QED
        BY <1>1, <1>5, <2>1, <2>3, <3>1, <3>2 DEF RowApart, Unspoiled
    <2>7. NewApart'
      <3>1. \A u \in Tasks : task'[u].pc \in Unstored => u # t /\ task[u].pc \in Unstored
        BY <1>2, <1>4, <1>5 DEF Unstored
      <3> QED
        BY <1>1, <1>4, <1>5, <2>1, <3>1 DEF NewApart, Unspoiled
    <2> QED
      BY <2>4, <2>5, <2>6, <2>7 DEF Unspoiled
  <1> QED
    BY <1>6, <1>7 DEF HealthyInv

(* The claim is won only while nobody works under it. *)
LEMMA TryAcquireHealthy ==
    ASSUME IInv, HealthyInv, NEW t \in Tasks, try_acquire(t)
    PROVE  HealthyInv'
  <1>1. /\ UNCHANGED <<account, tokens, usable, cooldown, spoiled>> /\ task[t].pc = "claim"
    BY DEF try_acquire, environment
  <1>2. ASSUME ClaimFree(t), Unspoiled, NEW u \in Tasks, task[u].pc \in Holding PROVE FALSE
    <2>1. claim = Key(u) /\ Key(u) # None /\ task[u].pc \in Flying /\ task[t].pc \in Flying
      BY <1>1, <1>2, KeyIsClaim DEF Unspoiled, HoldersClaim, Holding, Flying
    <2>2. u = t
      BY <1>2, <2>1 DEF ClaimFree, HealthyInv, OneFlight
    <2> QED
      BY <1>1, <1>2, <2>2 DEF Holding
  <1>3. PICK p \in {"reread", "wait"} :
            /\ task' = [task EXCEPT ![t] = [task[t] EXCEPT !.pc = p]]
            /\ p = "reread" => ClaimFree(t) /\ claim' = Key(t)
            /\ p = "wait" => claim' = claim
    BY DEF try_acquire, Goto
  <1>4. PICK s : s = [task[t] EXCEPT !.pc = p]
    OBVIOUS
  <1>5. s.pc = p /\ s.want = task[t].want
    BY <1>4, SameRefresh
  <1>6. ~spoiled' /\ Unspoiled => MoveOK(t, s)
    BY <1>1, <1>2, <1>3, <1>5 DEF MoveOK, Unpersisted, Accuses, Told, Unstored, Holding
  <1>7. task[t].pc \in Flying
    BY <1>1 DEF Flying
  <1> QED
    BY <1>1, <1>3, <1>4, <1>5, <1>6, <1>7, HealthyMove

(* Waiting touches nothing. *)
LEMMA WaitHealthy ==
    ASSUME IInv, HealthyInv, NEW t \in Tasks, wait_for_peer(t)
    PROVE  HealthyInv'
  <1>1. /\ UNCHANGED <<account, claim, tokens, usable, spoiled>> /\ task[t].pc = "wait"
        /\ task[t].pc \in Flying /\ ~Unpersisted(t)
    BY DEF wait_for_peer, environment, Flying, Unpersisted
  <1>2. CASE EndFlight(t, "adopted") \/ EndFlight(t, "transient")
    BY <1>1, <1>2, HealthyEnd
  <1>3. CASE Goto(t, "claim") /\ UNCHANGED cooldown
    <2>1. PICK s : s = [task[t] EXCEPT !.pc = "claim"]
      OBVIOUS
    <2>2. task' = [task EXCEPT ![t] = s] /\ s.pc = "claim" /\ s.want = task[t].want
      BY <1>3, <2>1, SameRefresh DEF Goto
    <2>3. MoveOK(t, s)
      BY <1>1, <2>2 DEF MoveOK, Accuses, Told, Unstored, Holding
    <2> QED
      BY <1>1, <1>3, <2>2, <2>3, HealthyMove
  <1> QED
    BY <1>2, <1>3 DEF wait_for_peer

(* Under the claim: an unspoiled row shows no terminal status. *)
LEMMA RereadHealthy ==
    ASSUME IInv, HealthyInv, NEW t \in Tasks, reread_under_claim(t)
    PROVE  HealthyInv'
  <1>1. /\ UNCHANGED <<account, claim, tokens, usable, cooldown, spoiled>> /\ task[t].pc = "reread"
        /\ task[t].pc \in Holding /\ ~Unpersisted(t)
    BY DEF reread_under_claim, environment, Holding, Unpersisted
  <1>2. CASE Leave(t, "adopted") \/ Leave(t, "transient")
    BY <1>1, <1>2, HealthyLeave
  <1>3. CASE account # Gone /\ account.status = "reauth" /\ Leave(t, "permanent")
    <2>1. ~spoiled' => ~Unspoiled
      BY <1>1, <1>3 DEF Unspoiled, RowBacked
    <2> QED
      BY <1>1, <1>3, <2>1, HealthyLeave
  <1>4. CASE account = Gone /\ Goto(t, "exchange")
    <2>1. PICK s : s = [task[t] EXCEPT !.pc = "exchange"]
      OBVIOUS
    <2>2. /\ task' = [task EXCEPT ![t] = s] /\ s.pc = "exchange"
          /\ s.want = task[t].want /\ s.minted = task[t].minted
      BY <1>4, <2>1, SameRefresh DEF Goto
    <2> QED
      BY <1>1, <1>4, <2>2, HealthyGoOn
  <1>5. CASE account # Gone /\ ~Rotated(task[t].want) /\ Note(t, "exchange", 0)
    <2>1. PICK s : s = [task[t] EXCEPT !.pc = "exchange", !.tries = 0,
                                       !.seen = Ciphertext(account), !.status = account.status]
      OBVIOUS
    <2>a. task' = [task EXCEPT ![t] = s]
      BY <1>5, <2>1 DEF Note
    <2>2. s.pc = "exchange" /\ s.want = task[t].want /\ s.minted = task[t].minted
      BY <2>1, SameRefresh
    <2>3. account.token = s.want
      BY <1>5, <2>2 DEF Rotated
    <2> QED
      BY <1>1, <1>5, <2>a, <2>2, <2>3, HealthyGoOn
  <1> QED
    BY <1>2, <1>3, <1>4, <1>5 DEF reread_under_claim

(* The one holder releases; nobody else depends on the claim. *)
LEMMA ReleaseHealthy ==
    ASSUME IInv, HealthyInv, NEW t \in Tasks, release(t)
    PROVE  HealthyInv'
  <1>1. /\ UNCHANGED <<account, tokens, usable, spoiled>> /\ task[t].pc = "release"
        /\ task[t].pc \in Holding /\ task[t].pc \in Flying /\ ~Unpersisted(t)
        /\ EndFlight(t, task[t].result)
    BY DEF release, environment, Holding, Flying, Unpersisted
  <1>2. ASSUME Unspoiled
        PROVE  /\ task[t].result = "permanent" => account = Gone \/ account.token # task[t].want
               /\ \A u \in Tasks \ {t} : task[u].pc \notin Holding
    <2>1. \A u \in Tasks \ {t} : task[u].pc \notin Holding
      BY <1>1, <1>2, OnlyHolder DEF HealthyInv, Unspoiled
    <2> QED
      BY <1>1, <1>2, <2>1 DEF Unspoiled, RowApart, Accuses, Told
  <1>3. PICK result : result = task[t].result
    OBVIOUS
  <1> QED
    BY <1>1, <1>2, <1>3, HealthyEnd

(* Steps that note the row: again about the same token. *)
LEMMA NoteHealthy ==
    ASSUME IInv, HealthyInv, NEW t \in Tasks, task[t].pc \in Holding, NEW p, NEW n, Note(t, p, n),
           UNCHANGED <<account, tokens, usable, cooldown, claim>>, spoiled => spoiled',
           \/ p \in Unstored /\ task[t].pc \in Unstored
           \/ p \in {"flag", "flag_write"}
           \/ /\ p = "denied_write" /\ ~Unpersisted(t)
              /\ ~spoiled' /\ Unspoiled => account = Gone \/ account.token # task[t].want
    PROVE  HealthyInv'
  <1>1. PICK s : s = [task[t] EXCEPT !.pc = p, !.tries = n,
                                     !.seen = Ciphertext(account), !.status = account.status]
    OBVIOUS
  <1>2. task' = [task EXCEPT ![t] = s]
    BY <1>1 DEF Note
  <1>3. s.pc = p /\ s.want = task[t].want /\ s.minted = task[t].minted
    BY <1>1, SameRefresh
  <1> QED
    BY <1>2, <1>3, HealthyGoOn

(* After a miss the refresh leaves only when the row moved on. *)
LEMMA PersistRereadHealthy ==
    ASSUME IInv, HealthyInv, NEW t \in Tasks, persist_reread(t)
    PROVE  HealthyInv'
  <1>1. /\ UNCHANGED <<account, claim, tokens, usable, cooldown, spoiled>>
        /\ task[t].pc = "persist_reread" /\ task[t].pc \in Holding /\ task[t].pc \in Unstored
        /\ task[t].seen[1] = task[t].want
    BY DEF persist_reread, environment, Holding, Unstored, IInv, TasksOK, RecOK
  <1>2. CASE \/ account = Gone /\ Leave(t, "refreshed")
             \/ Rotated(task[t].seen[1]) /\ Leave(t, "adopted")
    <2>1. account = Gone \/ account.token # task[t].want
      BY <1>1, <1>2 DEF Rotated
    <2> QED
      BY <1>1, <1>2, <2>1, HealthyLeave
  <1>3. CASE \E n : Note(t, "persist", n) \/ Note(t, "flag", 0)
    BY <1>1, <1>3, NoteHealthy DEF Unstored
  <1> QED
    BY <1>2, <1>3 DEF persist_reread

(* The same before the flag. *)
LEMMA FlagConflictHealthy ==
    ASSUME IInv, HealthyInv, NEW t \in Tasks, flag_persist_conflict(t)
    PROVE  HealthyInv'
  <1>1. /\ UNCHANGED <<account, claim, tokens, usable, cooldown, spoiled>>
        /\ task[t].pc = "flag" /\ task[t].pc \in Holding /\ task[t].seen[1] = task[t].want
    BY DEF flag_persist_conflict, environment, Holding, IInv, TasksOK, RecOK
  <1>2. CASE \/ account = Gone /\ Leave(t, "refreshed")
             \/ Rotated(task[t].seen[1]) /\ Leave(t, "adopted")
    <2>1. account = Gone \/ account.token # task[t].want
      BY <1>1, <1>2 DEF Rotated
    <2> QED
      BY <1>1, <1>2, <2>1, HealthyLeave
  <1>3. CASE Note(t, "flag_write", task[t].tries)
    BY <1>1, <1>3, NoteHealthy
  <1> QED
    BY <1>2, <1>3 DEF flag_persist_conflict

(* Writing the flag, or giving up, spoils; another try does not. *)
LEMMA WriteConflictHealthy ==
    ASSUME IInv, HealthyInv, NEW t \in Tasks, write_conflict_flag(t)
    PROVE  HealthyInv'
  <1>1. /\ UNCHANGED <<claim, tokens, usable, cooldown>>
        /\ task[t].pc = "flag_write" /\ task[t].pc \in Holding /\ (spoiled => spoiled')
    BY DEF write_conflict_flag, environment, Holding
  <1>2. ASSUME NEW result, Leave(t, result) PROVE HealthyInv'
    <2>1. PICK s : s = [task[t] EXCEPT !.pc = "release", !.result = result]
      OBVIOUS
    <2>2. s.pc = "release" /\ s.want = task[t].want
      BY <2>1 DEF IInv, TasksOK, RecOK, TaskRecords
    <2>3. \A u \in Tasks : task'[u] = IF u = t THEN s ELSE task[u]
      BY <1>2, <2>1 DEF IInv, TasksOK, Leave
    <2>4. spoiled'
      BY <2>2, <2>3 DEF write_conflict_flag
    <2>5. OneFlight'
      <3>1. task[t].pc \in Flying
        BY <1>1 DEF Flying
      <3> QED
        BY <2>2, <2>3, <3>1, FlightsGoOn DEF HealthyInv
    <2> QED
      BY <2>4, <2>5 DEF HealthyInv
  <1>3. CASE UNCHANGED account /\ task' = [task EXCEPT ![t].pc = "flag", ![t].tries = @ + 1]
    <2>1. PICK s : s = [task[t] EXCEPT !.pc = "flag", !.tries = task[t].tries + 1]
      OBVIOUS
    <2>2. task' = [task EXCEPT ![t] = s]
      BY <1>3, <2>1
    <2>3. s.pc = "flag" /\ s.want = task[t].want /\ s.minted = task[t].minted
      BY <2>1, SameRefresh
    <2> QED
      BY <1>1, <1>3, <2>2, <2>3, HealthyGoOn
  <1> QED
    BY <1>2, <1>3 DEF write_conflict_flag

(* A refused token is not the stored one, unless something was spoiled. *)
LEMMA HandleFailureHealthy ==
    ASSUME IInv, HealthyInv, NEW t \in Tasks, handle_permanent_failure(t)
    PROVE  HealthyInv'
  <1>1. /\ UNCHANGED <<account, claim, tokens, usable, cooldown, spoiled>>
        /\ task[t].pc = "denied" /\ task[t].pc \in Holding /\ ~Unpersisted(t)
    BY DEF handle_permanent_failure, environment, Holding, Unpersisted
  <1>2. Unspoiled => account = Gone \/ account.token # task[t].want
    BY <1>1 DEF Unspoiled, RowApart, Accuses
  <1>3. CASE Leave(t, "permanent") \/ Leave(t, "adopted") \/ Leave(t, "transient")
    BY <1>1, <1>2, <1>3, HealthyLeave
  <1>4. CASE Note(t, "denied_write", task[t].tries)
    BY <1>1, <1>2, <1>4, NoteHealthy
  <1> QED
    BY <1>3, <1>4 DEF handle_permanent_failure

(* So its flag never finds the row as seen. *)
LEMMA WriteFailureHealthy ==
    ASSUME IInv, HealthyInv, NEW t \in Tasks, write_permanent_failure(t)
    PROVE  HealthyInv'
  <1>1. /\ UNCHANGED <<claim, tokens, usable, cooldown, spoiled>> /\ task[t].seen[1] = task[t].want
        /\ task[t].pc = "denied_write" /\ task[t].pc \in Holding /\ ~Unpersisted(t)
    BY DEF write_permanent_failure, environment, Holding, Unpersisted, IInv, TasksOK, RecOK
  <1>2. Unspoiled => account = Gone \/ account.token # task[t].want
    BY <1>1 DEF Unspoiled, RowApart, Accuses
  <1>3. CASE ~StatusAsSeen(t)
    <2>0. UNCHANGED account /\ task' = [task EXCEPT ![t].pc = "denied", ![t].tries = @ + 1]
      BY <1>3 DEF write_permanent_failure
    <2>1. PICK s : s = [task[t] EXCEPT !.pc = "denied", !.tries = task[t].tries + 1]
      OBVIOUS
    <2>2. task' = [task EXCEPT ![t] = s]
      BY <2>0, <2>1
    <2>3. s.pc = "denied" /\ s.want = task[t].want /\ s.minted = task[t].minted
      BY <2>1, SameRefresh
    <2> QED
      BY <1>1, <1>2, <2>0, <2>2, <2>3, HealthyGoOn
  <1>4. CASE StatusAsSeen(t)
    <2>1. account # Gone /\ account.token = task[t].want
      BY <1>1, <1>4 DEF StatusAsSeen, StoredAsSeen, Ciphertext
    <2>2. spoiled'
      BY <1>1, <1>2, <2>1 DEF HealthyInv
    <2>3. PICK s : s = [task[t] EXCEPT !.pc = "release", !.result = "permanent"]
      OBVIOUS
    <2>4. s.want = task[t].want
      BY <2>3 DEF IInv, TasksOK, RecOK, TaskRecords
    <2>5. \A u \in Tasks : task'[u] = IF u = t THEN s ELSE task[u]
      BY <1>4, <2>3 DEF IInv, TasksOK, Leave, write_permanent_failure
    <2>6. OneFlight'
      <3>1. task[t].pc \in Flying
        BY <1>1 DEF Flying
      <3> QED
        BY <2>4, <2>5, <3>1, FlightsGoOn DEF HealthyInv
    <2> QED
      BY <2>2, <2>6 DEF HealthyInv
  <1> QED
    BY <1>3, <1>4

(* Nor does the mark of a caller that was told. *)
LEMMA MarkHealthy ==
    ASSUME IInv, HealthyInv, NEW t \in Tasks, mark_permanent_failure(t)
    PROVE  HealthyInv'
  <1>1. /\ UNCHANGED <<claim, tokens, usable, cooldown, spoiled>> /\ task[t].seen[1] = task[t].want
        /\ task[t].pc = "mark" /\ ~Unpersisted(t)
    BY DEF mark_permanent_failure, environment, Unpersisted, IInv, TasksOK, RecOK
  <1>2. PICK s : s = [task[t] EXCEPT !.pc = "done"]
    OBVIOUS
  <1>3. task' = [task EXCEPT ![t] = s]
    BY <1>2 DEF mark_permanent_failure, Goto
  <1>4. s.pc = "done" /\ s.want = task[t].want
    BY <1>2, SameRefresh
  <1>5. CASE StatusAsSeen(t)
    <2>1. account # Gone /\ account.token = task[t].want
      BY <1>1, <1>5 DEF StatusAsSeen, StoredAsSeen, Ciphertext
    <2>2. spoiled'
      BY <1>1, <2>1 DEF HealthyInv, Unspoiled, RowApart, Accuses
    <2>3. \A u \in Tasks : task'[u] = IF u = t THEN s ELSE task[u]
      BY <1>3 DEF IInv, TasksOK
    <2>4. OneFlight'
      BY <1>4, <2>3, FlightsGoOn DEF HealthyInv, Flying, Holding
    <2> QED
      BY <2>2, <2>4 DEF HealthyInv
  <1>6. CASE ~StatusAsSeen(t)
    <2>1. UNCHANGED account
      BY <1>6 DEF mark_permanent_failure
    <2>2. MoveOK(t, s) /\ s.pc \notin Flying
      BY <1>1, <1>4 DEF MoveOK, Accuses, Told, Unstored, Holding, Flying
    <2> QED
      BY <1>1, <1>3, <1>4, <2>1, <2>2, HealthyMove
  <1> QED
    BY <1>5, <1>6

(* A raised statement: a new token lost with it spoils. *)
LEMMA DatabaseErrorHealthy ==
    ASSUME IInv, HealthyInv, NEW t \in Tasks, DatabaseError(t)
    PROVE  HealthyInv'
  <1>1. /\ UNCHANGED <<account, claim, tokens, usable>> /\ task[t].pc \in Flying
        /\ spoiled' = (spoiled \/ Unpersisted(t))
    BY DEF DatabaseError, environment
  <1>2. CASE task[t].pc \in Holding /\ Leave(t, "transient") /\ UNCHANGED cooldown
    BY <1>1, <1>2, HealthyLeave
  <1>3. CASE task[t].pc \notin Holding /\ EndFlight(t, "transient")
    <2>1. ~Unpersisted(t)
      BY <1>3 DEF Unpersisted, Holding
    <2> QED
      BY <1>1, <1>3, <2>1, HealthyEnd
  <1> QED
    BY <1>2, <1>3 DEF DatabaseError

(* One refresh changes, still about its token; the rest is spoiled or not. *)
LEMMA FlightOfOne ==
    ASSUME IInv, HealthyInv, NEW t \in Tasks, task[t].pc \in Flying, NEW s,
           s.want = task[t].want, task' = [task EXCEPT ![t] = s]
    PROVE  OneFlight' /\ \A u \in Tasks : task'[u] = IF u = t THEN s ELSE task[u]
  <1>1. \A u \in Tasks : task'[u] = IF u = t THEN s ELSE task[u]
    BY DEF IInv, TasksOK
  <1> QED
    BY <1>1, FlightsGoOn DEF HealthyInv

(* The exchange: only the one holder of the claim makes it, so the stored  *)
(* token dies with its successor in that holder's hand, or not at all.     *)
LEMMA ExchangeHealthy ==
    ASSUME IInv, HealthyInv, NEW t \in Tasks, exchange(t)
    PROVE  HealthyInv'
  <1>0. PICK r, n : r = task[t] /\ n = MaxToken
    OBVIOUS
  <1>1. /\ RecOK(r) /\ r.pc = "exchange" /\ r.seen[1] = r.want /\ r.want \in 1..n /\ n \in Nat
        /\ task[t].pc \in Holding /\ task[t].pc \in Flying /\ ~Unpersisted(t) /\ EnvOK
    BY <1>0 DEF IInv, TasksOK, RecOK, exchange, EnvOK, MaxToken, Holding, Flying, Unpersisted
  <1>2. UNCHANGED <<account, claim, cooldown>>
    BY DEF exchange
  <1>3. CASE /\ r.want \in usable /\ Mint(r.want) /\ UNCHANGED spoiled
             /\ task' = [task EXCEPT ![t].pc = "persist", ![t].minted = MaxToken + 1]
    <2>1. PICK s : s = [r EXCEPT !.pc = "persist", !.minted = n + 1]
      OBVIOUS
    <2>2. task' = [task EXCEPT ![t] = s]
      BY <1>0, <1>3, <2>1
    <2>3. s.pc = "persist" /\ s.minted = n + 1 /\ s.want = r.want
      BY <1>1, <2>1 DEF RecOK, TaskRecords
    <2>4. OneFlight' /\ \A u \in Tasks : task'[u] = IF u = t THEN s ELSE task[u]
      BY <1>0, <1>1, <2>2, <2>3, FlightOfOne
    <2>5. ASSUME ~spoiled' PROVE Unspoiled'
      <3>1. Unspoiled
        BY <1>3, <2>5 DEF HealthyInv
      <3>2. \A u \in Tasks : u # t => task[u].pc \notin Holding
        BY <1>1, <3>1, OnlyHolder DEF HealthyInv, Unspoiled
      <3>3. usable' = (usable \ {r.want}) \cup {n + 1}
        BY <1>0, <1>3 DEF Mint
      <3>4. \A u \in Tasks : task[u].want \in 0..n /\ task[u].want # n + 1
        BY <1>0, <1>1 DEF IInv, TasksOK, RecOK, TaskRecords
      <3>5. \A k \in cooldown : k[2] # n + 1
        <4>1. \A k \in cooldown : k[2] \in 1..n
          BY <1>0 DEF IInv, KeyOK
        <4> QED
          BY <1>1, <4>1
      <3>6. account # Gone => account.token # n + 1
        <4>1. account # Gone => account.token \in 1..n
          BY <1>0 DEF IInv, RowOK, Rows
        <4> QED
          BY <1>1, <4>1
      <3>7. HoldersClaim'
        BY <1>0, <1>1, <1>2, <2>3, <2>4, <3>1 DEF HoldersClaim, Unspoiled, Key
      <3>8. RowBacked'
        <4>1. account # Gone /\ account.token # r.want => account.token \in usable
          BY <1>0, <3>1, <3>2 DEF Unspoiled, RowBacked, Unpersisted, Holding
        <4>2. Unpersisted(t)' /\ task'[t].want = r.want
          BY <2>3, <2>4 DEF Unpersisted
        <4> QED
          BY <1>2, <3>1, <3>3, <4>1, <4>2 DEF RowBacked, Unspoiled, Gone
      <3>9. RowApart'
        <4>1. \A u \in Tasks : Accuses(task[u])' => u # t /\ Accuses(task[u])
          BY <2>3, <2>4 DEF Accuses, Told
        <4>2. \A u \in Tasks : task'[u].pc # "exchange"
          BY <2>3, <2>4, <3>2 DEF Holding
        <4> QED
          BY <1>2, <2>4, <3>1, <4>1, <4>2 DEF RowApart, Unspoiled, Gone
      <3>10. NewApart'
        <4>1. \A u \in Tasks : task'[u].pc \in Unstored => u = t
          BY <2>4, <3>2 DEF Unstored, Holding
        <4>2. \A u \in Tasks : task'[u].want = task[u].want
          BY <1>0, <2>3, <2>4
        <4> QED
          BY <1>2, <2>3, <2>4, <3>3, <3>4, <3>5, <3>6, <4>1, <4>2 DEF NewApart, Gone
      <3> QED
        BY <3>7, <3>8, <3>9, <3>10 DEF Unspoiled
    <2> QED
      BY <2>4, <2>5 DEF HealthyInv
  <1>4. CASE Leave(t, "transient") /\ spoiled' = TRUE
    <2>1. PICK s : s = [r EXCEPT !.pc = "release", !.result = "transient"]
      OBVIOUS
    <2>2. task' = [task EXCEPT ![t] = s] /\ s.want = r.want
      BY <1>0, <1>1, <1>4, <2>1 DEF Leave, RecOK, TaskRecords
    <2>3. OneFlight'
      BY <1>0, <1>1, <2>2, FlightOfOne
    <2> QED
      BY <1>4, <2>3 DEF HealthyInv
  <1>5. CASE /\ r.want \notin usable /\ Goto(t, "denied") /\ UNCHANGED <<tokens, spoiled>>
             /\ usable' \in {usable, {g \in usable : tokens[g].login # tokens[r.want].login}}
    <2>1. PICK s : s = [r EXCEPT !.pc = "denied"]
      OBVIOUS
    <2>2. task' = [task EXCEPT ![t] = s] /\ s.want = r.want /\ s.pc = "denied"
      BY <1>0, <1>1, <1>5, <2>1 DEF Goto, RecOK, TaskRecords
    <2>3. OneFlight' /\ \A u \in Tasks : task'[u] = IF u = t THEN s ELSE task[u]
      BY <1>0, <1>1, <2>2, FlightOfOne
    <2>4. ASSUME ~spoiled' PROVE Unspoiled'
      <3>1. Unspoiled
        BY <1>5, <2>4 DEF HealthyInv
      <3>2. \A u \in Tasks : u # t => task[u].pc \notin Holding
        BY <1>1, <3>1, OnlyHolder DEF HealthyInv, Unspoiled
      <3>3. account # Gone => account.token \in usable
        BY <1>0, <1>1, <3>1, <3>2 DEF Unspoiled, RowBacked, Unpersisted, Holding
      <3>4. account # Gone => account.token # r.want /\ account.token \in usable'
        <4>1. account # Gone => account.token # r.want
          BY <1>5, <3>3
        <4>2. account # Gone => tokens[account.token].login # tokens[r.want].login
          BY <1>0, <1>1, <3>1, <4>1 DEF Unspoiled, RowApart
        <4> QED
          BY <1>5, <3>3, <4>1, <4>2
      <3>5. HoldersClaim'
        BY <1>0, <1>1, <1>2, <2>2, <2>3, <3>1 DEF HoldersClaim, Unspoiled, Key
      <3>6. RowBacked'
        BY <1>2, <3>1, <3>4 DEF RowBacked, Unspoiled, Gone
      <3>7. RowApart'
        <4>1. \A u \in Tasks : Accuses(task[u])' => u = t \/ (u # t /\ Accuses(task[u]))
          BY <2>2, <2>3 DEF Accuses, Told
        <4>2. \A u \in Tasks : task'[u].pc # "exchange"
          BY <2>2, <2>3, <3>2 DEF Holding
        <4> QED
          BY <1>2, <2>2, <2>3, <3>1, <3>4, <4>1, <4>2 DEF RowApart, Unspoiled, Gone
      <3>8. NewApart'
        <4>1. \A u \in Tasks : task'[u].pc \notin Unstored
          BY <2>2, <2>3, <3>2 DEF Unstored, Holding
        <4> QED
          BY <4>1 DEF NewApart
      <3> QED
        BY <3>5, <3>6, <3>7, <3>8 DEF Unspoiled
    <2> QED
      BY <2>3, <2>4 DEF HealthyInv
  <1>6. CASE Leave(t, "transient") /\ UNCHANGED <<tokens, usable, spoiled>>
    BY <1>1, <1>2, <1>6, HealthyLeave
  <1> QED
    BY <1>0, <1>1, <1>3, <1>4, <1>5, <1>6 DEF exchange

(* The successor takes the place of the stored token: it works, and nobody *)
(* blames it.                                                              *)
LEMMA RotateHealthy ==
    ASSUME IInv, HealthyInv, NEW t \in Tasks, rotate_tokens(t)
    PROVE  HealthyInv'
  <1>0. PICK r, m : r = task[t] /\ m = task[t].minted
    OBVIOUS
  <1>1. /\ RecOK(r) /\ r.pc = "persist" /\ task[t].pc \in Holding /\ task[t].pc \in Flying
        /\ task[t].pc \in Unstored /\ UNCHANGED <<claim, usable, cooldown, spoiled>>
    BY <1>0 DEF IInv, TasksOK, rotate_tokens, Holding, Flying, Unstored
  <1>2. CASE ~StoredAsSeen(t)
    <2>1. PICK s : s = [task[t] EXCEPT !.pc = "persist_reread"]
      OBVIOUS
    <2>2. task' = [task EXCEPT ![t] = s] /\ UNCHANGED <<account, tokens>>
      BY <1>2, <2>1 DEF rotate_tokens, Goto
    <2>3. s.pc = "persist_reread" /\ s.want = task[t].want /\ s.minted = task[t].minted
      BY <2>1, SameRefresh
    <2> QED
      BY <1>1, <2>2, <2>3, HealthyGoOn DEF Unstored
  <1>3. CASE StoredAsSeen(t)
    <2>1. PICK s : s = [r EXCEPT !.pc = "release", !.result = "refreshed"]
      OBVIOUS
    <2>2. task' = [task EXCEPT ![t] = s] /\ s.want = r.want /\ s.pc = "release" /\ s.result = "refreshed"
      BY <1>0, <1>1, <1>3, <2>1 DEF rotate_tokens, Leave, RecOK, TaskRecords
    <2>3. OneFlight' /\ \A u \in Tasks : task'[u] = IF u = t THEN s ELSE task[u]
      BY <1>0, <1>1, <2>2, FlightOfOne
    <2>4. /\ account # Gone /\ account' # Gone /\ account'.token = m /\ account'.status = account.status
      <3>1. account # Gone /\ account' = [account EXCEPT !.token = m, !.encryption = 0]
        BY <1>0, <1>3 DEF rotate_tokens, StoredAsSeen
      <3>2. account \in Rows /\ m \in 1..MaxToken
        BY <1>0, <1>1, <3>1 DEF IInv, RowOK, RecOK, Unstored
      <3>3. m # 0
        BY <3>2
      <3>4. account'.token = m /\ account'.status = account.status
        BY <3>1, <3>2 DEF Rows
      <3> QED
        BY <3>1, <3>3, <3>4 DEF Gone
    <2>5. ASSUME ~spoiled' PROVE Unspoiled'
      <3>1. Unspoiled
        BY <1>1, <2>5 DEF HealthyInv
      <3>2. \A u \in Tasks : u # t => task[u].pc \notin Holding
        BY <1>1, <3>1, OnlyHolder DEF HealthyInv, Unspoiled
      <3>3. /\ m \in usable /\ \A u \in Tasks : task[u].want # m
            /\ \A k \in cooldown : k[2] # m
        BY <1>0, <1>1, <3>1 DEF Unspoiled, NewApart
      <3>4. HoldersClaim'
        BY <1>0, <1>1, <2>2, <2>3, <3>1 DEF HoldersClaim, Unspoiled, Key
      <3>5. RowBacked'
        BY <1>1, <2>4, <3>1, <3>3 DEF RowBacked, Unspoiled
      <3>6. RowApart'
        <4>1. \A u \in Tasks : task'[u].want # m /\ task'[u].pc # "exchange"
          BY <1>0, <2>2, <2>3, <3>2, <3>3 DEF Holding
        <4> QED
          BY <1>1, <2>4, <3>3, <4>1 DEF RowApart
      <3>7. NewApart'
        <4>1. \A u \in Tasks : task'[u].pc \notin Unstored
          BY <2>2, <2>3, <3>2 DEF Unstored, Holding
        <4> QED
          BY <4>1 DEF NewApart
      <3> QED
        BY <3>4, <3>5, <3>6, <3>7 DEF Unspoiled
    <2> QED
      BY <2>3, <2>5 DEF HealthyInv
  <1> QED
    BY <1>2, <1>3

(* A crash that takes no new token along leaves the others as they were. *)
LEMMA CrashHealthy ==
    ASSUME IInv, HealthyInv, NEW p \in Processes, Crash(p)
    PROVE  HealthyInv'
  <1>0. PICK s : s = [Idle EXCEPT !.pc = "done"]
    OBVIOUS
  <1>1. s.pc = "done" /\ s.want = 0
    BY <1>0 DEF Idle
  <1>2. \A u \in Tasks : task'[u] = IF ProcessOf[u] = p THEN s ELSE task[u]
    BY <1>0 DEF Crash
  <1>3. /\ UNCHANGED <<account, claim, tokens, usable>> /\ cooldown' \subseteq cooldown
        /\ spoiled' = (spoiled \/ \E t \in Tasks : ProcessOf[t] = p /\ Unpersisted(t))
    BY DEF Crash
  <1>4. \A u \in Tasks : task'[u] = task[u] \/ (task'[u].pc = "done" /\ task'[u].want = 0)
    BY <1>1, <1>2
  <1>5. OneFlight'
    BY <1>4, FlightsGoOn DEF HealthyInv, Flying, Holding
  <1>6. ASSUME ~spoiled' PROVE Unspoiled'
    <2>1. Unspoiled
      BY <1>3, <1>6 DEF HealthyInv
    <2>2. \A u \in Tasks : Unpersisted(u) => task'[u] = task[u]
      BY <1>2, <1>3, <1>6
    <2>3. HoldersClaim'
      BY <1>3, <1>4, <2>1 DEF HoldersClaim, Unspoiled, Key, Holding
    <2>4. RowBacked'
      BY <1>3, <2>1, <2>2 DEF RowBacked, Unspoiled, Unpersisted, Gone
    <2>5. RowApart'
      <3>1. \A u \in Tasks : Accuses(task[u])' => task'[u] = task[u] /\ Accuses(task[u])
        BY <1>4 DEF Accuses, Told
      <3>2. \A u \in Tasks : task'[u].pc = "exchange" => task'[u] = task[u]
        BY <1>4
      <3> QED
        BY <1>3, <2>1, <3>1, <3>2 DEF RowApart, Unspoiled, Gone
    <2>6. NewApart'
      <3>1. \A u \in Tasks : task'[u].pc \in Unstored => task'[u] = task[u] /\ task[u].minted # 0
        <4>1. \A u \in Tasks : task'[u].pc \in Unstored => task'[u] = task[u]
          BY <1>4 DEF Unstored
        <4>2. \A u \in Tasks : task[u].pc \in Unstored => task[u].minted \in 1..MaxToken
          BY DEF IInv, TasksOK, RecOK
        <4> QED
          BY <4>1, <4>2
      <3> QED
        BY <1>3, <1>4, <2>1, <3>1 DEF NewApart, Unspoiled, Gone
    <2> QED
      BY <2>3, <2>4, <2>5, <2>6 DEF Unspoiled
  <1> QED
    BY <1>5, <1>6 DEF HealthyInv

(* An expiry that spoils nothing expires a claim nobody works under. *)
LEMMA ClaimExpiresHealthy ==
    ASSUME IInv, HealthyInv, ClaimExpires
    PROVE  HealthyInv'
  <1>1. /\ UNCHANGED <<account, task, tokens, usable, cooldown>>
        /\ \/ spoiled' = TRUE
           \/ spoiled' = spoiled /\ \A t \in Tasks : ~(task[t].pc \in Holding /\ Key(t) = claim)
    BY DEF ClaimExpires, environment
  <1>2. OneFlight'
    BY <1>1, FlightsGoOn DEF HealthyInv
  <1>3. ASSUME ~spoiled' PROVE Unspoiled'
    <2>1. Unspoiled /\ \A t \in Tasks : task[t].pc \notin Holding
      BY <1>1, <1>3 DEF HealthyInv, Unspoiled, HoldersClaim
    <2>2. HoldersClaim'
      BY <1>1, <2>1 DEF HoldersClaim
    <2>3. RowBacked' /\ RowApart' /\ NewApart'
      BY <1>1, <2>1 DEF Unspoiled, RowBacked, RowApart, NewApart, Unpersisted, Accuses, Told, Gone
    <2> QED
      BY <2>2, <2>3 DEF Unspoiled
  <1> QED
    BY <1>2, <1>3 DEF HealthyInv

(* A sign-in stores a working token that nobody knows. *)
LEMMA SignInHealthy ==
    ASSUME IInv, HealthyInv, SignIn
    PROVE  HealthyInv'
  <1>0. PICK n, new : n = MaxToken /\ new = [from |-> 0, login |-> MaxToken + 1, stranded |-> FALSE]
    OBVIOUS
  <1>1. EnvOK /\ n \in Nat /\ UNCHANGED <<claim, task, cooldown, spoiled>>
    BY <1>0 DEF IInv, EnvOK, MaxToken, SignIn
  <1>2. new \in TokenRecords /\ new.login = n + 1
    BY <1>0, <1>1 DEF TokenRecords
  <1>3. tokens'[n + 1] = new /\ \A g \in 1..n : tokens'[g] = tokens[g]
    BY <1>0, <1>1, <1>2 DEF SignIn, EnvOK, MaxToken
  <1>4. /\ usable' = usable \cup {n + 1} /\ account # Gone
        /\ account' = [token |-> n + 1, encryption |-> 0, status |-> "active"]
    BY <1>0 DEF SignIn
  <1>5. account'.token = n + 1 /\ account'.status = "active"
    BY <1>4
  <1>6. OneFlight'
    BY <1>1, FlightsGoOn DEF HealthyInv
  <1>7. ASSUME ~spoiled' PROVE Unspoiled'
    <2>1. Unspoiled
      BY <1>1, <1>7 DEF HealthyInv
    <2>2. \A u \in Tasks : task[u].want \in 0..n /\ task[u].want # n + 1
      BY <1>0, <1>1 DEF IInv, TasksOK, RecOK, TaskRecords
    <2>3. \A k \in cooldown : k[2] # n + 1
      <3>1. \A k \in cooldown : k[2] \in 1..n
        BY <1>0 DEF IInv, KeyOK
      <3> QED
        BY <1>1, <3>1
    <2>4. \A u \in Tasks : task[u].pc \in Unstored => task[u].minted # n + 1
      <3>1. \A u \in Tasks : task[u].pc \in Unstored => task[u].minted \in 1..n
        BY <1>0 DEF IInv, TasksOK, RecOK
      <3> QED
        BY <1>1, <3>1
    <2>5. HoldersClaim'
      BY <1>1, <2>1 DEF HoldersClaim, Unspoiled, Key
    <2>6. RowBacked'
      BY <1>4, <1>5 DEF RowBacked
    <2>7. RowApart'
      <3>1. \A u \in Tasks : task[u].pc = "exchange" => tokens'[task[u].want].login # n + 1
        <4> SUFFICES ASSUME NEW u \in Tasks, task[u].pc = "exchange"
                     PROVE  tokens'[task[u].want].login # n + 1
          OBVIOUS
        <4>1. task[u].want \in 1..n
          BY <1>0 DEF IInv, TasksOK, RecOK
        <4>2. tokens[task[u].want].login \in 1..n
          BY <1>0, <1>1, <4>1 DEF EnvOK
        <4> QED
          BY <1>1, <1>3, <4>1, <4>2
      <3> QED
        BY <1>1, <1>2, <1>3, <1>5, <2>2, <2>3, <3>1 DEF RowApart
    <2>8. NewApart'
      BY <1>1, <1>4, <1>5, <2>1, <2>4 DEF NewApart, Unspoiled
    <2> QED
      BY <2>5, <2>6, <2>7, <2>8 DEF Unspoiled
  <1> QED
    BY <1>6, <1>7 DEF HealthyInv

(* An import of the same file keeps the token, that of an older one counts *)
(* as spoiling; a removal leaves no row.                                   *)
LEMMA OperatorHealthy ==
    ASSUME IInv, HealthyInv, (\E g \in 1..MaxToken : Reimport(g)) \/ Remove
    PROVE  HealthyInv'
  <1>1. /\ UNCHANGED <<claim, task, tokens, usable, cooldown>> /\ account # Gone
    BY DEF Reimport, Remove, environment
  <1>2. /\ ~spoiled' => ~spoiled
        /\ ~spoiled' => account' = Gone \/ (account'.token = account.token /\ account'.status = "active")
    <2>1. CASE Remove
      BY <2>1 DEF Remove
    <2>2. ASSUME NEW g \in 1..MaxToken, Reimport(g)
          PROVE  /\ ~spoiled' => ~spoiled /\ g = account.token
                 /\ account'.token = g /\ account'.status = "active"
      <3>1. spoiled' = (spoiled \/ g # account.token)
        BY <2>2, Zenon DEF Reimport
      <3>2. account' = [token |-> g, encryption |-> upsets + 1, status |-> "active"]
        BY <2>2, Zenon DEF Reimport
      <3>3. account'.token = g /\ account'.status = "active"
        BY <3>2
      <3>4. ~spoiled' => ~spoiled /\ g = account.token
        BY <3>1, Zenon
      <3> QED
        BY <3>3, <3>4
    <2> QED
      BY <2>1, <2>2
  <1>3. OneFlight'
    BY <1>1, FlightsGoOn DEF HealthyInv
  <1>4. ASSUME ~spoiled' PROVE Unspoiled'
    <2>1. /\ Unspoiled
          /\ account' = Gone \/ (account'.token = account.token /\ account'.status = "active")
      BY <1>2, <1>4 DEF HealthyInv
    <2>2. HoldersClaim' /\ RowBacked'
      BY <1>1, <2>1 DEF Unspoiled, HoldersClaim, RowBacked, Key, Unpersisted, Gone
    <2>3. RowApart'
      BY <1>1, <2>1 DEF Unspoiled, RowApart, Accuses, Told, Gone
    <2>4. NewApart'
      BY <1>1, <2>1 DEF Unspoiled, NewApart, Gone
    <2> QED
      BY <2>2, <2>3, <2>4 DEF Unspoiled
  <1> QED
    BY <1>3, <1>4 DEF HealthyInv

(* Every step keeps it. *)
LEMMA NextHealthy == IInv /\ HealthyInv /\ [Next]_vars => HealthyInv'
  <1> SUFFICES ASSUME IInv, HealthyInv, [Next]_vars PROVE HealthyInv'
    OBVIOUS
  <1>1. CASE UNCHANGED vars
    <2>1. UNCHANGED <<account, claim, task, tokens, usable, cooldown, spoiled>>
      BY <1>1 DEF vars, environment
    <2> QED
      BY <2>1 DEF HealthyInv, OneFlight, Unspoiled, HoldersClaim, RowBacked, RowApart, NewApart,
                  Key, Unpersisted, Accuses, Told
  <1>2. ASSUME NEW t \in Tasks,
               \/ LoadAccount(t) \/ ensure_fresh(t) \/ try_acquire(t) \/ wait_for_peer(t)
               \/ reread_under_claim(t) \/ release(t)
        PROVE  HealthyInv'
    BY <1>2, LoadAccountHealthy, EnsureFreshHealthy, TryAcquireHealthy, WaitHealthy, RereadHealthy,
       ReleaseHealthy
  <1>3. ASSUME NEW t \in Tasks,
               \/ exchange(t) \/ rotate_tokens(t) \/ persist_reread(t)
               \/ flag_persist_conflict(t) \/ write_conflict_flag(t)
        PROVE  HealthyInv'
    BY <1>3, ExchangeHealthy, RotateHealthy, PersistRereadHealthy, FlagConflictHealthy,
       WriteConflictHealthy
  <1>4. ASSUME NEW t \in Tasks,
               \/ handle_permanent_failure(t) \/ write_permanent_failure(t)
               \/ mark_permanent_failure(t) \/ DatabaseError(t)
        PROVE  HealthyInv'
    BY <1>4, HandleFailureHealthy, WriteFailureHealthy, MarkHealthy, DatabaseErrorHealthy
  <1>5. CASE (\E p \in Processes : Crash(p)) \/ ClaimExpires \/ SignIn \/ Remove
             \/ \E g \in 1..MaxToken : Reimport(g)
    BY <1>5, CrashHealthy, ClaimExpiresHealthy, SignInHealthy, OperatorHealthy
  <1> QED
    BY <1>1, <1>2, <1>3, <1>4, <1>5 DEF Next

(* Any number of callers in any number of processes, with crashes, raised  *)
(* statements, sign-ins and imports: as long as no claim expires under a   *)
(* running refresh, no new token is lost on its way into the row and no    *)
(* old one is imported, the account is never flagged (HealthyStaysActive). *)
THEOREM HealthyAccountStaysActive == Spec => []HealthyStaysActive
  <1>1. HealthyInv => HealthyStaysActive
    BY DEF HealthyInv, Unspoiled, RowBacked, HealthyStaysActive
  <1> QED
    BY <1>1, InitHealthy, NextHealthy, SafetyInvariant, PTL DEF Spec

=============================================================================
