---------------------------- MODULE SelectionProofs ----------------------------
(***************************************************************************)
(* Theorems about SelectionTransaction, for any servers, any restart       *)
(* tokens and any number of kills and deaths.                              *)
(***************************************************************************)
EXTENDS SelectionTransaction, FiniteSetTheorems, TLAPS

-----------------------------------------------------------------------------
(* The invariants.                                                         *)

(* Where a client may be, and what it goes on with.                        *)
Working == {"write", "request", "wait", "acknowledge", "node", "link", "ackOld", "commit",
            "complete"}
Proven  == {"acknowledge", "node", "link", "ackOld", "commit", "complete"}
Closing == {"ackOld", "commit", "complete"}

Paths ==
  /\ client.pc = "idle" => client = Idle
  /\ (client.op = "dns") <=> (client.why = "dns")
  /\ client.op = "dns" => client.pc \in {"write", "request", "wait"}
  /\ (client.pc \in Working /\ client.why # "dns") => Pending
  /\ client.pc \in Working => client.why # "none"
  /\ client.pc = "begin" => (~Pending /\ client.op = "apply")
  /\ (client.op = "apply" /\ (\/ client.pc \in {"open", "begin"}
                             \/ client.why \in {"recheck", "prepared", "reverted"}))
       => client.target \in Selections
  /\ client.pc = "acknowledge" => client.why = "apply"
  /\ (client.pc \in {"write", "request", "wait"} /\ client.undo) => client.prior \in Config
  /\ (client.pc \in {"request", "wait"} /\ client.why # "recheck")
       => client.prior \in Config
  /\ client.pc = "open" => ~client.undo
  /\ client.pc \in Closing => client.why # "fallback"

(* The journal remembers a selection that agreed; what is acknowledged in  *)
(* it is the new server's, or, while an abort closes it, the old one.      *)
Journaled ==
  Pending =>
    /\ journal.oldState = Selected(journal.old.sel)
    /\ journal.phase # "prepared" =>
         \/ journal.candidate.sel = journal.new
         \/ /\ journal.candidate = journal.old
            /\ client.pc \in {"commit", "complete"} /\ client.why \in Restoring

(* What the client has written so far.                                     *)
InPlace == (client.pc \in {"request", "wait"} /\ ~client.undo) \/ client.pc \in Proven
Applied ==
  /\ (InPlace /\ client.why \in {"apply", "recheck"}) => runtime.sel = journal.new
  /\ (InPlace /\ client.why \in Restoring) => runtime = journal.old
  /\ client.why = "recheck" =>
       (~client.undo /\ client.pc # "write" /\ journal.phase # "prepared")
  /\ (client.pc \in Proven \ {"acknowledge"} /\ client.why \in {"apply", "recheck"}) =>
       journal.phase # "prepared"
  /\ client.pc \in {"commit", "complete"} => journal.phase # "prepared"
  /\ client.pc = "ackOld" => client.why \in Restoring
  /\ (client.op = "dns" /\ client.prior # NoConfig) => client.prior.sel = runtime.sel
  /\ client.pc \in {"link"} \cup Closing => state.node = Published.node
  /\ client.pc \in Closing => state.link = Published.link

(* What the gateway has read and acknowledged.                             *)
Answering == {"compare", "remove", "up"}
Handshake ==
  /\ gateway.pc = "down" => gateway = Down
  /\ gateway.pc = "starting" => (gateway.serves = NoConfig /\ gateway.last = NoToken)
  /\ client.pc = "wait" =>
       /\ client.mine \in Tokens
       /\ request \in {client.mine, NoToken}
       /\ (gateway.last = client.mine /\ gateway.pc \in Answering \cup {"ack"}) =>
            gateway.serves = runtime
       /\ (ack.token = client.mine /\ ack.current) =>
            \/ gateway.pc = "down"
            \/ gateway.last = client.mine /\ gateway.pc \in Answering
  /\ (client.pc \in Proven /\ client.why # "fallback") =>
       /\ client.proven = runtime /\ request = NoToken
       /\ \/ gateway.pc = "down"
          \/ gateway.pc \in Answering /\ gateway.serves = runtime

Agreed ==
  ~Pending =>
    /\ state = Selected(runtime.sel)
    /\ gateway.pc \in Answering \cup {"ack"} => gateway.serves.sel = runtime.sel

-----------------------------------------------------------------------------
(* Records and tokens.                                                     *)

LEMMA FreshToken ==
  ASSUME NEW a, NEW b, NEW c
  PROVE  \E t \in Tokens : t \notin {a, b, c}
<1> SUFFICES ASSUME Tokens \subseteq {a, b, c} PROVE FALSE
  OBVIOUS
<1>1. IsFiniteSet({a}) /\ Cardinality({a}) = 1
  BY FS_Singleton
<1>2. /\ IsFiniteSet({a} \cup {b})
      /\ Cardinality({a} \cup {b}) =
           IF b \in {a} THEN Cardinality({a}) ELSE Cardinality({a}) + 1
  BY <1>1, FS_AddElement
<1>3. /\ IsFiniteSet(({a} \cup {b}) \cup {c})
      /\ Cardinality(({a} \cup {b}) \cup {c}) =
           IF c \in {a} \cup {b} THEN Cardinality({a} \cup {b})
                                 ELSE Cardinality({a} \cup {b}) + 1
  BY <1>2, FS_AddElement
<1>4. Cardinality({a} \cup {b}) \in {1, 2}
  BY <1>1, <1>2
<1>5. Tokens \in SUBSET (({a} \cup {b}) \cup {c})
  OBVIOUS
<1>6. Cardinality(Tokens) =< Cardinality(({a} \cup {b}) \cup {c})
  BY <1>3, <1>5, FS_Subset
<1>7. Cardinality(({a} \cup {b}) \cup {c}) \in {1, 2, 3}
  BY <1>3, <1>4
<1>8. Cardinality(Tokens) \in Nat
  BY FS_CardinalityType, SelectionShape
<1> QED BY <1>6, <1>7, <1>8, SelectionShape

LEMMA Constants ==
  /\ NoConfig \notin Config
  /\ \A c \in Config : c.sel \in Selections /\ c.dns \in DNS
  /\ \A c \in Config, s \in Selections : [c EXCEPT !.sel = s] \in Config
  /\ \A c \in Config, s \in Selections : [c EXCEPT !.sel = s].sel = s
  /\ \A c \in Config, d \in DNS : [c EXCEPT !.dns = d] \in Config
  /\ \A c \in Config, d \in DNS : [c EXCEPT !.dns = d].sel = c.sel
  /\ NoJournal.phase = "none" /\ \A j \in Journal : j.phase # "none"
  /\ Down \in GatewayState /\ Idle \in ClientState
<1>1. NoConfig \notin Config
  BY DEF NoConfig, Config, DNS
<1>2. Down \in GatewayState
  BY DEF Down, GatewayState
<1>3. Idle \in ClientState
  BY DEF Idle, ClientState, ClientStep, Why
<1>4. NoJournal.phase = "none" /\ \A j \in Journal : j.phase # "none"
  BY DEF NoJournal, Journal, TransactionPhase
<1> QED BY <1>1, <1>2, <1>3, <1>4 DEF Config

LEMMA IdleFields ==
  /\ Idle.pc = "idle" /\ Idle.op = "none" /\ Idle.why = "none" /\ ~Idle.undo
  /\ Idle.prior = NoConfig
  /\ Down.pc = "down" /\ Down.serves = NoConfig /\ Down.last = NoToken
BY DEF Idle, Down

LEMMA AtFields ==
  ASSUME client \in ClientState, NEW step \in ClientStep
  PROVE  /\ At(step) \in ClientState /\ At(step).pc = step
         /\ At(step).op = client.op /\ At(step).target = client.target
         /\ At(step).why = client.why /\ At(step).undo = client.undo
         /\ At(step).prior = NoConfig /\ At(step).proven = client.proven
BY DEF At, ClientState

LEMMA RestoreFields ==
  ASSUME client \in ClientState, NEW why \in Why, Restore(why)
  PROVE  /\ client' \in ClientState /\ client'.pc = "write"
         /\ client'.op = client.op /\ client'.target = client.target
         /\ client'.why = why /\ ~client'.undo
         /\ client'.prior = NoConfig /\ client'.proven = client.proven
<1>1. "write" \in ClientStep
  BY DEF ClientStep
<1> QED BY <1>1, AtFields DEF Restore, ClientState

LEMMA FinishFields ==
  ASSUME TypeOK, NEW ok, Finish(ok)
  PROVE  /\ client' = Idle /\ client' \in ClientState /\ gateway' \in GatewayState
         /\ gateway' \in {gateway, Down}
BY Constants DEF Finish, TypeOK

Core == TypeOK /\ Paths

-----------------------------------------------------------------------------
(* What each step does to the records.                                     *)

LEMMA BeginDoes ==
  ASSUME TypeOK, BeginApply \/ BeginRecovery \/ SwitchDNS
  PROVE  /\ client.pc = "idle" /\ client' \in ClientState
         /\ client'.prior = NoConfig /\ client'.proven = NoConfig /\ ~client'.undo
         /\ \/ /\ client'.pc = "open" /\ client'.op = "apply" /\ client'.why = "none"
               /\ client'.target \in Selections
            \/ client'.pc = "open" /\ client'.op = "recover" /\ client'.why = "none"
            \/ client'.pc = "write" /\ client'.op = "dns" /\ client'.why = "dns"
         /\ gateway' \in GatewayState /\ gateway'.pc = gateway.pc
         /\ gateway'.serves = gateway.serves /\ gateway'.last = gateway.last
         /\ UNCHANGED <<files, request, ack, bounds>>
<1>1. CASE BeginApply
  <2>1. PICK s \in Selections :
          client' = [Idle EXCEPT !.pc = "open", !.op = "apply", !.target = s]
    BY <1>1 DEF BeginApply
  <2>2. UNCHANGED <<files, request, ack, gateway, bounds>> /\ client.pc = "idle"
    BY <1>1 DEF BeginApply
  <2> QED BY <2>1, <2>2 DEF TypeOK, Idle, ClientState, ClientStep, Why
<1>2. CASE BeginRecovery
  BY <1>2 DEF BeginRecovery, TypeOK, GatewayState, Idle, ClientState, ClientStep, Why
<1>3. CASE SwitchDNS
  BY <1>3 DEF SwitchDNS, TypeOK, Idle, ClientState, ClientStep, Why
<1> QED BY <1>1, <1>2, <1>3

LEMMA OpenDoes ==
  ASSUME TypeOK, OpenRefused \/ OpenClean \/ RecoverTransaction
  PROVE  /\ client.pc = "open" /\ client' \in ClientState
         /\ \/ gateway' = gateway
            \/ gateway' = Down /\ client' = Idle
         /\ \/ client' = Idle
            \/ /\ client'.pc = "begin" /\ ~Pending /\ client.op = "apply"
               /\ client'.op = client.op /\ client'.why = client.why
               /\ client'.target = client.target /\ client'.undo = client.undo
            \/ /\ client'.pc = "write" /\ client'.why \in {"prepared", "reverted"}
               /\ ~client'.undo /\ Pending /\ client'.op = client.op
               /\ client'.target = client.target /\ client'.prior = NoConfig
            \/ /\ client'.pc = "request" /\ client'.why = "recheck" /\ Pending
               /\ client'.op = client.op /\ client'.target = client.target
               /\ client'.undo = client.undo /\ client'.prior = client.prior
               /\ runtime = journal.candidate /\ journal.phase # "prepared"
         /\ UNCHANGED <<files, request, ack, bounds>>
<1>0. client \in ClientState
  BY DEF TypeOK
<1>1. CASE OpenRefused
  BY <1>1, FinishFields DEF OpenRefused
<1>2. CASE OpenClean
  <2>1. "begin" \in ClientStep
    BY DEF ClientStep
  <2>2. Finish(TRUE) => client' = Idle /\ gateway' = gateway
    BY DEF Finish
  <2> QED BY <1>0, <1>2, <2>1, <2>2, AtFields, Constants DEF OpenClean, Goto
<1>3. CASE RecoverTransaction
  <2>1. UNCHANGED <<files, request, ack, gateway, bounds>> /\ client.pc = "open" /\ Pending
    BY <1>3 DEF RecoverTransaction
  <2>2. ASSUME NEW why \in {"prepared", "reverted"}, Restore(why)
        PROVE  /\ client'.pc = "write" /\ client'.why = why /\ client' \in ClientState
               /\ ~client'.undo /\ client'.op = client.op
               /\ client'.target = client.target /\ client'.prior = NoConfig
    <3>1. why \in Why
      BY DEF Why, Restoring
    <3> QED BY <1>0, <2>2, <3>1, RestoreFields
  <2>3. ASSUME client' = [client EXCEPT !.pc = "request", !.why = "recheck"]
        PROVE  /\ client'.pc = "request" /\ client'.why = "recheck"
               /\ client' \in ClientState
               /\ client'.op = client.op /\ client'.target = client.target
               /\ client'.undo = client.undo /\ client'.prior = client.prior
    BY <1>0, <2>3 DEF ClientState, ClientStep, Why
  <2> QED BY <1>3, <2>1, <2>2, <2>3 DEF RecoverTransaction
<1> QED BY <1>1, <1>2, <1>3

LEMMA TransactionDoes ==
  ASSUME TypeOK, BeginTransaction, client.target \in Selections
  PROVE  /\ client.pc = "begin" /\ client' \in ClientState /\ client'.pc = "write"
         /\ client'.op = client.op /\ client'.why = "apply" /\ ~client'.undo
         /\ client'.prior = client.prior
         /\ journal' \in Journal /\ journal'.phase = "prepared" /\ journal'.old = runtime
         /\ journal'.oldState = state /\ journal'.new = client.target
         /\ UNCHANGED <<runtime, state, request, ack, gateway, bounds>>
<1>1. /\ client' \in ClientState /\ client'.pc = "write"
      /\ client'.op = client.op /\ client'.why = "apply" /\ ~client'.undo
      /\ client'.prior = client.prior
  BY DEF BeginTransaction, TypeOK, ClientState, ClientStep, Why
<1>2. /\ journal' \in Journal /\ journal'.phase = "prepared" /\ journal'.old = runtime
      /\ journal'.oldState = state /\ journal'.new = client.target
  BY DEF BeginTransaction, TypeOK, Journal, TransactionPhase
<1> QED BY <1>1, <1>2 DEF BeginTransaction

LEMMA WriteDoes ==
  ASSUME TypeOK, WriteRuntime, Written \in Config
  PROVE  /\ client.pc = "write" /\ client' \in ClientState /\ client'.pc = "request"
         /\ client'.op = client.op /\ client'.why = client.why
         /\ client'.undo = client.undo /\ client'.target = client.target
         /\ client'.prior = IF client.undo THEN client.prior ELSE runtime
         /\ runtime' = Written
         /\ UNCHANGED <<state, journal, request, ack, gateway, bounds>>
<1>1. client \in ClientState /\ runtime \in Config
  BY DEF TypeOK
<1>2. /\ client' \in ClientState /\ client'.pc = "request"
      /\ client'.op = client.op /\ client'.why = client.why
      /\ client'.undo = client.undo /\ client'.target = client.target
      /\ client'.prior = IF client.undo THEN client.prior ELSE runtime
  <2>1. CASE client.undo
    BY <1>1, <2>1 DEF WriteRuntime, ClientState, ClientStep
  <2>2. CASE ~client.undo
    BY <1>1, <2>2 DEF WriteRuntime, ClientState, ClientStep
  <2> QED BY <2>1, <2>2
<1> QED BY <1>2 DEF WriteRuntime

LEMMA RefusedDoes ==
  ASSUME TypeOK, ApplyRefused
  PROVE  /\ client.pc = "write" /\ client.why = "apply"
         /\ client' \in ClientState /\ client'.pc = "write" /\ client'.why = "abort"
         /\ client'.op = client.op /\ ~client'.undo /\ client'.prior = NoConfig
         /\ UNCHANGED <<files, request, ack, gateway, bounds>>
<1>1. "abort" \in Why
  BY DEF Why, Restoring
<1> QED BY <1>1, RestoreFields DEF ApplyRefused, TypeOK

LEMMA RequestDoes ==
  ASSUME TypeOK, RequestRestart
  PROVE  /\ client.pc = "request" /\ client' \in ClientState /\ client'.pc = "wait"
         /\ client'.op = client.op /\ client'.why = client.why
         /\ client'.undo = client.undo /\ client'.target = client.target
         /\ client'.prior = client.prior
         /\ request' \in Tokens /\ client'.mine = request'
         /\ request' # gateway.last /\ request' # ack.token
         /\ UNCHANGED <<files, ack, gateway, bounds>>
<1>1. request' \in Tokens /\ request' # gateway.last /\ request' # ack.token
  <2>1. \E t \in Tokens : t \notin {request, gateway.last, ack.token}
    BY FreshToken
  <2> QED BY <2>1 DEF RequestRestart
<1>2. /\ client' \in ClientState /\ client'.pc = "wait"
      /\ client'.op = client.op /\ client'.why = client.why
      /\ client'.undo = client.undo /\ client'.target = client.target
      /\ client'.prior = client.prior /\ client'.mine = request'
  BY <1>1 DEF RequestRestart, TypeOK, ClientState, ClientStep
<1> QED BY <1>1, <1>2 DEF RequestRestart

(* What the rest of a transaction leaves alone in the client.              *)
SameClient ==
  /\ client'.op = client.op /\ client'.target = client.target
  /\ client'.why = client.why /\ client'.undo = client.undo
  /\ client'.proven = client.proven

LEMMA CompensatedDoes ==
  ASSUME TypeOK, Paths, client.pc = "wait", client.undo, Compensated
  PROVE  /\ client' \in ClientState
         /\ \/ gateway' = gateway
            \/ gateway' = Down /\ client' = Idle
         /\ \/ client' = Idle
            \/ /\ client.why = "apply" /\ client'.pc = "write" /\ client'.why = "abort"
               /\ ~client'.undo /\ client'.op = client.op /\ client'.prior = NoConfig
            \/ /\ client.why \in {"abort", "fallback"} /\ runtime = journal.old
               /\ client'.pc = "node" /\ client'.why = "fallback" /\ ~client'.undo
               /\ client'.op = client.op /\ client'.prior = NoConfig
<1>0. client \in ClientState /\ "abort" \in Why /\ "fallback" \in Why /\ "node" \in ClientStep
  BY DEF TypeOK, Why, Restoring, ClientStep
<1>1. CASE client.why = "apply" /\ Restore("abort") /\ UNCHANGED gateway
  BY <1>0, <1>1, RestoreFields
<1>2. CASE client.why = "dns" /\ Finish(TRUE)
  BY <1>2, FinishFields DEF Finish
<1>3. ASSUME client.why \in {"abort", "fallback"}, runtime = journal.old,
             client' = [At("node") EXCEPT !.why = "fallback", !.undo = FALSE],
             UNCHANGED gateway
      PROVE  /\ client' \in ClientState
             /\ client'.pc = "node" /\ client'.why = "fallback" /\ ~client'.undo
             /\ client'.op = client.op /\ client'.prior = NoConfig
  <2>1. PICK a \in ClientState : /\ a = At("node") /\ a.pc = "node"
                                 /\ a.op = client.op /\ a.prior = NoConfig
    BY <1>0, AtFields
  <2>2. client' = [a EXCEPT !.why = "fallback", !.undo = FALSE]
    BY <1>3, <2>1
  <2> QED BY <1>0, <2>1, <2>2 DEF ClientState
<1>4. ASSUME Finish(FALSE)
      PROVE  /\ client' \in ClientState /\ client' = Idle
             /\ gateway' = gateway \/ gateway' = Down
  BY <1>4, FinishFields
<1> QED BY <1>1, <1>2, <1>3, <1>4 DEF Compensated

LEMMA HandshakeDoes ==
  ASSUME TypeOK, Paths, HandshakeOk \/ HandshakeFails
  PROVE  /\ client.pc = "wait" /\ client' \in ClientState
         /\ \/ gateway' = gateway
            \/ gateway' = Down /\ client' = Idle
         /\ \/ client' = Idle
            \/ /\ client.why = "apply" /\ client'.pc = "write" /\ client'.why = "abort"
               /\ ~client'.undo /\ client'.op = client.op /\ client'.prior = NoConfig
            \/ /\ client.why = "recheck" /\ client'.pc = "write"
               /\ client'.why = "fallback" /\ ~client'.undo
               /\ client'.op = client.op /\ client'.prior = NoConfig
            \/ /\ client.why # "recheck" /\ ~client.undo /\ client'.pc = "write"
               /\ client'.undo /\ client'.why = client.why /\ client'.op = client.op
               /\ client'.target = client.target /\ client'.prior = client.prior
            \/ /\ client.why \in {"abort", "fallback"} /\ runtime = journal.old
               /\ client'.pc = "node" /\ client'.why = "fallback" /\ ~client'.undo
               /\ client'.op = client.op /\ client'.prior = NoConfig
            \/ /\ HandshakeOk /\ ~client.undo /\ client.why # "dns"
               /\ client'.pc = IF client.why = "apply" THEN "acknowledge" ELSE "node"
               /\ client'.why = client.why /\ client'.op = client.op /\ ~client'.undo
               /\ client'.target = client.target /\ client'.proven = runtime
         /\ UNCHANGED <<files, request, ack, bounds>>
<1>0. client \in ClientState /\ "fallback" \in Why /\ runtime \in Config
  BY DEF TypeOK, Why, Restoring
<1>1. CASE HandshakeOk
  <2>1. client.pc = "wait" /\ UNCHANGED <<files, request, ack, bounds>>
    BY <1>1 DEF HandshakeOk
  <2>2. CASE client.undo /\ Compensated
    BY <2>1, <2>2, CompensatedDoes
  <2>3. CASE ~client.undo /\ client.why = "dns" /\ Finish(TRUE)
    BY <2>1, <2>3, FinishFields
  <2>4. ASSUME ~client.undo, client.why # "dns",
               client' = [At(IF client.why = "apply" THEN "acknowledge" ELSE "node")
                            EXCEPT !.proven = runtime]
        PROVE  /\ client' \in ClientState
               /\ client'.pc = IF client.why = "apply" THEN "acknowledge" ELSE "node"
               /\ client'.why = client.why /\ client'.op = client.op /\ ~client'.undo
               /\ client'.target = client.target /\ client'.proven = runtime
    <3> DEFINE step == IF client.why = "apply" THEN "acknowledge" ELSE "node"
    <3>1. step \in ClientStep
      BY DEF ClientStep
    <3> QED BY <1>0, <2>4, <3>1, AtFields DEF ClientState
  <2> QED BY <1>1, <2>1, <2>2, <2>3, <2>4 DEF HandshakeOk
<1>2. CASE HandshakeFails
  <2>1. client.pc = "wait" /\ UNCHANGED <<files, request, ack, bounds>>
    BY <1>2 DEF HandshakeFails
  <2>2. CASE client.undo /\ Compensated
    BY <2>1, <2>2, CompensatedDoes
  <2>3. ASSUME client.why = "recheck", Restore("fallback")
        PROVE  /\ client'.pc = "write" /\ client' \in ClientState
               /\ client'.why = "fallback" /\ ~client'.undo
               /\ client'.op = client.op /\ client'.prior = NoConfig
    BY <1>0, <2>3, RestoreFields
  <2>4. ASSUME client' = [client EXCEPT !.pc = "write", !.undo = TRUE,
                                        !.mine = NoToken, !.advanced = FALSE]
        PROVE  /\ client'.pc = "write" /\ client' \in ClientState
               /\ client'.undo /\ client'.why = client.why /\ client'.op = client.op
               /\ client'.target = client.target /\ client'.prior = client.prior
    BY <1>0, <2>4 DEF ClientState, ClientStep
  <2> QED BY <1>2, <2>1, <2>2, <2>3, <2>4 DEF HandshakeFails
<1> QED BY <1>1, <1>2

LEMMA AcknowledgeDoes ==
  ASSUME TypeOK, AcknowledgeTransaction \/ AcknowledgeOld, Pending
  PROVE  /\ client' \in ClientState /\ SameClient
         /\ \/ /\ client.pc = "acknowledge" /\ client'.pc = "node"
               /\ journal'.candidate = runtime
            \/ /\ client.pc = "ackOld" /\ client'.pc = "commit"
               /\ journal'.candidate = journal.old
         /\ journal' \in Journal /\ journal'.phase = "runtime-acknowledged"
         /\ journal'.old = journal.old /\ journal'.oldState = journal.oldState
         /\ journal'.new = journal.new
         /\ UNCHANGED <<runtime, state, request, ack, gateway, bounds>>
<1>1. client \in ClientState /\ "node" \in ClientStep /\ "commit" \in ClientStep
  BY DEF TypeOK, ClientStep
<1>2. journal \in Journal /\ runtime \in Config
  BY DEF TypeOK, Pending, NoJournal
<1>3. CASE AcknowledgeTransaction
  <2>1. client' \in ClientState /\ SameClient /\ client'.pc = "node"
    BY <1>1, <1>3, AtFields DEF AcknowledgeTransaction, Goto, SameClient
  <2>2. /\ journal' \in Journal /\ journal'.phase = "runtime-acknowledged"
        /\ journal'.old = journal.old /\ journal'.oldState = journal.oldState
        /\ journal'.new = journal.new /\ journal'.candidate = runtime
    BY <1>2, <1>3 DEF AcknowledgeTransaction, Journal, TransactionPhase
  <2> QED BY <1>3, <2>1, <2>2 DEF AcknowledgeTransaction
<1>4. CASE AcknowledgeOld
  <2>1. client' \in ClientState /\ SameClient /\ client'.pc = "commit"
    BY <1>1, <1>4, AtFields DEF AcknowledgeOld, Goto, SameClient
  <2>2. /\ journal' \in Journal /\ journal'.phase = "runtime-acknowledged"
        /\ journal'.old = journal.old /\ journal'.oldState = journal.oldState
        /\ journal'.new = journal.new /\ journal'.candidate = journal.old
    BY <1>2, <1>4 DEF AcknowledgeOld, Journal, TransactionPhase
  <2> QED BY <1>4, <2>1, <2>2 DEF AcknowledgeOld
<1> QED BY <1>3, <1>4

LEMMA PublishedIsSnapshot ==
  ASSUME TypeOK, Pending
  PROVE  /\ Published \in Snapshot /\ journal \in Journal
         /\ client.why \in {"apply", "recheck"} =>
              Published.node = journal.new /\ Published.link = journal.new
BY DEF TypeOK, Pending, NoJournal, Published, Selected, Journal, Snapshot

LEMMA StateDoes ==
  ASSUME TypeOK, RestoreNode \/ RestoreLink, Pending
  PROVE  /\ client' \in ClientState /\ state' \in Snapshot
         /\ \/ /\ client.pc = "node" /\ client'.pc = "link" /\ SameClient
               /\ state'.node = Published.node /\ state'.link = state.link
               /\ gateway' = gateway
            \/ /\ client.pc = "link" /\ state'.link = Published.link
               /\ state'.node = state.node
               /\ \/ /\ client.why = "fallback" /\ client' = Idle
                     /\ gateway' \in {gateway, Down}
                  \/ /\ client.why # "fallback" /\ SameClient /\ gateway' = gateway
                     /\ client'.pc = IF journal.phase = "prepared" THEN "ackOld"
                                     ELSE IF journal.phase = "runtime-acknowledged"
                                       THEN "commit" ELSE "complete"
         /\ UNCHANGED <<runtime, journal, request, ack, bounds>>
<1>1. client \in ClientState /\ state \in Snapshot /\ Published \in Snapshot
  BY PublishedIsSnapshot DEF TypeOK
<1>2. CASE RestoreNode
  <2>1. client' \in ClientState /\ SameClient /\ client'.pc = "link"
    <3>1. "link" \in ClientStep
      BY DEF ClientStep
    <3> QED BY <1>1, <1>2, <3>1, AtFields DEF RestoreNode, Goto, SameClient
  <2>2. state' \in Snapshot /\ state'.node = Published.node /\ state'.link = state.link
    BY <1>1, <1>2 DEF RestoreNode, Snapshot
  <2> QED BY <1>2, <2>1, <2>2 DEF RestoreNode
<1>3. CASE RestoreLink
  <2>1. state' \in Snapshot /\ state'.link = Published.link /\ state'.node = state.node
    BY <1>1, <1>3 DEF RestoreLink, Snapshot
  <2>2. CASE client.why = "fallback"
    BY <1>3, <2>1, <2>2, FinishFields DEF RestoreLink
  <2>3. CASE client.why # "fallback"
    <3> DEFINE step == IF journal.phase = "prepared" THEN "ackOld"
                       ELSE IF journal.phase = "runtime-acknowledged" THEN "commit"
                       ELSE "complete"
    <3>1. step \in ClientStep
      BY DEF ClientStep
    <3>2. client' = At(step) /\ gateway' = gateway
      BY <1>3, <2>3 DEF RestoreLink, Goto
    <3>3. client' \in ClientState /\ client'.pc = step /\ SameClient
      BY <1>1, <3>1, <3>2, AtFields DEF SameClient
    <3> QED BY <1>3, <2>1, <2>3, <3>2, <3>3 DEF RestoreLink
  <2> QED BY <2>2, <2>3
<1> QED BY <1>2, <1>3

LEMMA SaveFailsDoes ==
  ASSUME TypeOK, SaveCurrentFails, Pending
  PROVE  /\ client.pc \in {"node", "link"} /\ client.why = "apply"
         /\ client' \in ClientState /\ client'.pc = "write" /\ client'.why = "abort"
         /\ client'.op = client.op /\ ~client'.undo /\ client'.prior = NoConfig
         /\ state' = journal.oldState /\ state' \in Snapshot
         /\ UNCHANGED <<runtime, journal, request, ack, gateway, bounds>>
<1>1. "abort" \in Why
  BY DEF Why, Restoring
<1>2. journal.oldState \in Snapshot
  BY PublishedIsSnapshot DEF Journal
<1> QED BY <1>1, <1>2, RestoreFields DEF SaveCurrentFails, TypeOK

LEMMA CloseDoes ==
  ASSUME TypeOK, CommitPhase \/ RemoveArtifact, Pending
  PROVE  /\ client.pc \in {"commit", "complete"} /\ client'.pc = "complete"
         /\ client' \in ClientState /\ SameClient
         /\ journal' \in Journal /\ journal'.candidate = journal.candidate
         /\ journal'.old = journal.old /\ journal'.oldState = journal.oldState
         /\ journal'.new = journal.new
         /\ \/ client.pc = "commit" /\ journal'.phase = "state-committed"
            \/ client.pc = "complete" /\ journal'.phase = journal.phase
         /\ UNCHANGED <<runtime, state, request, ack, gateway, bounds>>
<1>1. client \in ClientState /\ "complete" \in ClientStep /\ journal \in Journal
  BY PublishedIsSnapshot DEF TypeOK, ClientStep
<1>2. CASE CommitPhase
  <2>1. client' \in ClientState /\ SameClient /\ client'.pc = "complete"
    BY <1>1, <1>2, AtFields DEF CommitPhase, Goto, SameClient
  <2>2. /\ journal' \in Journal /\ journal'.candidate = journal.candidate
        /\ journal'.old = journal.old /\ journal'.oldState = journal.oldState
        /\ journal'.new = journal.new /\ journal'.phase = "state-committed"
    BY <1>1, <1>2 DEF CommitPhase, Journal, TransactionPhase
  <2> QED BY <1>2, <2>1, <2>2 DEF CommitPhase
<1>3. CASE RemoveArtifact
  <2>1. /\ journal' \in Journal /\ journal'.candidate = journal.candidate
        /\ journal'.old = journal.old /\ journal'.oldState = journal.oldState
        /\ journal'.new = journal.new /\ journal'.phase = journal.phase
    BY <1>1, <1>3 DEF RemoveArtifact, Journal
  <2>2. UNCHANGED <<runtime, state, request, ack, gateway, client, bounds>>
    BY <1>3 DEF RemoveArtifact
  <2> QED BY <1>1, <1>3, <2>1, <2>2 DEF RemoveArtifact, SameClient
<1> QED BY <1>2, <1>3

LEMMA RemoveDoes ==
  ASSUME TypeOK, RemoveJournal
  PROVE  /\ client.pc = "complete" /\ journal' = NoJournal /\ ~Pending'
         /\ client' \in ClientState
         /\ \/ client' = Idle /\ gateway' = gateway
            \/ /\ client.op = "apply" /\ client.why \notin {"apply", "abort"}
               /\ client'.pc = "begin" /\ SameClient /\ gateway' = gateway
         /\ UNCHANGED <<runtime, state, request, ack, bounds>>
<1>1. client.pc = "complete" /\ journal' = NoJournal /\ ~Pending'
  BY DEF RemoveJournal, Pending, NoJournal
<1>2. CASE client.op = "apply" /\ client.why \notin {"apply", "abort"}
  <2>1. "begin" \in ClientStep /\ client \in ClientState
    BY DEF ClientStep, TypeOK
  <2>2. client' \in ClientState /\ SameClient /\ client'.pc = "begin"
    BY <1>2, <2>1, AtFields DEF RemoveJournal, Goto, SameClient
  <2> QED BY <1>1, <1>2, <2>2 DEF RemoveJournal
<1>3. CASE ~(client.op = "apply" /\ client.why \notin {"apply", "abort"})
  BY <1>1, <1>3, Constants DEF RemoveJournal, Finish
<1> QED BY <1>2, <1>3

LEMMA CrashDoes ==
  ASSUME TypeOK, Crash
  PROVE  /\ client' = Idle /\ gateway' \in {gateway, Down} /\ gateway' \in GatewayState
         /\ client.op \in {"apply", "recover"}
         /\ Killable /\ crashes' \in 0..MaxCrashes
         /\ UNCHANGED <<files, request, ack, deaths>>
<1>1. client' = Idle /\ gateway' \in {gateway, Down} /\ gateway' \in GatewayState
  BY FinishFields DEF Crash
<1>2. crashes' \in 0..MaxCrashes
  BY SelectionShape DEF Crash, Killable, TypeOK
<1> QED BY <1>1, <1>2 DEF Crash

LEMMA SyncDoes ==
  ASSUME TypeOK, SyncConfig
  PROVE  /\ gateway.pc = "down" /\ client.pc = "idle"
         /\ runtime' \in Config /\ runtime'.sel = runtime.sel
         /\ Pending => runtime' = runtime
         /\ gateway' \in GatewayState /\ gateway'.pc = "starting"
         /\ gateway'.serves = gateway.serves /\ gateway'.last = gateway.last
         /\ UNCHANGED <<state, journal, request, ack, client, bounds>>
<1>1. runtime' \in Config /\ runtime'.sel = runtime.sel /\ (Pending => runtime' = runtime)
  BY DEF SyncConfig, TypeOK, Config, DNS
<1>2. /\ gateway' \in GatewayState /\ gateway'.pc = "starting"
      /\ gateway'.serves = gateway.serves /\ gateway'.last = gateway.last
  BY DEF SyncConfig, TypeOK, GatewayState
<1> QED BY <1>1, <1>2 DEF SyncConfig

(* A new generation makes every acknowledgement an old one.                *)
LEMMA GenerationDoes ==
  ASSUME TypeOK, Paths, NextGeneration
  PROVE  /\ ack' \in Ack /\ ack'.token = ack.token /\ ~ack'.current
         /\ client' \in ClientState /\ SameClient /\ client'.pc = client.pc
         /\ client'.prior = client.prior /\ client'.mine = client.mine
         /\ client.pc = "idle" => client' = Idle
<1>1. ack' \in Ack /\ ack'.token = ack.token /\ ~ack'.current
  BY DEF NextGeneration, TypeOK, Ack
<1>2. /\ client' \in ClientState /\ SameClient /\ client'.pc = client.pc
      /\ client'.prior = client.prior /\ client'.mine = client.mine
  BY DEF NextGeneration, TypeOK, ClientState, SameClient
<1>3. ASSUME client.pc = "idle" PROVE client' = Idle
  <2>1. client = Idle
    BY <1>3 DEF Paths
  <2>2. (client.pc = "wait") = FALSE
    BY <1>3
  <2>3. client' = [client EXCEPT !.advanced = FALSE]
    BY <2>2 DEF NextGeneration
  <2> QED BY <2>1, <2>3 DEF Idle
<1> QED BY <1>1, <1>2, <1>3

LEMMA ServeDoes ==
  ASSUME TypeOK, Paths, StartGateway \/ RestartSingBox
  PROVE  /\ gateway' \in GatewayState /\ gateway'.serves = runtime
         /\ \/ gateway.pc = "starting" /\ gateway'.pc = "up" /\ gateway'.last = NoToken
            \/ gateway.pc = "restart" /\ gateway'.pc = "ack" /\ gateway'.last = gateway.last
         /\ NextGeneration
         /\ UNCHANGED <<files, request, bounds>>
<1>1. CASE StartGateway
  BY <1>1 DEF StartGateway, TypeOK, GatewayState
<1>2. CASE RestartSingBox
  BY <1>2 DEF RestartSingBox, TypeOK, GatewayState
<1> QED BY <1>1, <1>2

LEMMA ReplyDoes ==
  ASSUME TypeOK, TakeRequest \/ WriteAck \/ CompareRequest \/ RemoveRequest
  PROVE  /\ gateway' \in GatewayState /\ gateway'.serves = gateway.serves
         /\ request' \in Tokens \cup {NoToken} /\ ack' \in Ack
         /\ \/ /\ gateway.pc = "up" /\ gateway'.pc = "restart"
               /\ request \notin {NoToken, gateway.last} /\ gateway'.last = request
               /\ UNCHANGED <<request, ack>>
            \/ /\ gateway.pc = "ack" /\ gateway'.pc = "compare"
               /\ gateway'.last = gateway.last
               /\ ack'.token = gateway.last /\ ack'.current /\ request' = request
            \/ /\ gateway.pc = "compare" /\ gateway'.pc \in {"remove", "up"}
               /\ gateway'.last = gateway.last
               /\ UNCHANGED <<request, ack>>
            \/ /\ gateway.pc = "remove" /\ gateway'.pc = "up"
               /\ gateway'.last = gateway.last /\ request' = NoToken
               /\ UNCHANGED ack
         /\ UNCHANGED <<files, client, bounds>>
<1>1. CASE TakeRequest
  BY <1>1 DEF TakeRequest, TypeOK, GatewayState
<1>2. CASE WriteAck
  BY <1>2 DEF WriteAck, TypeOK, GatewayState, Ack
<1>3. CASE CompareRequest
  BY <1>3 DEF CompareRequest, TypeOK, GatewayState
<1>4. CASE RemoveRequest
  BY <1>4 DEF RemoveRequest, TypeOK, GatewayState
<1> QED BY <1>1, <1>2, <1>3, <1>4

LEMMA DeathDoes ==
  ASSUME TypeOK, GatewayDies
  PROVE  /\ gateway.pc # "down" /\ gateway' = Down /\ gateway' \in GatewayState
         /\ client' = IF client.op \in {"recover", "dns"} THEN Idle ELSE client
         /\ client' \in ClientState
         /\ client.op = "recover" => Killable
         /\ runtime' \in Config
         /\ \/ runtime' = runtime
            \/ client.op = "dns" /\ client.prior # NoConfig /\ runtime' = client.prior
         /\ crashes' \in 0..MaxCrashes /\ deaths' \in 0..MaxDeaths
         /\ UNCHANGED <<state, journal, request, ack>>
<1>1. deaths' \in 0..MaxDeaths /\ crashes' \in 0..MaxCrashes
  BY SelectionShape DEF GatewayDies, Killable, TypeOK
<1>2. /\ gateway.pc # "down" /\ gateway' = Down /\ gateway' \in GatewayState
      /\ client' = IF client.op \in {"recover", "dns"} THEN Idle ELSE client
      /\ client' \in ClientState
      /\ client.op = "recover" => Killable
      /\ UNCHANGED <<state, journal, request, ack>>
  BY Constants DEF GatewayDies, TypeOK
<1>3. /\ runtime' \in Config
      /\ \/ runtime' = runtime
         \/ client.op = "dns" /\ client.prior # NoConfig /\ runtime' = client.prior
  BY Constants DEF GatewayDies, TypeOK, ClientState
<1> QED BY <1>1, <1>2, <1>3

-----------------------------------------------------------------------------
(* Type correctness, and the paths a client may take.                      *)

(* What a client writes is a configuration: the one it had put aside, the  *)
(* running one with another server or resolver, or the journal's old one.  *)
LEMMA WritesConfig ==
  ASSUME TypeOK, Paths, client.pc = "write"
  PROVE  /\ Written \in Config
         /\ client.why = "apply" /\ ~client.undo => Written.sel = journal.new
         /\ client.why = "dns" /\ ~client.undo => Written.sel = runtime.sel
         /\ client.why \in Restoring /\ ~client.undo => Written = journal.old
         /\ client.undo => Written = client.prior
<1>1. CASE client.undo
  BY <1>1 DEF Written, Paths
<1>2. CASE ~client.undo /\ client.why = "dns"
  <2>1. PICK d \in DNS : d = CHOOSE e \in DNS : e # runtime.dns
    <3>1. \E e \in DNS : e # runtime.dns
      BY DEF DNS
    <3> QED BY <3>1
  <2>2. Written = [runtime EXCEPT !.dns = d]
    BY <1>2, <2>1 DEF Written
  <2> QED BY <1>2, <2>1, <2>2 DEF TypeOK, Config, Restoring
<1>3. CASE ~client.undo /\ client.why # "dns"
  <2>1. journal \in Journal
    BY <1>3 DEF Paths, Working, Pending, TypeOK, NoJournal
  <2>2. CASE client.why = "apply"
    <3>1. Written = [runtime EXCEPT !.sel = journal.new]
      BY <1>3, <2>2 DEF Written
    <3> QED BY <1>3, <2>1, <2>2, <3>1 DEF TypeOK, Config, Journal, Restoring
  <2>3. CASE client.why # "apply"
    <3>1. Written = journal.old
      BY <1>3, <2>3 DEF Written
    <3> QED BY <1>3, <2>1, <2>3, <3>1 DEF Journal
  <2> QED BY <2>2, <2>3
<1> QED BY <1>1, <1>2, <1>3

(* From the proof on, a client works on a pending transaction.             *)
LEMMA ProvenIsPending ==
  ASSUME Paths,
         \/ AcknowledgeTransaction \/ AcknowledgeOld \/ RestoreNode \/ RestoreLink
         \/ SaveCurrentFails \/ CommitPhase \/ RemoveArtifact \/ RemoveJournal
  PROVE  Pending
<1>1. client.pc \in {"acknowledge", "ackOld", "node", "link", "commit", "complete"}
  BY DEF AcknowledgeTransaction, AcknowledgeOld, RestoreNode, RestoreLink, SaveCurrentFails,
         CommitPhase, RemoveArtifact, RemoveJournal
<1> QED BY <1>1 DEF Paths, Working

LEMMA TypeStep ==
  ASSUME TypeOK, Paths, [Next]_vars
  PROVE  TypeOK'
<1> USE DEF files, bounds
<1>1. CASE BeginApply \/ BeginRecovery \/ SwitchDNS
  BY <1>1, BeginDoes DEF TypeOK
<1>2. CASE OpenRefused \/ OpenClean \/ RecoverTransaction
  BY <1>2, OpenDoes, Constants DEF TypeOK
<1>3. CASE BeginTransaction
  <2>1. client.target \in Selections
    BY <1>3 DEF BeginTransaction, Paths
  <2> QED BY <1>3, <2>1, TransactionDoes DEF TypeOK
<1>4. CASE WriteRuntime
  <2>1. Written \in Config
    BY <1>4, WritesConfig DEF WriteRuntime
  <2> QED BY <1>4, <2>1, WriteDoes DEF TypeOK
<1>5. CASE ApplyRefused \/ RequestRestart
  BY <1>5, RefusedDoes, RequestDoes DEF TypeOK
<1>6. CASE HandshakeOk \/ HandshakeFails
  BY <1>6, HandshakeDoes, Constants DEF TypeOK
<1>7. CASE AcknowledgeTransaction \/ AcknowledgeOld
  BY <1>7, ProvenIsPending, AcknowledgeDoes DEF TypeOK
<1>8. CASE RestoreNode \/ RestoreLink
  BY <1>8, ProvenIsPending, StateDoes, Constants DEF TypeOK
<1>9. CASE SaveCurrentFails
  BY <1>9, ProvenIsPending, SaveFailsDoes DEF TypeOK
<1>10. CASE CommitPhase \/ RemoveArtifact
  BY <1>10, ProvenIsPending, CloseDoes DEF TypeOK
<1>11. CASE RemoveJournal
  BY <1>11, RemoveDoes DEF TypeOK
<1>12. CASE Crash
  BY <1>12, CrashDoes, Constants DEF TypeOK
<1>13. CASE SyncConfig
  BY <1>13, SyncDoes DEF TypeOK
<1>14. CASE StartGateway \/ RestartSingBox
  BY <1>14, ServeDoes, GenerationDoes DEF TypeOK
<1>15. CASE TakeRequest \/ WriteAck \/ CompareRequest \/ RemoveRequest
  BY <1>15, ReplyDoes DEF TypeOK
<1>16. CASE GatewayDies
  BY <1>16, DeathDoes DEF TypeOK
<1>17. CASE UNCHANGED vars
  BY <1>17 DEF vars, TypeOK
<1> QED
  BY <1>1, <1>2, <1>3, <1>4, <1>5, <1>6, <1>7, <1>8, <1>9, <1>10, <1>11, <1>12, <1>13,
     <1>14, <1>15, <1>16, <1>17
  DEF Next, Client, Gateway

LEMMA PathsStep ==
  ASSUME TypeOK, Paths, [Next]_vars
  PROVE  Paths'
<1> USE IdleFields DEF files, bounds, Working, Closing, Restoring, Pending
<1>1. CASE BeginApply \/ BeginRecovery \/ SwitchDNS
  BY <1>1, BeginDoes DEF Paths
<1>2. CASE OpenRefused \/ OpenClean \/ RecoverTransaction
  BY <1>2, OpenDoes DEF Paths
<1>3. CASE BeginTransaction
  <2>1. client.target \in Selections
    BY <1>3 DEF BeginTransaction, Paths
  <2> QED BY <1>3, <2>1, TransactionDoes, Constants DEF Paths
<1>4. CASE WriteRuntime
  <2>1. Written \in Config /\ runtime \in Config
    BY <1>4, WritesConfig DEF WriteRuntime, TypeOK
  <2> QED BY <1>4, <2>1, WriteDoes DEF Paths
<1>5. CASE ApplyRefused \/ RequestRestart
  BY <1>5, RefusedDoes, RequestDoes DEF Paths
<1>6. CASE HandshakeOk \/ HandshakeFails
  BY <1>6, HandshakeDoes DEF Paths
<1>7. CASE AcknowledgeTransaction \/ AcknowledgeOld
  BY <1>7, ProvenIsPending, AcknowledgeDoes, Constants DEF Paths, SameClient
<1>8. CASE RestoreNode \/ RestoreLink
  BY <1>8, ProvenIsPending, StateDoes DEF Paths, SameClient
<1>9. CASE SaveCurrentFails
  BY <1>9, ProvenIsPending, SaveFailsDoes DEF Paths
<1>10. CASE CommitPhase \/ RemoveArtifact
  BY <1>10, ProvenIsPending, CloseDoes, Constants DEF Paths, SameClient
<1>11. CASE RemoveJournal
  <2>1. client.why \in Why
    BY DEF TypeOK, ClientState
  <2> QED BY <1>11, <2>1, RemoveDoes DEF Paths, SameClient, Why
<1>12. CASE Crash
  BY <1>12, CrashDoes DEF Paths
<1>13. CASE SyncConfig
  BY <1>13, SyncDoes DEF Paths
<1>14. CASE StartGateway \/ RestartSingBox
  BY <1>14, ServeDoes, GenerationDoes DEF Paths, SameClient
<1>15. CASE TakeRequest \/ WriteAck \/ CompareRequest \/ RemoveRequest
  BY <1>15, ReplyDoes DEF Paths
<1>16. CASE GatewayDies
  BY <1>16, DeathDoes DEF Paths
<1>17. CASE UNCHANGED vars
  BY <1>17 DEF vars, Paths
<1> QED
  BY <1>1, <1>2, <1>3, <1>4, <1>5, <1>6, <1>7, <1>8, <1>9, <1>10, <1>11, <1>12, <1>13,
     <1>14, <1>15, <1>16, <1>17
  DEF Next, Client, Gateway

LEMMA CoreInit == Init => TypeOK /\ Paths
<1> SUFFICES ASSUME Init PROVE TypeOK /\ Paths
  OBVIOUS
<1>1. runtime \in Config /\ state \in Snapshot
  <2>1. PICK s \in Selections : runtime = [sel |-> s, dns |-> "remote-dns"] /\ state = Selected(s)
    BY DEF Init
  <2> QED BY <2>1 DEF Config, DNS, Snapshot, Selected
<1>2. TypeOK
  BY <1>1, Constants, SelectionShape DEF Init, TypeOK, Ack
<1>3. Paths
  BY IdleFields DEF Init, Paths, Working, Closing
<1> QED BY <1>2, <1>3

(* Every file, process and client record stays in its type, whatever fails *)
(* and whoever is killed: what a client writes over the configuration is   *)
(* always a configuration (Written), the journal it works on always exists.*)
THEOREM TypeCorrect == Spec => []TypeOK
<1>1. Init => TypeOK /\ Paths
  BY CoreInit
<1>2. TypeOK /\ Paths /\ [Next]_vars => (TypeOK /\ Paths)'
  BY TypeStep, PathsStep
<1> QED BY <1>1, <1>2, PTL DEF Spec

-----------------------------------------------------------------------------
(* The handshake.                                                          *)

LEMMA HandshakeStep ==
  ASSUME TypeOK, Paths, Handshake, [Next]_vars
  PROVE  Handshake'
<1> USE IdleFields DEF files, Proven, Answering
<1>1. CASE BeginApply \/ BeginRecovery \/ SwitchDNS
  <2>1. gateway' = gateway \/ gateway.due
    BY <1>1 DEF BeginApply, BeginRecovery, SwitchDNS
  <2>2. gateway.due => gateway # Down
    BY DEF Down
  <2>3. gateway'.pc = "down" => gateway' = Down
    BY <1>1, <2>1, <2>2, BeginDoes DEF Handshake
  <2> QED BY <1>1, <2>3, BeginDoes DEF Handshake
<1>2. CASE OpenRefused \/ OpenClean \/ RecoverTransaction
  BY <1>2, OpenDoes DEF Handshake
<1>3. CASE BeginTransaction
  <2>1. client.target \in Selections
    BY <1>3 DEF BeginTransaction, Paths
  <2> QED BY <1>3, <2>1, TransactionDoes DEF Handshake
<1>4. CASE WriteRuntime
  <2>1. Written \in Config
    BY <1>4, WritesConfig DEF WriteRuntime
  <2> QED BY <1>4, <2>1, WriteDoes DEF Handshake
<1>5. CASE ApplyRefused \/ RequestRestart
  BY <1>5, RefusedDoes, RequestDoes DEF Handshake
<1>6. CASE HandshakeOk \/ HandshakeFails
  <2>1. ASSUME HandshakeOk
        PROVE  /\ request = NoToken
               /\ \/ gateway.pc = "down"
                  \/ gateway.pc \in Answering /\ gateway.serves = runtime
    BY <2>1 DEF HandshakeOk, Acknowledged, Handshake
  <2> QED BY <1>6, <2>1, HandshakeDoes DEF Handshake
<1>7. CASE AcknowledgeTransaction \/ AcknowledgeOld
  BY <1>7, ProvenIsPending, AcknowledgeDoes DEF Handshake, SameClient
<1>8. CASE RestoreNode \/ RestoreLink
  BY <1>8, ProvenIsPending, StateDoes DEF Handshake, SameClient
<1>9. CASE SaveCurrentFails
  BY <1>9, ProvenIsPending, SaveFailsDoes DEF Handshake
<1>10. CASE CommitPhase \/ RemoveArtifact
  BY <1>10, ProvenIsPending, CloseDoes DEF Handshake, SameClient
<1>11. CASE RemoveJournal
  BY <1>11, RemoveDoes DEF Handshake, SameClient
<1>12. CASE Crash
  BY <1>12, CrashDoes DEF Handshake
<1>13. CASE SyncConfig
  BY <1>13, SyncDoes DEF Handshake
<1>14. CASE StartGateway \/ RestartSingBox
  BY <1>14, ServeDoes, GenerationDoes, SelectionShape DEF Handshake, SameClient
<1>15. CASE TakeRequest \/ WriteAck \/ CompareRequest \/ RemoveRequest
  BY <1>15, ReplyDoes, SelectionShape DEF Handshake
<1>16. CASE GatewayDies
  BY <1>16, DeathDoes, SelectionShape DEF Handshake, Paths
<1>17. CASE UNCHANGED vars
  BY <1>17 DEF vars, Handshake
<1> QED
  BY <1>1, <1>2, <1>3, <1>4, <1>5, <1>6, <1>7, <1>8, <1>9, <1>10, <1>11, <1>12, <1>13,
     <1>14, <1>15, <1>16, <1>17
  DEF Next, Client, Gateway

LEMMA HandshakeInvariant == Spec => [](TypeOK /\ Paths /\ Handshake)
<1>1. Init => TypeOK /\ Paths /\ Handshake
  BY CoreInit, IdleFields DEF Init, Handshake, Proven
<1>2. TypeOK /\ Paths /\ Handshake /\ [Next]_vars => (TypeOK /\ Paths /\ Handshake)'
  BY TypeStep, PathsStep, HandshakeStep
<1> QED BY <1>1, <1>2, PTL DEF Spec

-----------------------------------------------------------------------------
(* The files agree.                                                        *)

SelectionInv == TypeOK /\ Paths /\ Handshake /\ Journaled /\ Applied /\ Agreed

(* No kill hits an abort that closes its journal, so what one leaves       *)
(* behind is a journal whose acknowledged candidate is the new server's.   *)
LEMMA JournaledStep ==
  ASSUME SelectionInv, "abortkill" \notin Hazards, [Next]_vars
  PROVE  Journaled'
<1> USE IdleFields DEF SelectionInv, files
<1>1. TypeOK /\ Paths /\ Journaled /\ Applied /\ Agreed
  OBVIOUS
<1>2. CASE BeginApply \/ BeginRecovery \/ SwitchDNS
  BY <1>2, BeginDoes DEF Journaled, Pending
<1>3. CASE OpenRefused \/ OpenClean \/ RecoverTransaction
  BY <1>3, OpenDoes DEF Journaled, Pending
<1>4. CASE BeginTransaction
  <2>1. client.target \in Selections /\ ~Pending
    BY <1>4 DEF BeginTransaction, Paths
  <2> QED BY <1>4, <2>1, TransactionDoes DEF Journaled, Agreed
<1>5. CASE WriteRuntime
  <2>1. Written \in Config
    BY <1>5, WritesConfig DEF WriteRuntime
  <2> QED BY <1>5, <2>1, WriteDoes DEF Journaled, Pending
<1>6. CASE ApplyRefused \/ RequestRestart
  BY <1>6, RefusedDoes, RequestDoes DEF Journaled, Pending
<1>7. CASE HandshakeOk \/ HandshakeFails
  BY <1>7, HandshakeDoes DEF Journaled, Pending
<1>8. CASE AcknowledgeTransaction \/ AcknowledgeOld
  BY <1>8, ProvenIsPending, AcknowledgeDoes
  DEF Journaled, Applied, Paths, InPlace, Proven, SameClient
<1>9. CASE RestoreNode \/ RestoreLink
  BY <1>9, ProvenIsPending, StateDoes DEF Journaled, Pending
<1>10. CASE SaveCurrentFails
  BY <1>10, ProvenIsPending, SaveFailsDoes DEF Journaled, Pending
<1>11. CASE CommitPhase \/ RemoveArtifact
  BY <1>11, ProvenIsPending, CloseDoes DEF Journaled, Applied, SameClient
<1>12. CASE RemoveJournal
  BY <1>12, RemoveDoes DEF Journaled
<1>13. CASE Crash
  BY <1>13, CrashDoes DEF Journaled, Pending, Killable
<1>14. CASE SyncConfig
  BY <1>14, SyncDoes DEF Journaled, Pending
<1>15. CASE StartGateway \/ RestartSingBox
  BY <1>15, ServeDoes, GenerationDoes DEF Journaled, Pending, SameClient
<1>16. CASE TakeRequest \/ WriteAck \/ CompareRequest \/ RemoveRequest
  BY <1>16, ReplyDoes DEF Journaled, Pending
<1>17. CASE GatewayDies
  BY <1>17, DeathDoes DEF Journaled, Pending, Killable, Paths
<1>18. CASE UNCHANGED vars
  BY <1>18 DEF vars, Journaled, Pending
<1> QED
  BY <1>2, <1>3, <1>4, <1>5, <1>6, <1>7, <1>8, <1>9, <1>10, <1>11, <1>12, <1>13,
     <1>14, <1>15, <1>16, <1>17, <1>18
  DEF Next, Client, Gateway

LEMMA AppliedStep ==
  ASSUME SelectionInv, [Next]_vars
  PROVE  Applied'
<1> USE IdleFields DEF SelectionInv, files, InPlace, Proven, Closing, Restoring
<1>1. TypeOK /\ Paths /\ Journaled /\ Applied
  OBVIOUS
<1>2. CASE BeginApply \/ BeginRecovery \/ SwitchDNS
  BY <1>2, BeginDoes DEF Applied
<1>3. CASE OpenRefused \/ OpenClean \/ RecoverTransaction
  BY <1>3, OpenDoes DEF Applied, Journaled, Paths
<1>4. CASE BeginTransaction
  <2>1. client.target \in Selections
    BY <1>4 DEF BeginTransaction, Paths
  <2> QED BY <1>4, <2>1, TransactionDoes DEF Applied, Paths
<1>5. CASE WriteRuntime
  <2>1. Written \in Config
    BY <1>5, WritesConfig DEF WriteRuntime
  <2>2. client.why # "recheck"
    BY <1>5 DEF Applied, WriteRuntime
  <2> QED BY <1>5, <2>1, <2>2, WritesConfig, WriteDoes DEF Applied, Paths
<1>6. CASE ApplyRefused \/ RequestRestart
  BY <1>6, RefusedDoes, RequestDoes DEF Applied, Paths
<1>7. CASE HandshakeOk \/ HandshakeFails
  BY <1>7, HandshakeDoes DEF Applied, Paths
<1>8. CASE AcknowledgeTransaction \/ AcknowledgeOld
  BY <1>8, ProvenIsPending, AcknowledgeDoes DEF Applied, Paths, SameClient, Published
<1>9. CASE RestoreNode \/ RestoreLink
  <2>1. Published' = Published \/ client' = Idle
    BY <1>9, ProvenIsPending, StateDoes DEF Published, SameClient
  <2>2. client.why \in Why
    BY DEF TypeOK, ClientState
  <2>3. CASE RestoreNode
    <3>1. client.pc = "node" /\ client'.pc = "link"
      BY <1>9, <2>3, ProvenIsPending, StateDoes DEF RestoreNode
    <3> QED BY <1>9, <2>1, <3>1, ProvenIsPending, StateDoes DEF Applied, Paths, SameClient
  <2>4. CASE RestoreLink
    <3>1. client.pc = "link"
      BY <2>4 DEF RestoreLink
    <3>2. CASE client.why = "fallback"
      BY <1>9, <3>1, <3>2, ProvenIsPending, StateDoes DEF Applied
    <3>3. CASE client.why # "fallback"
      <4> DEFINE step == IF journal.phase = "prepared" THEN "ackOld"
                         ELSE IF journal.phase = "runtime-acknowledged" THEN "commit"
                         ELSE "complete"
      <4>1. /\ SameClient /\ client'.pc = step /\ runtime' = runtime /\ journal' = journal
            /\ state'.link = Published.link /\ state'.node = state.node
        BY <1>9, <3>1, <3>3, ProvenIsPending, StateDoes
      <4>2. Published' = Published
        BY <4>1 DEF Published, SameClient
      <4>3. client.op # "dns"
        BY <3>1 DEF Paths
      <4>4. client.why # "none" /\ client.why # "dns"
        BY <3>1, <4>3 DEF Paths, Working
      <4>5. step = "ackOld" => client.why \in Restoring
        BY <2>2, <3>1, <4>4 DEF Applied, Why
      <4>6. step \in {"commit", "complete"} => journal.phase # "prepared"
        OBVIOUS
      <4>7. step \in {"ackOld", "commit", "complete"}
        OBVIOUS
      <4> HIDE DEF step
      <4> QED BY <3>1, <4>1, <4>2, <4>3, <4>5, <4>6, <4>7 DEF Applied, SameClient
    <3> QED BY <3>2, <3>3
  <2> QED BY <1>9, <2>3, <2>4
<1>10. CASE SaveCurrentFails
  BY <1>10, ProvenIsPending, SaveFailsDoes DEF Applied, Paths
<1>11. CASE CommitPhase \/ RemoveArtifact
  <2>1. Published' = Published
    BY <1>11, ProvenIsPending, CloseDoes DEF Published, SameClient
  <2> QED BY <1>11, <2>1, ProvenIsPending, CloseDoes DEF Applied, Paths, SameClient
<1>12. CASE RemoveJournal
  BY <1>12, RemoveDoes DEF Applied, Paths, SameClient, NoJournal
<1>13. CASE Crash
  BY <1>13, CrashDoes DEF Applied
<1>14. CASE SyncConfig
  BY <1>14, SyncDoes DEF Applied, Paths
<1>15. CASE StartGateway \/ RestartSingBox
  <2>1. Published' = Published
    BY <1>15, ServeDoes, GenerationDoes DEF Published, SameClient
  <2> QED BY <1>15, <2>1, ServeDoes, GenerationDoes DEF Applied, SameClient
<1>16. CASE TakeRequest \/ WriteAck \/ CompareRequest \/ RemoveRequest
  BY <1>16, ReplyDoes DEF Applied, Published
<1>17. CASE GatewayDies
  BY <1>17, DeathDoes DEF Applied, Published
<1>18. CASE UNCHANGED vars
  BY <1>18 DEF vars, Applied, Published
<1> QED
  BY <1>2, <1>3, <1>4, <1>5, <1>6, <1>7, <1>8, <1>9, <1>10, <1>11, <1>12, <1>13,
     <1>14, <1>15, <1>16, <1>17, <1>18
  DEF Next, Client, Gateway

(* A journal is closed over a state and a configuration of one server.     *)
LEMMA ClosedAgrees ==
  ASSUME SelectionInv, Pending, client.pc = "complete"
  PROVE  /\ state = Selected(runtime.sel) /\ client.proven = runtime
         /\ gateway.pc = "down" \/ gateway.serves = runtime
<1> USE DEF SelectionInv
<1>1. client.why \in Why /\ state \in Snapshot
  BY DEF TypeOK, ClientState
<1>2. client.op # "dns" /\ client.why # "dns" /\ client.why # "none" /\ client.why # "fallback"
  BY DEF Paths, Working, Closing
<1>3. state.node = Published.node /\ state.link = Published.link
  BY DEF Applied, Closing
<1>4. Published = Selected(runtime.sel)
  <2>1. CASE client.why \in {"apply", "recheck"}
    BY <2>1 DEF Applied, InPlace, Proven, Published
  <2>2. CASE client.why \in Restoring
    BY <2>2 DEF Applied, InPlace, Proven, Published, Journaled, Restoring
  <2> QED BY <1>1, <1>2, <2>1, <2>2 DEF Why
<1>5. state = Selected(runtime.sel)
  BY <1>1, <1>3, <1>4 DEF Selected, Snapshot
<1>6. client.proven = runtime /\ (gateway.pc = "down" \/ gateway.serves = runtime)
  BY <1>2 DEF Handshake, Proven
<1> QED BY <1>5, <1>6

LEMMA AgreedStep ==
  ASSUME SelectionInv, [Next]_vars
  PROVE  Agreed'
<1> USE IdleFields DEF SelectionInv, files, Answering
<1>1. TypeOK /\ Paths /\ Applied /\ Agreed
  OBVIOUS
<1>2. CASE BeginApply \/ BeginRecovery \/ SwitchDNS
  BY <1>2, BeginDoes DEF Agreed, Pending
<1>3. CASE OpenRefused \/ OpenClean \/ RecoverTransaction
  BY <1>3, OpenDoes DEF Agreed, Pending
<1>4. CASE BeginTransaction
  <2>1. client.target \in Selections
    BY <1>4 DEF BeginTransaction, Paths
  <2> QED BY <1>4, <2>1, TransactionDoes DEF Agreed, Pending
<1>5. CASE WriteRuntime
  <2>1. Written \in Config
    BY <1>5, WritesConfig DEF WriteRuntime
  <2>2. ~Pending => Written.sel = runtime.sel
    <3> SUFFICES ASSUME ~Pending PROVE Written.sel = runtime.sel
      OBVIOUS
    <3>1. client.pc = "write"
      BY <1>5 DEF WriteRuntime
    <3>2. client.why = "dns" /\ client.op = "dns"
      BY <3>1 DEF Paths, Working
    <3>3. CASE client.undo
      BY <3>1, <3>2, <3>3, WritesConfig, Constants DEF Applied, Paths
    <3>4. CASE ~client.undo
      BY <3>1, <3>2, <3>4, WritesConfig
    <3> QED BY <3>3, <3>4
  <2> QED BY <1>5, <2>1, <2>2, WriteDoes DEF Agreed, Pending
<1>6. CASE ApplyRefused \/ RequestRestart
  BY <1>6, RefusedDoes, RequestDoes DEF Agreed, Pending
<1>7. CASE HandshakeOk \/ HandshakeFails
  BY <1>7, HandshakeDoes DEF Agreed, Pending
<1>8. CASE AcknowledgeTransaction \/ AcknowledgeOld
  BY <1>8, ProvenIsPending, AcknowledgeDoes, Constants DEF Agreed, Pending
<1>9. CASE RestoreNode \/ RestoreLink
  BY <1>9, ProvenIsPending, StateDoes DEF Agreed, Pending
<1>10. CASE SaveCurrentFails
  BY <1>10, ProvenIsPending, SaveFailsDoes DEF Agreed, Pending
<1>11. CASE CommitPhase \/ RemoveArtifact
  BY <1>11, ProvenIsPending, CloseDoes, Constants DEF Agreed, Pending
<1>12. CASE RemoveJournal
  <2>1. client.pc = "complete" /\ gateway' = gateway /\ UNCHANGED <<runtime, state>>
    BY <1>12, RemoveDoes
  <2> QED BY <1>12, <2>1, ProvenIsPending, ClosedAgrees DEF Agreed
<1>13. CASE Crash
  BY <1>13, CrashDoes DEF Agreed, Pending
<1>14. CASE SyncConfig
  BY <1>14, SyncDoes DEF Agreed, Pending
<1>15. CASE StartGateway \/ RestartSingBox
  BY <1>15, ServeDoes DEF Agreed, Pending
<1>16. CASE TakeRequest \/ WriteAck \/ CompareRequest \/ RemoveRequest
  BY <1>16, ReplyDoes DEF Agreed, Pending
<1>17. CASE GatewayDies
  BY <1>17, DeathDoes DEF Agreed, Applied, Pending
<1>18. CASE UNCHANGED vars
  BY <1>18 DEF vars, Agreed, Pending
<1> QED
  BY <1>2, <1>3, <1>4, <1>5, <1>6, <1>7, <1>8, <1>9, <1>10, <1>11, <1>12, <1>13,
     <1>14, <1>15, <1>16, <1>17, <1>18
  DEF Next, Client, Gateway

LEMMA SelectionInit == Init => SelectionInv
<1> SUFFICES ASSUME Init PROVE SelectionInv
  OBVIOUS
<1>1. ~Pending /\ client = Idle /\ gateway = Down
  BY DEF Init, Pending, NoJournal
<1>2. state = Selected(runtime.sel)
  BY DEF Init
<1>3. Handshake /\ Applied
  BY <1>1, IdleFields DEF Handshake, Applied, InPlace, Proven, Closing
<1> QED BY <1>1, <1>2, <1>3, CoreInit, IdleFields DEF SelectionInv, Journaled, Agreed, Answering

LEMMA SelectionInvariant ==
  ASSUME "abortkill" \notin Hazards
  PROVE  Spec => []SelectionInv
<1>1. SelectionInv /\ [Next]_vars => SelectionInv'
  <2> SUFFICES ASSUME SelectionInv, [Next]_vars PROVE SelectionInv'
    OBVIOUS
  <2>1. TypeOK' /\ Paths' /\ Handshake'
    BY TypeStep, PathsStep, HandshakeStep DEF SelectionInv
  <2> QED BY <2>1, JournaledStep, AppliedStep, AgreedStep DEF SelectionInv
<1> QED BY <1>1, SelectionInit, PTL DEF Spec

(* With no transaction pending, the node file, the link file, the          *)
(* configuration and what an idle gateway serves name one server, whoever  *)
(* is killed, dies, is late or is cancelled.  Only a kill between an       *)
(* abort's last acknowledgement and the removal of its journal is left     *)
(* out: SelectionAbortCrash shows that one to break it.                    *)
THEOREM FilesAgree ==
  ASSUME "abortkill" \notin Hazards
  PROVE  Spec => []SelectionAgrees
<1>1. SelectionInv => SelectionAgrees
  BY DEF SelectionInv, Agreed, SelectionAgrees, Answering
<1> QED BY <1>1, SelectionInvariant, PTL

LEMMA AnsweredServes ==
  ASSUME Handshake, HandshakeOk
  PROVE  gateway.serves \in {runtime, NoConfig}
BY IdleFields DEF Handshake, HandshakeOk, Acknowledged, Answering

(* Only two steps begin and end a transaction; every other one leaves the  *)
(* journal's selections alone.                                             *)
LEMMA OthersKeepJournal ==
  ASSUME TypeOK, Paths, [Next]_vars, ~BeginTransaction, ~RemoveJournal
  PROVE  /\ Pending' <=> Pending
         /\ Pending => /\ journal'.old = journal.old /\ journal'.new = journal.new
                       /\ journal'.oldState = journal.oldState
<1> USE DEF files, Pending
<1>1. CASE WriteRuntime
  BY <1>1 DEF WriteRuntime
<1>2. CASE HandshakeOk \/ HandshakeFails
  BY <1>2, HandshakeDoes
<1>3. CASE AcknowledgeTransaction \/ AcknowledgeOld
  BY <1>3, ProvenIsPending, AcknowledgeDoes
<1>4. CASE RestoreNode \/ RestoreLink
  BY <1>4, ProvenIsPending, StateDoes
<1>5. CASE CommitPhase \/ RemoveArtifact
  BY <1>5, ProvenIsPending, CloseDoes, Constants
<1>6. CASE \/ BeginApply \/ BeginRecovery \/ SwitchDNS
           \/ OpenRefused \/ OpenClean \/ RecoverTransaction \/ ApplyRefused
           \/ RequestRestart \/ SaveCurrentFails \/ Crash
           \/ SyncConfig \/ StartGateway \/ RestartSingBox \/ TakeRequest \/ WriteAck
           \/ CompareRequest \/ RemoveRequest \/ GatewayDies \/ UNCHANGED vars
  <2>1. journal' = journal
    BY <1>6
    DEF BeginApply, BeginRecovery, SwitchDNS, OpenRefused, OpenClean, RecoverTransaction,
        ApplyRefused, RequestRestart, SaveCurrentFails, Crash, SyncConfig, StartGateway,
        RestartSingBox, TakeRequest, WriteAck, CompareRequest, RemoveRequest, GatewayDies, vars
  <2> QED BY <2>1
<1> QED BY <1>1, <1>2, <1>3, <1>4, <1>5, <1>6 DEF Next, Client, Gateway

(* A journal is closed only by the client that had its configuration       *)
(* proved.                                                                 *)
LEMMA ClosedIsProved ==
  ASSUME TypeOK, Paths, Handshake, [Next]_vars, Pending, journal' = NoJournal
  PROVE  client.proven = runtime
<1>1. ~Pending'
  BY DEF Pending, NoJournal
<1>2. ~BeginTransaction
  BY DEF BeginTransaction, Paths
<1>3. RemoveJournal
  BY <1>1, <1>2, OthersKeepJournal
<1>4. client.pc = "complete"
  BY <1>3 DEF RemoveJournal
<1> QED BY <1>4 DEF Handshake, Paths, Proven, Closing

(* An acknowledgement means what it says, and a journal is closed only     *)
(* over a configuration this client had proved (serveGateway's handshake,  *)
(* recoverTransactionLocked), besides the agreement of the files.          *)
THEOREM RuntimeIsProved ==
  ASSUME "abortkill" \notin Hazards
  PROVE  Spec => RuntimeProved
<1>1. Handshake => (HandshakeOk => gateway.serves \in {runtime, NoConfig})
  BY AnsweredServes
<1>2. /\ TypeOK /\ Paths /\ Handshake /\ [Next]_vars
      => (Pending /\ journal' = NoJournal => client.proven = runtime)
  BY ClosedIsProved
<1>3. Spec => [][HandshakeOk => gateway.serves \in {runtime, NoConfig}]_vars
  BY <1>1, HandshakeInvariant, PTL DEF Spec
<1>4. Spec => [][Pending /\ journal' = NoJournal => client.proven = runtime]_vars
  BY <1>2, HandshakeInvariant, PTL DEF Spec
<1> QED BY <1>3, <1>4, FilesAgree, PTL DEF RuntimeProved

-----------------------------------------------------------------------------
(* Applying is atomic.                                                     *)

(* What is shown while no transaction is pending changes with one only.    *)
LEMMA OthersKeepSelection ==
  ASSUME SelectionInv, [Next]_vars, ~BeginTransaction, ~RemoveJournal, ~Pending
  PROVE  state' = state /\ runtime'.sel = runtime.sel
<1> USE DEF SelectionInv, files
<1>1. ~Pending'
  BY OthersKeepJournal
<1>2. state' = state
  <2>1. ~RestoreNode /\ ~RestoreLink /\ ~SaveCurrentFails
    BY ProvenIsPending
  <2> QED
    BY <2>1
    DEF Next, Client, Gateway, BeginApply, BeginRecovery, SwitchDNS, OpenRefused, OpenClean,
        RecoverTransaction, WriteRuntime, ApplyRefused, RequestRestart, HandshakeOk,
        HandshakeFails, AcknowledgeTransaction, AcknowledgeOld, CommitPhase, RemoveArtifact,
        Crash, SyncConfig, StartGateway, RestartSingBox, TakeRequest, WriteAck,
        CompareRequest, RemoveRequest, GatewayDies, vars
<1>3. state = Selected(runtime.sel) /\ state' = Selected(runtime'.sel)
  BY <1>1, AgreedStep DEF Agreed, Selected
<1> QED BY <1>2, <1>3 DEF Selected

(* Between two states without a journal the selection a user sees changed  *)
(* as one to the server asked for, or not at all: the transaction          *)
(* implements AtomicSelection, whose change is made when the journal is    *)
(* removed (RemoveTransaction).                                            *)
THEOREM ApplyImplementsAtomic ==
  ASSUME "abortkill" \notin Hazards
  PROVE  Spec => ApplyIsAtomic
<1> DEFINE sel == IF Pending
                    THEN [node |-> journal.oldState.node, link |-> journal.oldState.link,
                          config |-> journal.old.sel]
                    ELSE [node |-> state.node, link |-> state.link, config |-> runtime.sel]
           want == IF Pending THEN journal.new ELSE "nothing"
<1>1. Init => Atomic!Init
  <2> SUFFICES ASSUME Init PROVE Atomic!Init
    OBVIOUS
  <2>1. ~Pending
    BY DEF Init, Pending, NoJournal
  <2>2. state = Selected(runtime.sel) /\ runtime.sel \in Selections
    BY DEF Init
  <2> QED BY <2>1, <2>2 DEF Atomic!Init, Atomic!Agreed, Atomic!Nothing, Selected
<1>2. SelectionInv /\ [Next]_vars => [Atomic!Next]_<<sel, want>>
  <2> SUFFICES ASSUME SelectionInv, [Next]_vars PROVE [Atomic!Next]_<<sel, want>>
    OBVIOUS
  <2> USE DEF SelectionInv
  <2>1. CASE BeginTransaction
    <3>1. client.target \in Selections /\ ~Pending
      BY <2>1 DEF BeginTransaction, Paths
    <3>2. /\ Pending' /\ journal'.old = runtime /\ journal'.oldState = state
          /\ journal'.new = client.target
      BY <2>1, <3>1, TransactionDoes, Constants DEF Pending
    <3>3. sel' = sel /\ want = "nothing" /\ want' \in Selections
      BY <3>1, <3>2
    <3> QED BY <3>3 DEF Atomic!Next, Atomic!Request, Atomic!Nothing
  <2>2. CASE RemoveJournal
    <3>1. Pending /\ client.pc = "complete" /\ ~Pending'
      BY <2>2, ProvenIsPending, RemoveDoes
    <3>2. state' = state /\ runtime' = runtime
      BY <2>2, RemoveDoes
    <3>3. want # "nothing" /\ want' = "nothing"
      BY <3>1, PublishedIsSnapshot, SelectionShape DEF Journal
    <3>4. sel' = [node |-> runtime.sel, link |-> runtime.sel, config |-> runtime.sel]
      BY <3>1, <3>2, ClosedAgrees DEF Selected
    <3>5. CASE client.why \in {"apply", "recheck"}
      <4>1. runtime.sel = journal.new
        BY <3>1, <3>5 DEF Applied, InPlace, Proven
      <4> QED BY <3>1, <3>3, <3>4, <4>1 DEF Atomic!Next, Atomic!Publish, Atomic!Nothing,
                                            Atomic!Agreed
    <3>6. CASE client.why \in Restoring
      <4>1. runtime = journal.old /\ journal.oldState = Selected(journal.old.sel)
        BY <3>1, <3>6 DEF Applied, InPlace, Proven, Journaled
      <4>2. sel' = sel
        BY <3>1, <3>4, <4>1 DEF Selected
      <4> QED BY <3>3, <4>2 DEF Atomic!Next, Atomic!Withdraw, Atomic!Nothing
    <3>7. client.why \in {"apply", "recheck"} \cup Restoring
      BY <3>1 DEF Paths, Working, TypeOK, ClientState, Why
    <3> QED BY <3>5, <3>6, <3>7
  <2>3. CASE ~BeginTransaction /\ ~RemoveJournal
    <3>1. CASE Pending
      <4>1. sel' = sel /\ want' = want
        BY <2>3, <3>1, OthersKeepJournal
      <4> QED BY <4>1
    <3>2. CASE ~Pending
      <4>1. sel' = sel /\ want' = want
        BY <2>3, <3>2, OthersKeepJournal, OthersKeepSelection
      <4> QED BY <4>1
    <3> QED BY <3>1, <3>2
  <2> QED BY <2>1, <2>2, <2>3
<1> QED BY <1>1, <1>2, SelectionInvariant, PTL DEF Spec, ApplyIsAtomic, Atomic!Spec
================================================================================
