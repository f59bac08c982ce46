------------------------- MODULE LinearInstallProofs -------------------------
(***************************************************************************)
(* What LinearInstall guarantees for any number of callbacks, states,      *)
(* workers and rotations: every token Linear would accept is accounted     *)
(* for, a revocation spares what was installed after it, a revoked row is  *)
(* final, and no interleaving of refreshes costs a row its credential.     *)
(***************************************************************************)
EXTENDS LinearInstall, TLAPS

----------------------------------------------------------------------------
(* The inductive invariant                                                 *)

Jobs == [inst : Callbacks \cup {NoOne}, spent : 0 .. MaxGen, got : 0 .. NoToken]

\* A worker on its way has the row it resolved.
HasRow(w) == wpc[w] \in {"read", "refresh", "rotate", "reread"} =>
               job[w].inst \in Callbacks

TypeInv == TypeOK /\ \A w \in Workers : HasRow(w)

\* A state some callback used is spent.
SpentInv == \A c \in Callbacks : used[c] # NoOne => states[used[c]] = "consumed"

\* What a callback has in hand before the exchange and on its way out, and when
\* its row exists.
HandInv == \A c \in Callbacks :
  /\ pc[c] \in {"idle", "exchange"} => held[c] = {}
  /\ pc[c] = "revoke_access" => "refresh" \notin held[c]
  /\ pc[c] # "done" => inst[c] = "none"

\* The rows a revocation event covers exist, and nothing of them is accepted at
\* Linear any more: only an exchange brings tokens to life.
RevocationInv == \A m \in revocations : \A c \in m :
  inst[c] # "none" /\ live \cap ({c} \X Tokens) = {}

\* The stored generation is the newest one or the one before it.
GenerationInv == \A c \in Callbacks :
  stored[c] <= issued[c] /\ issued[c] <= stored[c] + 1

\* A refresh in flight spends a generation the row has or had; what it got is
\* the next one.
RefreshInv == \A w \in Workers :
  /\ wpc[w] \in {"refresh", "rotate"} => job[w].spent <= stored[job[w].inst]
  /\ wpc[w] = "rotate" /\ job[w].got # NoToken =>
       job[w].got = job[w].spent + 1 /\ job[w].got <= issued[job[w].inst]

\* A worker on its way has a row that exists.
RowInv == \A w \in Workers :
  wpc[w] \in {"read", "refresh", "rotate", "reread"} => inst[job[w].inst] # "none"

\* Where the newest token is not stored yet, a worker brings it, having spent
\* the stored one, or it was lost on its way.
Brings(w, c) == HasNewest(w) /\ job[w].inst = c /\ job[w].spent = stored[c]

CarrierInv == \A c \in Callbacks :
  inst[c] # "revoked" /\ issued[c] = stored[c] + 1 =>
    (\E w \in Workers : Brings(w, c)) \/ c \in unheard

InstallInv == /\ TypeInv
              /\ SpentInv
              /\ HandInv
              /\ GrantAccounted
              /\ RevocationInv
              /\ RevocationSparesReinstall
              /\ GenerationInv
              /\ RefreshInv
              /\ RowInv
              /\ CarrierInv

\* What the callbacks, the revocations and Linear's view of the tokens are
\* about, and what the refreshes are about.
GrantSide == <<states, pc, used, held, live, lost, inst, revocations>>
RefreshSide == <<stored, issued, unheard, wpc, job>>

----------------------------------------------------------------------------
(* Types                                                                   *)

LEMMA InitTypeInv ==
  Init => TypeInv
BY InstallAssumption
DEF Init, TypeInv, TypeOK, HasRow, PCs, WorkerPCs, NoJob, NoToken, Tokens

\* A worker that leaves or hands a token out has no job any more.
LEMMA NoJobTypes ==
  ASSUME TypeInv, NEW w \in Workers, Leave(w) \/ HandOut(w)
  PROVE  /\ wpc' \in [Workers -> WorkerPCs] /\ job' \in [Workers -> Jobs]
         /\ \A v \in Workers : HasRow(v)'
<1>1. wpc \in [Workers -> WorkerPCs] /\ job \in [Workers -> Jobs]
  BY DEF TypeInv, TypeOK, Jobs
<1>2. NoJob \in Jobs
  BY InstallAssumption DEF NoJob, Jobs, NoToken
<1>3. PICK l \in {"idle", "emit"} :
        wpc' = [wpc EXCEPT ![w] = l] /\ job' = [job EXCEPT ![w] = NoJob]
  BY DEF Leave, HandOut, WGoto
<1>4. wpc' \in [Workers -> WorkerPCs] /\ job' \in [Workers -> Jobs]
  BY <1>1, <1>2, <1>3 DEF WorkerPCs
<1>5. \A v \in Workers : HasRow(v)'
  BY <1>1, <1>3 DEF TypeInv, HasRow
<1> QED BY <1>4, <1>5

LEMMA NextTypeInv ==
  TypeInv /\ [Next]_vars => TypeInv'
<1> SUFFICES ASSUME TypeInv, [Next]_vars PROVE TypeInv'
  OBVIOUS
<1> USE InstallAssumption
<1>1. /\ TypeOK /\ \A w \in Workers : HasRow(w)
      /\ wpc \in [Workers -> WorkerPCs] /\ job \in [Workers -> Jobs]
  BY DEF TypeInv, TypeOK, Jobs
<1>2. CASE UNCHANGED vars
  BY <1>1, <1>2 DEF vars, oauth, gens, refresh, TypeInv, TypeOK, HasRow
<1>3. ASSUME NEW s \in States, BeginInstallation(s) \/ ExpireState(s)
      PROVE  TypeInv'
  BY <1>1, <1>3
  DEF BeginInstallation, ExpireState, gens, refresh, TypeInv, TypeOK, HasRow
<1>4. CASE \/ Uninstall
           \/ \E m \in SUBSET Callbacks : ApplyRevocation(m)
           \/ \E c \in Callbacks : EndGrace(c)
  BY <1>1, <1>4
  DEF Uninstall, ApplyRevocation, EndGrace, Created, oauth, gens, refresh, TypeInv,
      TypeOK, HasRow
<1>5. ASSUME NEW c \in Callbacks, Install(c) \/ ExpireToken(c)
      PROVE  TypeInv'
  <2>1. UNCHANGED <<wpc, job, stored, issued, replayable, unheard, revocations>>
    BY <1>5 DEF Install, ConsumeState, Decline, ExchangeCode, Validate,
                InsertInstallation, RevokeToken, CrashCallback, ExpireToken,
                gens, refresh
  <2>2. \A w \in Workers : HasRow(w)'
    BY <1>1, <2>1 DEF HasRow
  <2>3. /\ states' \in [States -> {"none", "open", "expired", "consumed"}]
        /\ used' \in [Callbacks -> States \cup {NoOne}]
    BY <1>1, <1>5
    DEF TypeOK, Install, ConsumeState, Decline, ExchangeCode, Validate,
        InsertInstallation, RevokeToken, CrashCallback, ExpireToken, oauth
  <2>4. pc' \in [Callbacks -> PCs]
    BY <1>1, <1>5
    DEF TypeOK, Install, ConsumeState, Decline, ExchangeCode, Validate, PCs, Goto,
        InsertInstallation, RevokeToken, CrashCallback, ExpireToken, oauth
  <2>5. /\ held' \in [Callbacks -> SUBSET Tokens]
        /\ live' \subseteq Callbacks \X Tokens
        /\ lost' \subseteq Callbacks \X Tokens
    <3>1. held[c] \subseteq Tokens
      BY <1>1 DEF TypeOK
    <3>2. CASE ExchangeCode(c)
      BY <1>1, <3>2 DEF ExchangeCode, TypeOK, Grants, Tokens
    <3>3. CASE RevokeToken(c)
      BY <1>1, <3>1, <3>3 DEF RevokeToken, HandBack, TypeOK, Tokens
    <3>4. CASE InsertInstallation(c)
      BY <1>1, <3>4 DEF InsertInstallation, TypeOK
    <3>5. CASE CrashCallback(c)
      BY <1>1, <3>1, <3>5 DEF CrashCallback, TypeOK
    <3>6. CASE ConsumeState(c) \/ Decline(c) \/ Validate(c) \/ ExpireToken(c)
      BY <1>1, <3>6
      DEF ConsumeState, Decline, Validate, ExpireToken, oauth, TypeOK
    <3> QED BY <1>5, <3>2, <3>3, <3>4, <3>5, <3>6 DEF Install
  <2>6. /\ inst' \in [Callbacks -> {"none", "active", "revoked"}]
        /\ fresh' \in [Callbacks -> BOOLEAN]
    BY <1>1, <1>5
    DEF TypeOK, Install, ConsumeState, Decline, ExchangeCode, Validate,
        InsertInstallation, RevokeToken, CrashCallback, ExpireToken, oauth
  <2> QED
    BY <1>1, <2>1, <2>2, <2>3, <2>4, <2>5, <2>6 DEF TypeInv, TypeOK
<1>6. ASSUME NEW w \in Workers, Work(w)
      PROVE  TypeInv'
  <2>1. UNCHANGED <<oauth, live, lost, inst, revocations>>
    BY <1>6 DEF Work, Resolve, ReadInstallation, RefreshTokens, RotateTokens,
                Reread, Emit, CrashWorker
  <2> DEFINE Kept == /\ wpc' \in [Workers -> WorkerPCs]
                     /\ job' \in [Workers -> Jobs]
                     /\ \A v \in Workers : HasRow(v)'
  <2>2. Kept
    <3>1. CASE Leave(w) \/ HandOut(w)
      BY <3>1, NoJobTypes
    <3>2. CASE Resolve(w)
      BY <1>1, <3>2 DEF Resolve, Active, WGoto, WorkerPCs, Jobs, HasRow
    <3>3. ASSUME job' = [job EXCEPT ![w].spent = stored[job[w].inst]],
                 WGoto(w, "refresh"), wpc[w] = "read"
          PROVE  Kept
      <4>1. job[w].inst \in Callbacks /\ stored[job[w].inst] \in 0 .. MaxGen
        BY <1>1, <3>3 DEF HasRow, TypeOK
      <4> QED BY <1>1, <3>3, <4>1 DEF WGoto, WorkerPCs, Jobs, HasRow
    <3>4. CASE RefreshTokens(w)
      <4>1. job[w].inst \in Callbacks /\ issued[job[w].inst] \in 0 .. MaxGen
        BY <1>1, <3>4 DEF RefreshTokens, HasRow, TypeOK
      <4>2. CASE NoAnswer(w)
        BY <3>1, <4>2 DEF NoAnswer
      <4>3. ASSUME NEW t \in Answers(job[w].inst, job[w].spent),
                   job' = [job EXCEPT ![w].got = t], WGoto(w, "rotate")
            PROVE  Kept
        <5>1. t \in 0 .. NoToken
          BY <1>1, <4>1 DEF Answers, NoToken, Jobs
        <5> QED BY <1>1, <4>1, <4>3, <5>1 DEF WGoto, WorkerPCs, Jobs, HasRow
      <4> QED BY <3>4, <4>2, <4>3 DEF RefreshTokens
    <3>5. ASSUME WGoto(w, "reread"), wpc[w] = "rotate",
                 job' = [job EXCEPT ![w] = [NoJob EXCEPT !.inst = job[w].inst]]
          PROVE  Kept
      <4>1. [NoJob EXCEPT !.inst = job[w].inst] \in Jobs
        BY <1>1, <3>5 DEF HasRow, NoJob, Jobs, NoToken
      <4>2. [NoJob EXCEPT !.inst = job[w].inst].inst \in Callbacks
        BY <1>1, <3>5 DEF HasRow, NoJob
      <4> QED BY <1>1, <3>5, <4>1, <4>2 DEF WGoto, WorkerPCs, HasRow
    <3> QED
      BY <1>6, <3>1, <3>2, <3>3, <3>4, <3>5
      DEF Work, ReadInstallation, RotateTokens, Reread, Emit, CrashWorker
  <2>3. /\ stored' \in [Callbacks -> 0 .. MaxGen]
        /\ fresh' \in [Callbacks -> BOOLEAN]
    <3>1. UNCHANGED <<stored, fresh>> \/ RotateTokens(w)
      BY <1>6 DEF Work, Resolve, ReadInstallation, RefreshTokens, Reread, Emit,
                  CrashWorker
    <3>2. job[w].got \in 0 .. MaxGen + 1
      BY <1>1 DEF Jobs, NoToken
    <3>3. CASE RotateTokens(w)
      <4>1. \/ UNCHANGED <<stored, fresh>>
            \/ \E c \in Callbacks, u \in 0 .. MaxGen :
                 /\ stored' = [stored EXCEPT ![c] = u]
                 /\ fresh' = [fresh EXCEPT ![c] = TRUE]
        <5> DEFINE c == job[w].inst
                   u == IF job[w].got = NoToken THEN stored[c] ELSE job[w].got
        <5>1. c \in Callbacks /\ stored[c] \in 0 .. MaxGen
          BY <1>1, <3>3 DEF RotateTokens, HasRow, TypeOK
        <5>2. u \in 0 .. MaxGen
          BY <3>2, <5>1 DEF NoToken
        <5> QED BY <3>3, <5>1, <5>2 DEF RotateTokens
      <4>2. /\ stored \in [Callbacks -> 0 .. MaxGen]
            /\ fresh \in [Callbacks -> BOOLEAN]
        BY <1>1 DEF TypeOK
      <4>3. CASE UNCHANGED <<stored, fresh>>
        BY <4>2, <4>3
      <4>4. ASSUME NEW c \in Callbacks, NEW u \in 0 .. MaxGen,
                   stored' = [stored EXCEPT ![c] = u],
                   fresh' = [fresh EXCEPT ![c] = TRUE]
            PROVE  /\ stored' \in [Callbacks -> 0 .. MaxGen]
                   /\ fresh' \in [Callbacks -> BOOLEAN]
        BY <4>2, <4>4
      <4> QED BY <4>1, <4>3, <4>4
    <3> QED BY <1>1, <3>1, <3>3 DEF TypeOK
  <2>4. issued' \in [Callbacks -> 0 .. MaxGen]
    BY <1>1, <1>6
    DEF TypeOK, NoToken, Jobs, Work, Resolve, ReadInstallation, RefreshTokens,
        RotateTokens, Reread, Emit, CrashWorker, Answers, Answered, gens
  <2>5. replayable' \subseteq Callbacks /\ unheard' \subseteq Callbacks
    <3>1. CASE UNCHANGED gens
      BY <1>1, <3>1 DEF TypeOK, gens
    <3>2. wpc[w] \in {"read", "refresh", "rotate", "reread"} =>
            job[w].inst \in Callbacks
      BY <1>1 DEF HasRow
    <3>3. CASE RefreshTokens(w)
      BY <1>1, <3>1, <3>2, <3>3 DEF TypeOK, RefreshTokens, Answered, Carried
    <3>4. CASE CrashWorker(w)
      BY <1>1, <3>2, <3>4 DEF TypeOK, CrashWorker, WorkerPCs, HasNewest
    <3> QED
      BY <1>6, <3>1, <3>3, <3>4
      DEF Work, Resolve, ReadInstallation, RotateTokens, Reread, Emit
  <2> QED
    BY <1>1, <2>1, <2>2, <2>3, <2>4, <2>5 DEF TypeInv, TypeOK, Jobs, oauth
<1> QED BY <1>2, <1>3, <1>4, <1>5, <1>6 DEF Next

----------------------------------------------------------------------------
(* Grants and revocations: no refresh takes part                           *)

GrantInv == /\ SpentInv
            /\ HandInv
            /\ GrantAccounted
            /\ RevocationInv
            /\ RevocationSparesReinstall

LEMMA InitGrantInv ==
  Init => GrantInv
BY DEF Init, GrantInv, SpentInv, HandInv, GrantAccounted, RevocationInv,
       RevocationSparesReinstall

\* Nothing depends on what the refreshes change.
LEMMA GrantSideKept ==
  ASSUME GrantInv, UNCHANGED GrantSide
  PROVE  GrantInv'
BY DEF GrantSide, GrantInv, SpentInv, HandInv, GrantAccounted, RevocationInv,
       RevocationSparesReinstall

\* A callback's step that brings no token to life and touches no row keeps the
\* invariant when it keeps what the callback has in hand accounted for.
LEMMA CallbackKeeps ==
  ASSUME GrantInv, TypeOK, TypeOK', NEW c \in Callbacks,
         UNCHANGED <<inst, revocations, states, used>>,
         live' \subseteq live, lost \subseteq lost',
         pc[c] # "idle", pc'[c] # "idle", pc'[c] # "exchange",
         pc[c] # "done",
         \A d \in Callbacks \ {c} : pc'[d] = pc[d] /\ held'[d] = held[d],
         pc'[c] = "revoke_access" => "refresh" \notin held'[c],
         \A t \in Tokens : <<c, t>> \in live' /\ t \in held[c] =>
           <<c, t>> \in lost' \/ (pc'[c] # "done" /\ t \in held'[c])
  PROVE  GrantInv'
<1>1. SpentInv'
  BY DEF GrantInv, SpentInv
<1>2. HandInv'
  BY DEF GrantInv, HandInv
<1>3. GrantAccounted'
  <2> SUFFICES ASSUME NEW g \in live'
               PROVE  \/ g \in lost' \/ inst'[g[1]] # "none"
                      \/ pc'[g[1]] # "done" /\ g[2] \in held'[g[1]]
    BY DEF GrantInv, GrantAccounted
  <2>1. g \in live /\ g[1] \in Callbacks /\ g[2] \in Tokens /\ g = <<g[1], g[2]>>
    BY DEF TypeOK
  <2>2. \/ g \in lost \/ inst[g[1]] # "none"
        \/ pc[g[1]] # "done" /\ g[2] \in held[g[1]]
    BY <2>1 DEF GrantInv, GrantAccounted
  <2>3. CASE g[1] = c
    BY <2>1, <2>2, <2>3
  <2>4. CASE g[1] # c
    BY <2>1, <2>2, <2>4
  <2> QED BY <2>3, <2>4
<1>4. RevocationInv'
  BY DEF GrantInv, RevocationInv
<1>5. RevocationSparesReinstall'
  BY DEF GrantInv, RevocationSparesReinstall
<1> QED BY <1>1, <1>2, <1>3, <1>4, <1>5 DEF GrantInv

\* A code is exchanged: only here a token comes to life.
LEMMA ExchangeKeeps ==
  ASSUME GrantInv, TypeOK, TypeOK', NEW c \in Callbacks, ExchangeCode(c)
  PROVE  GrantInv'
<1>1. /\ pc[c] = "exchange" /\ held[c] = {} /\ inst[c] = "none"
      /\ UNCHANGED <<states, used, inst, revocations>>
  BY DEF ExchangeCode, GrantInv, HandInv
<1> DEFINE Outcome(g, k, l) ==
      /\ live' = live \cup ({c} \X k) /\ pc' = [pc EXCEPT ![c] = l]
      /\ \/ l = "validate" /\ k = g /\ lost' = lost
         \/ l = "done" /\ g = {} /\ lost' = lost \cup ({c} \X k)
      /\ held' = [held EXCEPT ![c] = g]
<1>2. PICK g \in SUBSET Tokens, k \in SUBSET Tokens, l \in {"validate", "done"} :
        Outcome(g, k, l)
  <2>1. ASSUME NEW h \in Grants, held' = [held EXCEPT ![c] = h],
               live' = live \cup ({c} \X h), Goto(c, "validate"), UNCHANGED lost
        PROVE  h \in SUBSET Tokens /\ Outcome(h, h, "validate")
    BY <2>1 DEF Goto, Grants, Tokens
  <2>2. held = [held EXCEPT ![c] = {}]
    BY <1>1 DEF TypeOK
  <2>3. ASSUME /\ live' = live \cup ({c} \X Tokens)
               /\ lost' = lost \cup ({c} \X Tokens)
               /\ Goto(c, "done") /\ UNCHANGED held
        PROVE  Outcome({}, Tokens, "done")
    BY <2>2, <2>3 DEF Goto
  <2>4. ASSUME Goto(c, "done"), UNCHANGED <<held, live, lost>>
        PROVE  Outcome({}, {}, "done")
    <3>1. live' = live \cup ({c} \X {}) /\ lost' = lost \cup ({c} \X {})
      BY <2>4
    <3> QED BY <2>2, <2>4, <3>1 DEF Goto
  <2> HIDE DEF Outcome
  <2> QED BY <2>1, <2>3, <2>4 DEF ExchangeCode
<1>3. /\ pc'[c] = l /\ held'[c] = g
      /\ \A d \in Callbacks \ {c} : pc'[d] = pc[d] /\ held'[d] = held[d]
  BY <1>2 DEF TypeOK
<1>4. SpentInv'
  BY <1>1 DEF GrantInv, SpentInv
<1>5. HandInv'
  BY <1>1, <1>2, <1>3 DEF GrantInv, HandInv
<1>6. GrantAccounted'
  <2> SUFFICES ASSUME NEW x \in live'
               PROVE  \/ x \in lost' \/ inst'[x[1]] # "none"
                      \/ pc'[x[1]] # "done" /\ x[2] \in held'[x[1]]
    BY <1>1 DEF GrantInv, GrantAccounted
  <2>1. CASE x \in {c} \X k
    BY <1>2, <1>3, <2>1
  <2>2. CASE x \in live
    <3>1. x[1] \in Callbacks /\ x[2] \in Tokens /\ lost \subseteq lost'
      BY <1>2, <2>2 DEF TypeOK
    <3>2. \/ x \in lost \/ inst[x[1]] # "none"
          \/ pc[x[1]] # "done" /\ x[2] \in held[x[1]]
      BY <2>2 DEF GrantInv, GrantAccounted
    <3> QED BY <1>1, <1>3, <3>1, <3>2
  <2> QED BY <1>2, <2>1, <2>2
<1>7. RevocationInv'
  <2>1. \A m \in revocations : c \notin m
    BY <1>1 DEF GrantInv, RevocationInv
  <2>2. \A d \in Callbacks : d # c =>
          live' \cap ({d} \X Tokens) = live \cap ({d} \X Tokens)
    BY <1>2
  <2>3. \A m \in revocations : m \subseteq Callbacks
    BY DEF TypeOK
  <2> QED BY <1>1, <2>1, <2>2, <2>3 DEF GrantInv, RevocationInv
<1>8. RevocationSparesReinstall'
  BY <1>1, <1>2 DEF GrantInv, RevocationSparesReinstall
<1> QED BY <1>4, <1>5, <1>6, <1>7, <1>8 DEF GrantInv

\* A state is consumed, or the callback ends without an exchange.
LEMMA ConsumeKeeps ==
  ASSUME GrantInv, TypeOK, NEW c \in Callbacks, ConsumeState(c) \/ Decline(c)
  PROVE  GrantInv'
<1>1. /\ pc[c] = "idle" /\ held[c] = {} /\ inst[c] = "none"
      /\ UNCHANGED <<held, live, lost, inst, revocations>>
  BY DEF ConsumeState, Decline, GrantInv, HandInv
<1>2. /\ pc'[c] \in {"exchange", "done"}
      /\ \A d \in Callbacks \ {c} : pc'[d] = pc[d]
  BY DEF ConsumeState, Decline, Goto, TypeOK
<1>3. /\ HandInv' /\ RevocationInv' /\ RevocationSparesReinstall'
  BY <1>1, <1>2 DEF GrantInv, HandInv, RevocationInv, RevocationSparesReinstall
<1>4. \A g \in live' : \/ g \in lost' \/ inst'[g[1]] # "none"
                       \/ pc'[g[1]] # "done" /\ g[2] \in held'[g[1]]
  <2>1. \A g \in live : g[1] \in Callbacks
    BY DEF TypeOK
  <2> QED BY <1>1, <1>2, <2>1 DEF GrantInv, GrantAccounted
<1>5. CASE UNCHANGED <<states, used>>
  BY <1>3, <1>4, <1>5 DEF GrantInv, SpentInv, GrantAccounted
<1>6. ASSUME NEW s \in States, states[s] = "open",
             states' = [states EXCEPT ![s] = "consumed"],
             used' = [used EXCEPT ![c] = s]
      PROVE  GrantInv'
  <2>1. \A d \in Callbacks : used[d] # NoOne => used[d] \in States \ {s}
    BY <1>6 DEF TypeOK, GrantInv, SpentInv
  <2>2. /\ used'[c] = s /\ \A d \in Callbacks \ {c} : used'[d] = used[d]
        /\ states'[s] = "consumed"
        /\ \A o \in States \ {s} : states'[o] = states[o]
    BY <1>6 DEF TypeOK
  <2>3. SpentInv'
    BY <2>1, <2>2 DEF GrantInv, SpentInv
  <2>4. \A d, e \in Callbacks : used'[d] = used'[e] /\ used'[d] # NoOne => d = e
    BY <2>1, <2>2 DEF GrantInv, GrantAccounted
  <2> QED BY <1>3, <1>4, <2>3, <2>4 DEF GrantInv, GrantAccounted
<1> QED BY <1>5, <1>6 DEF ConsumeState, Decline, Consumable

\* The row is inserted by a callback that then has nothing in hand.
LEMMA InsertKeeps ==
  ASSUME GrantInv, TypeOK, TypeOK', NEW c \in Callbacks, InsertInstallation(c)
  PROVE  GrantInv'
<1>1. CASE Goto(c, "revoke_refresh") /\ UNCHANGED <<inst, fresh, held>>
  BY <1>1, CallbackKeeps DEF InsertInstallation, Goto, TypeOK
<1>2. CASE /\ inst' = [inst EXCEPT ![c] = "active"]
           /\ held' = [held EXCEPT ![c] = {}]
           /\ Goto(c, "done")
  <2>1. /\ pc[c] = "insert" /\ inst[c] = "none"
        /\ UNCHANGED <<states, used, live, lost, revocations>>
        /\ inst'[c] = "active" /\ held'[c] = {} /\ pc'[c] = "done"
        /\ \A d \in Callbacks \ {c} :
             inst'[d] = inst[d] /\ held'[d] = held[d] /\ pc'[d] = pc[d]
    BY <1>2 DEF InsertInstallation, Goto, TypeOK, GrantInv, HandInv
  <2>2. SpentInv' /\ HandInv'
    BY <2>1 DEF GrantInv, SpentInv, HandInv
  <2>3. GrantAccounted'
    <3>1. \A g \in live : g[1] \in Callbacks
      BY DEF TypeOK
    <3> QED BY <2>1, <3>1 DEF GrantInv, GrantAccounted
  <2>4. RevocationInv' /\ RevocationSparesReinstall'
    <3>1. \A m \in revocations : m \subseteq Callbacks
      BY DEF TypeOK
    <3> QED BY <2>1, <3>1 DEF GrantInv, RevocationInv, RevocationSparesReinstall
  <2> QED BY <2>2, <2>3, <2>4 DEF GrantInv
<1> QED BY <1>1, <1>2 DEF InsertInstallation

\* The app is removed at Linear: no token is live, and every row there is then
\* is covered by the event.
LEMMA UninstallKeeps ==
  ASSUME GrantInv, TypeOK, Uninstall
  PROVE  GrantInv'
BY DEF Uninstall, oauth, Created, GrantInv, SpentInv, HandInv, GrantAccounted,
       RevocationInv, RevocationSparesReinstall

\* A delivery of a revocation revokes rows whose tokens are dead already.
LEMMA ApplyKeeps ==
  ASSUME GrantInv, TypeOK, NEW m \in revocations, ApplyRevocation(m)
  PROVE  GrantInv'
<1>1. /\ UNCHANGED <<states, pc, used, held, live, lost, revocations>>
      /\ \A c \in Callbacks : \/ inst'[c] = inst[c]
                              \/ /\ inst'[c] = "revoked" /\ inst[c] = "active"
                                 /\ c \in m
  BY DEF ApplyRevocation, oauth, Revoked, Active
<1>2. SpentInv' /\ HandInv'
  BY <1>1 DEF GrantInv, SpentInv, HandInv
<1>3. GrantAccounted'
  <2>1. \A g \in live : g[1] \in Callbacks
    BY DEF TypeOK
  <2> QED BY <1>1, <2>1 DEF GrantInv, GrantAccounted
<1>4. RevocationInv' /\ RevocationSparesReinstall'
  <2>1. \A n \in revocations : n \subseteq Callbacks
    BY DEF TypeOK
  <2> QED
    BY <1>1, <2>1 DEF GrantInv, RevocationInv, RevocationSparesReinstall
<1> QED BY <1>2, <1>3, <1>4 DEF GrantInv

LEMMA NextGrantInv ==
  ASSUME GrantInv, TypeOK, TypeOK', [Next]_vars
  PROVE  GrantInv'
<1>1. CASE UNCHANGED vars \/ \E w \in Workers : Work(w)
  <2>1. UNCHANGED GrantSide
    BY <1>1 DEF vars, oauth, GrantSide, Work, Resolve, ReadInstallation,
                RefreshTokens, RotateTokens, Reread, Emit, CrashWorker
  <2> QED BY <2>1, GrantSideKept
<1>2. ASSUME NEW s \in States, BeginInstallation(s) \/ ExpireState(s)
      PROVE  GrantInv'
  <2>1. /\ UNCHANGED <<pc, used, held, live, lost, inst, revocations>>
        /\ \A o \in States : states[o] = "consumed" => states'[o] = "consumed"
    BY <1>2 DEF BeginInstallation, ExpireState, TypeOK
  <2> QED
    BY <2>1 DEF GrantInv, TypeOK, SpentInv, HandInv, GrantAccounted, RevocationInv,
                RevocationSparesReinstall
<1>3. ASSUME NEW c \in Callbacks, Install(c) \/ ExpireToken(c)
      PROVE  GrantInv'
  <2>1. CASE ConsumeState(c) \/ Decline(c)
    BY <2>1, ConsumeKeeps
  <2>2. CASE ExchangeCode(c)
    BY <2>2, ExchangeKeeps
  <2>3. CASE Validate(c)
    <3>1. /\ pc[c] = "validate" /\ pc'[c] \in {"insert", "revoke_refresh"}
          /\ UNCHANGED <<states, used, held, live, lost, inst, revocations>>
          /\ \A d \in Callbacks \ {c} : pc'[d] = pc[d] /\ held'[d] = held[d]
      BY <2>3 DEF Validate, Goto, TypeOK
    <3>2. \A t \in Tokens : <<c, t>> \in live' /\ t \in held[c] =>
            <<c, t>> \in lost' \/ (pc'[c] # "done" /\ t \in held'[c])
      BY <3>1
    <3> QED BY <3>1, <3>2, CallbackKeeps
  <2>4. CASE InsertInstallation(c)
    BY <2>4, InsertKeeps
  <2>5. CASE RevokeToken(c)
    <3>1. PICK t \in Tokens :
            /\ pc[c] = (IF t = "refresh" THEN "revoke_refresh" ELSE "revoke_access")
            /\ held' = [held EXCEPT ![c] = @ \ {t}]
            /\ HandBack(c, t)
            /\ Goto(c, IF t = "refresh" THEN "revoke_access" ELSE "done")
            /\ UNCHANGED <<states, used, inst, revocations>>
      BY <2>5 DEF RevokeToken
    <3>2. /\ pc'[c] = (IF t = "refresh" THEN "revoke_access" ELSE "done")
          /\ held'[c] = held[c] \ {t}
          /\ \A d \in Callbacks \ {c} : pc'[d] = pc[d] /\ held'[d] = held[d]
      BY <3>1 DEF Goto, TypeOK
    <3>3. /\ live' \subseteq live /\ lost \subseteq lost'
          /\ <<c, t>> \in live' /\ t \in held[c] => <<c, t>> \in lost'
      BY <3>1 DEF HandBack
    <3>4. \A u \in Tokens : <<c, u>> \in live' /\ u \in held[c] =>
            <<c, u>> \in lost' \/ (pc'[c] # "done" /\ u \in held'[c])
      BY <3>1, <3>2, <3>3 DEF GrantInv, HandInv, Tokens
    <3> QED BY <3>1, <3>2, <3>3, <3>4, CallbackKeeps
  <2>6. CASE CrashCallback(c)
    <3>1. /\ pc[c] \notin {"idle", "done"}
          /\ pc'[c] = "done" /\ held'[c] = {} /\ lost' = lost \cup ({c} \X held[c])
          /\ \A d \in Callbacks \ {c} : pc'[d] = pc[d] /\ held'[d] = held[d]
          /\ UNCHANGED <<states, used, inst, revocations, live>>
      BY <2>6 DEF CrashCallback, Goto, TypeOK
    <3> QED BY <3>1, CallbackKeeps
  <2>7. CASE ExpireToken(c)
    BY <2>7, GrantSideKept DEF ExpireToken, oauth, GrantSide
  <2> QED BY <1>3, <2>1, <2>2, <2>3, <2>4, <2>5, <2>6, <2>7 DEF Install
<1>4. CASE Uninstall
  BY <1>4, UninstallKeeps
<1>5. CASE \E m \in SUBSET Callbacks : ApplyRevocation(m)
  BY <1>5, ApplyKeeps DEF ApplyRevocation
<1>6. CASE \E c \in Callbacks : EndGrace(c)
  BY <1>6, GrantSideKept DEF EndGrace, oauth, GrantSide
<1> QED BY <1>1, <1>2, <1>3, <1>4, <1>5, <1>6 DEF Next

----------------------------------------------------------------------------
(* Generations: no callback and no revocation takes part                   *)

\* Only a worker's step changes what the refreshes are about.
LEMMA OnlyWorkersRefresh ==
  ASSUME [Next]_vars
  PROVE  UNCHANGED RefreshSide \/ \E w \in Workers : Work(w)
BY DEF Next, vars, gens, refresh, RefreshSide, BeginInstallation, ExpireState,
       Install, ConsumeState, Decline, ExchangeCode, Validate,
       InsertInstallation, RevokeToken, CrashCallback, ExpireToken, EndGrace,
       Uninstall, ApplyRevocation

\* A worker that ends its refresh, and a row that changes no generation.
LEMMA LeaveKeeps ==
  ASSUME TypeInv, RefreshInv, NEW w \in Workers, Leave(w) \/ HandOut(w),
         \A c \in Callbacks : stored[c] <= stored'[c] /\ issued[c] <= issued'[c],
         TypeInv'
  PROVE  RefreshInv'
<1>1. /\ wpc'[w] \in {"idle", "emit"}
      /\ \A v \in Workers \ {w} : wpc'[v] = wpc[v] /\ job'[v] = job[v]
  BY DEF Leave, HandOut, WGoto, TypeInv, TypeOK
<1>2. ASSUME NEW v \in Workers \ {w}, wpc[v] \in {"refresh", "rotate"}
      PROVE  /\ job[v].spent <= stored'[job[v].inst]
             /\ wpc[v] = "rotate" /\ job[v].got # NoToken =>
                  job[v].got = job[v].spent + 1 /\ job[v].got <= issued'[job[v].inst]
  <2> DEFINE c == job[v].inst
  <2>1. c \in Callbacks
    BY <1>2 DEF TypeInv, HasRow
  <2>2. /\ stored[c] <= stored'[c] /\ issued[c] <= issued'[c]
        /\ stored[c] \in Nat /\ stored'[c] \in Nat
        /\ issued[c] \in Nat /\ issued'[c] \in Nat
        /\ job[v].spent \in Nat /\ job[v].got \in Nat
    BY <2>1, InstallAssumption DEF TypeInv, TypeOK, NoToken
  <2>3. /\ job[v].spent <= stored[c]
        /\ wpc[v] = "rotate" /\ job[v].got # NoToken =>
             job[v].got = job[v].spent + 1 /\ job[v].got <= issued[c]
    BY <1>2 DEF RefreshInv
  <2> HIDE DEF c
  <2>4. job[v].spent <= stored'[c]
    BY <2>2, <2>3
  <2>5. wpc[v] = "rotate" /\ job[v].got # NoToken => job[v].got <= issued'[c]
    BY <2>2, <2>3
  <2> QED BY <2>3, <2>4, <2>5 DEF c
<1> QED BY <1>1, <1>2 DEF RefreshInv

LEMMA WorkKeepsGenerations ==
  ASSUME TypeInv, TypeInv', GenerationInv, RefreshInv, NEW w \in Workers, Work(w)
  PROVE  GenerationInv' /\ RefreshInv'
<1> USE InstallAssumption DEF gens, Answered
<1> DEFINE c == job[w].inst
           g == job[w].spent
<1>1. /\ TypeOK /\ job \in [Workers -> Jobs]
      /\ \A d \in Callbacks : stored[d] \in Nat /\ issued[d] \in Nat
      /\ MaxGen \in Nat /\ NoToken = MaxGen + 1
      /\ g \in Nat
  BY DEF TypeInv, TypeOK, Jobs, NoToken
<1>2. CASE UNCHANGED <<stored, issued>> /\ (Leave(w) \/ HandOut(w))
  <2>1. \A d \in Callbacks : stored[d] <= stored'[d] /\ issued[d] <= issued'[d]
    BY <1>1, <1>2
  <2> QED BY <1>2, <2>1, LeaveKeeps DEF GenerationInv
<1>3. ASSUME UNCHANGED <<stored, issued>>, NEW j \in Jobs, NEW l \in {"read", "reread"},
             job' = [job EXCEPT ![w] = j], wpc' = [wpc EXCEPT ![w] = l]
      PROVE  GenerationInv' /\ RefreshInv'
  BY <1>1, <1>3 DEF GenerationInv, RefreshInv, TypeOK
<1>4. CASE Resolve(w)
  <2>1. PICK d \in Active : job' = [job EXCEPT ![w].inst = d] /\ WGoto(w, "read")
    BY <1>4 DEF Resolve
  <2>2. [job[w] EXCEPT !.inst = d] \in Jobs
    BY <1>1, <2>1 DEF Jobs, Active
  <2> QED BY <1>3, <1>4, <2>1, <2>2 DEF Resolve, WGoto
<1>5. CASE ReadInstallation(w)
  <2>1. CASE Leave(w) \/ HandOut(w)
    BY <1>2, <1>5, <2>1 DEF ReadInstallation
  <2>2. CASE job' = [job EXCEPT ![w].spent = stored[c]] /\ WGoto(w, "refresh")
    <3>1. UNCHANGED <<stored, issued>> /\ c \in Callbacks
      BY <1>5 DEF ReadInstallation, TypeInv, HasRow
    <3>2. /\ wpc'[w] = "refresh" /\ job'[w].inst = c /\ job'[w].spent = stored[c]
          /\ \A v \in Workers \ {w} : wpc'[v] = wpc[v] /\ job'[v] = job[v]
      BY <1>1, <2>2 DEF WGoto, TypeOK, Jobs
    <3>3. GenerationInv'
      BY <3>1 DEF GenerationInv
    <3>4. RefreshInv'
      BY <1>1, <3>1, <3>2 DEF RefreshInv
    <3> QED BY <3>3, <3>4
  <2> QED BY <1>5, <2>1, <2>2 DEF ReadInstallation
<1>6. CASE RefreshTokens(w)
  <2>1. /\ c \in Callbacks /\ wpc[w] = "refresh" /\ stored' = stored
        /\ g <= stored[c] /\ stored[c] <= issued[c] /\ issued[c] <= stored[c] + 1
    BY <1>6 DEF RefreshTokens, TypeInv, HasRow, RefreshInv, GenerationInv
  <2>2. CASE NoAnswer(w) /\ UNCHANGED issued
    BY <1>2, <2>1, <2>2 DEF NoAnswer
  <2>3. ASSUME NEW t \in Answers(c, g),
               issued' = [issued EXCEPT ![c] = IF t = NoToken THEN @ ELSE t]
        PROVE  /\ GenerationInv'
               /\ \A d \in Callbacks : issued[d] <= issued'[d]
               /\ t # NoToken => t = g + 1 /\ t <= issued'[c]
    <3>1. /\ t \in Nat
          /\ \/ t = NoToken
             \/ t = g + 1 /\ (g = issued[c] \/ t = issued[c])
      BY <1>1, <2>1, <2>3 DEF Answers
    <3>2. /\ issued'[c] = (IF t = NoToken THEN issued[c] ELSE t)
          /\ \A d \in Callbacks \ {c} : issued'[d] = issued[d]
      BY <2>1, <2>3 DEF TypeInv, TypeOK
    <3>3. /\ stored[c] \in Nat /\ issued[c] \in Nat /\ issued'[c] \in Nat
      BY <1>1, <2>1, <3>1, <3>2
    <3> HIDE DEF c, g
    <3>4. /\ issued[c] <= issued'[c] /\ stored[c] <= issued'[c]
          /\ issued'[c] <= stored[c] + 1
      BY <1>1, <2>1, <3>1, <3>2, <3>3
    <3>5. GenerationInv'
      BY <2>1, <3>2, <3>4 DEF GenerationInv
    <3>6. \A d \in Callbacks : issued[d] <= issued'[d]
      BY <1>1, <3>2, <3>4
    <3>7. t # NoToken => t = g + 1 /\ t <= issued'[c]
      BY <3>1, <3>2
    <3> QED BY <3>5, <3>6, <3>7
  <2>4. ASSUME NEW t \in Answers(c, g), NoAnswer(w),
               issued' = [issued EXCEPT ![c] = IF t = NoToken THEN @ ELSE t]
        PROVE  GenerationInv' /\ RefreshInv'
    <3>1. GenerationInv' /\ \A d \in Callbacks : issued[d] <= issued'[d]
      BY <2>3, <2>4
    <3>2. \A d \in Callbacks : stored[d] <= stored'[d]
      BY <1>1, <2>1
    <3> QED BY <2>4, <3>1, <3>2, LeaveKeeps DEF NoAnswer
  <2>5. ASSUME NEW t \in Answers(c, g), WGoto(w, "rotate"),
               job' = [job EXCEPT ![w].got = t],
               issued' = [issued EXCEPT ![c] = IF t = NoToken THEN @ ELSE t]
        PROVE  GenerationInv' /\ RefreshInv'
    <3>1. /\ wpc'[w] = "rotate" /\ job'[w].inst = c /\ job'[w].spent = g
          /\ job'[w].got = t
          /\ \A v \in Workers \ {w} : wpc'[v] = wpc[v] /\ job'[v] = job[v]
      BY <1>1, <2>5 DEF WGoto, TypeOK, Jobs
    <3>2. /\ GenerationInv' /\ \A d \in Callbacks : issued[d] <= issued'[d]
          /\ t # NoToken => t = g + 1 /\ t <= issued'[c]
      BY <2>3, <2>5
    <3>3. ASSUME NEW v \in Workers \ {w}, wpc[v] = "rotate", job[v].got # NoToken
          PROVE  job[v].got <= issued'[job[v].inst]
      <4>1. /\ job[v].inst \in Callbacks /\ job[v].got \in Nat
            /\ job[v].got <= issued[job[v].inst]
        BY <1>1, <3>3 DEF TypeInv, HasRow, RefreshInv, Jobs
      <4>2. /\ issued[job[v].inst] <= issued'[job[v].inst]
            /\ issued[job[v].inst] \in Nat /\ issued'[job[v].inst] \in Nat
        BY <1>1, <3>2, <4>1 DEF TypeInv, TypeOK
      <4> QED BY <4>1, <4>2
    <3> HIDE DEF c, g
    <3>4. RefreshInv'
      BY <2>1, <3>1, <3>2, <3>3 DEF RefreshInv
    <3> QED BY <3>2, <3>4
  <2> QED BY <1>6, <2>2, <2>4, <2>5 DEF RefreshTokens
<1>7. CASE RotateTokens(w)
  <2>1. /\ c \in Callbacks /\ wpc[w] = "rotate" /\ issued' = issued
        /\ g <= stored[c] /\ stored[c] <= issued[c] /\ issued[c] <= stored[c] + 1
        /\ job[w].got # NoToken => job[w].got = g + 1 /\ job[w].got <= issued[c]
    BY <1>7 DEF RotateTokens, TypeInv, HasRow, RefreshInv, GenerationInv
  <2>2. CASE /\ Rotates(c, g) /\ HandOut(w)
             /\ stored' = [stored EXCEPT
                             ![c] = IF job[w].got = NoToken THEN @ ELSE job[w].got]
    <3>1. /\ stored'[c] = (IF job[w].got = NoToken THEN stored[c] ELSE job[w].got)
          /\ stored[c] = g
          /\ \A d \in Callbacks \ {c} : stored'[d] = stored[d]
      BY <2>1, <2>2 DEF Rotates, TypeInv, TypeOK
    <3>2. job[w].got \in Nat /\ stored[c] \in Nat /\ issued[c] \in Nat
      BY <1>1, <2>1 DEF Jobs
    <3> HIDE DEF c, g
    <3>3. /\ stored[c] <= stored'[c] /\ stored'[c] <= issued[c]
          /\ issued[c] <= stored'[c] + 1
      BY <2>1, <3>1, <3>2
    <3>4. GenerationInv'
      BY <2>1, <3>1, <3>3 DEF GenerationInv
    <3>5. \A d \in Callbacks : stored[d] <= stored'[d] /\ issued[d] <= issued'[d]
      BY <1>1, <2>1, <3>1, <3>3
    <3> QED BY <2>2, <3>4, <3>5, LeaveKeeps
  <2>3. CASE /\ WGoto(w, "reread") /\ UNCHANGED stored
             /\ job' = [job EXCEPT ![w] = [NoJob EXCEPT !.inst = c]]
    <3>1. [NoJob EXCEPT !.inst = c] \in Jobs
      BY <1>1, <2>1 DEF NoJob, Jobs
    <3> QED BY <1>3, <2>1, <2>3, <3>1 DEF WGoto
  <2> QED BY <1>7, <2>2, <2>3 DEF RotateTokens
<1>8. CASE Reread(w) \/ Emit(w) \/ CrashWorker(w)
  BY <1>2, <1>8 DEF Reread, Emit, CrashWorker
<1> QED BY <1>4, <1>5, <1>6, <1>7, <1>8 DEF Work

----------------------------------------------------------------------------
(* Carriers of the newest token                                            *)

\* A row is never forgotten and a revoked one stays revoked.
RowsStay == \A c \in Callbacks : /\ inst[c] # "none" => inst'[c] # "none"
                                 /\ inst[c] = "revoked" => inst'[c] = "revoked"

LEMMA RowsOnlyEnd ==
  ASSUME TypeInv, HandInv, [Next]_vars
  PROVE  RowsStay
<1>1. ASSUME NEW c \in Callbacks, Install(c)
      PROVE  inst' = inst \/ (inst[c] = "none" /\ inst' = [inst EXCEPT ![c] = "active"])
  BY <1>1 DEF Install, ConsumeState, Decline, ExchangeCode, Validate, HandInv,
              InsertInstallation, RevokeToken, CrashCallback, oauth
<1>2. ASSUME NEW m \in SUBSET Callbacks, ApplyRevocation(m) PROVE RowsStay
  BY <1>2 DEF ApplyRevocation, Revoked, Active, RowsStay
<1>3. ASSUME NEW w \in Workers, Work(w) PROVE inst' = inst
  BY <1>3 DEF Work, Resolve, ReadInstallation, RefreshTokens, RotateTokens,
              Reread, Emit, CrashWorker
<1>4. CASE \/ UNCHANGED vars \/ Uninstall
           \/ \E s \in States : BeginInstallation(s) \/ ExpireState(s)
           \/ \E c \in Callbacks : ExpireToken(c) \/ EndGrace(c)
  BY <1>4 DEF vars, Uninstall, BeginInstallation, ExpireState, ExpireToken,
              EndGrace, RowsStay
<1> QED BY <1>1, <1>2, <1>3, <1>4 DEF Next, RowsStay, TypeInv, TypeOK

\* A step of a worker that brings nothing, and of nothing that is brought.
LEMMA CarriersKept ==
  ASSUME TypeInv, CarrierInv, NEW w \in Workers,
         \A v \in Workers \ {w} : wpc'[v] = wpc[v] /\ job'[v] = job[v],
         UNCHANGED <<stored, issued, inst>>, unheard \subseteq unheard',
         ~HasNewest(w)
  PROVE  CarrierInv'
<1> SUFFICES ASSUME NEW c \in Callbacks, inst[c] # "revoked",
                    issued[c] = stored[c] + 1, c \notin unheard'
             PROVE  \E v \in Workers : Brings(v, c)'
  BY DEF CarrierInv
<1>1. PICK v \in Workers : Brings(v, c)
  BY DEF CarrierInv
<1>2. v # w
  BY <1>1 DEF Brings
<1> QED BY <1>1, <1>2 DEF Brings, HasNewest

LEMMA WorkKeepsCarriers ==
  ASSUME TypeInv, TypeInv', GenerationInv, RefreshInv, RowInv, CarrierInv,
         NEW w \in Workers, Work(w)
  PROVE  RowInv' /\ CarrierInv'
<1> USE InstallAssumption
<1> DEFINE c == job[w].inst
           t == job[w].got
<1>1. /\ inst' = inst
      /\ \A v \in Workers \ {w} : wpc'[v] = wpc[v] /\ job'[v] = job[v]
      /\ wpc \in [Workers -> WorkerPCs] /\ job \in [Workers -> Jobs]
      /\ \A d \in Callbacks : stored[d] \in Nat /\ issued[d] \in 0 .. MaxGen
      /\ MaxGen \in Nat /\ NoToken = MaxGen + 1
  BY DEF Work, Resolve, ReadInstallation, RefreshTokens, RotateTokens, NoAnswer,
         Reread, Emit, CrashWorker, Leave, HandOut, WGoto, TypeInv, TypeOK, Jobs,
         NoToken
<1>2. RowInv'
  <2>1. CASE Resolve(w)
    BY <1>1, <2>1 DEF Resolve, RowInv, Active, WGoto, Jobs
  <2>2. CASE ~Resolve(w)
    <3>1. wpc'[w] \in {"idle", "emit"} \/ (wpc[w] \in {"read", "refresh", "rotate"}
                                          /\ job'[w].inst = c)
      BY <1>1, <2>2
      DEF Work, ReadInstallation, RefreshTokens, RotateTokens, NoAnswer, Reread,
          Emit, CrashWorker, Leave, HandOut, WGoto, Jobs, NoJob
    <3> QED BY <1>1, <3>1 DEF RowInv
  <2> QED BY <2>1, <2>2
<1>3. CASE Resolve(w) \/ ReadInstallation(w) \/ Reread(w) \/ Emit(w)
  <2>1. ~HasNewest(w) /\ UNCHANGED <<stored, issued, unheard>>
    BY <1>3 DEF Resolve, ReadInstallation, Reread, Emit, HasNewest, gens
  <2> QED BY <1>1, <1>2, <2>1, CarriersKept
<1>4. CASE CrashWorker(w)
  <2>1. /\ UNCHANGED <<stored, issued>>
        /\ unheard' = unheard \cup {d \in {c} : HasNewest(w)}
    BY <1>4 DEF CrashWorker
  <2>2. CASE ~HasNewest(w)
    BY <1>1, <1>2, <2>1, <2>2, CarriersKept
  <2>3. CASE HasNewest(w)
    <3>1. ASSUME NEW d \in Callbacks, NEW v \in Workers, Brings(v, d), d # c
          PROVE  Brings(v, d)'
      BY <1>1, <2>1, <3>1 DEF Brings, HasNewest
    <3> QED BY <1>1, <1>2, <2>1, <2>3, <3>1 DEF CarrierInv
  <2> QED BY <2>2, <2>3
<1>5. CASE RefreshTokens(w)
  <2>1. /\ c \in Callbacks /\ wpc[w] = "refresh" /\ stored' = stored
        /\ ~HasNewest(w)
    BY <1>5 DEF RefreshTokens, TypeInv, HasRow, HasNewest
  <2>2. CASE UNCHANGED gens
    BY <1>1, <1>2, <2>1, <2>2, CarriersKept DEF gens
  <2>3. ASSUME NEW u \in Answers(c, job[w].spent), Answered(c, u), u # NoToken,
               \/ /\ job' = [job EXCEPT ![w].got = u] /\ WGoto(w, "rotate")
                  /\ unheard' = unheard \ {c}
               \/ unheard' = unheard \cup {c}
        PROVE  CarrierInv'
    <3>1. /\ issued'[c] = u /\ u = job[w].spent + 1
          /\ \A d \in Callbacks \ {c} : issued'[d] = issued[d]
      BY <1>1, <2>1, <2>3 DEF Answered, Answers, TypeInv, TypeOK
    <3>2. ASSUME NEW d \in Callbacks \ {c}, NEW v \in Workers, Brings(v, d)
          PROVE  Brings(v, d)'
      BY <1>1, <2>1, <3>1, <3>2 DEF Brings, HasNewest
    <3>3. ASSUME NEW d \in Callbacks, d = c
          PROVE  \/ d \in unheard'
                 \/ issued'[d] = stored[d] + 1 => Brings(w, d)'
      <4>1. job[w].spent \in Nat /\ stored[d] \in Nat /\ issued'[d] = job[w].spent + 1
        BY <1>1, <3>1, <3>3 DEF Jobs
      <4>2. CASE job' = [job EXCEPT ![w].got = u] /\ WGoto(w, "rotate")
        <5>1. /\ wpc'[w] = "rotate" /\ job'[w].inst = d /\ job'[w].got = u
              /\ job'[w].spent = job[w].spent
          BY <1>1, <3>3, <4>2 DEF WGoto, Jobs
        <5>2. stored' = stored /\ issued'[d] = u
          BY <2>1, <3>1, <3>3
        <5> HIDE DEF c
        <5> QED BY <4>1, <5>1, <5>2 DEF Brings, HasNewest
      <4> QED BY <2>3, <3>3, <4>2
    <3> HIDE DEF c
    <3> QED BY <1>1, <2>1, <2>3, <3>1, <3>2, <3>3 DEF CarrierInv
  <2>4. ASSUME NEW u \in Answers(c, job[w].spent), Answered(c, u),
               unheard' \in {unheard \ Carried(c, u), unheard \cup Carried(c, u)},
               u = NoToken
        PROVE  CarrierInv'
    <3>1. issued' = issued /\ unheard' = unheard
      BY <1>1, <2>1, <2>4 DEF Answered, Carried, TypeInv, TypeOK
    <3> QED BY <1>1, <2>1, <3>1, CarriersKept
  <2> QED BY <1>2, <1>5, <2>2, <2>3, <2>4 DEF RefreshTokens, Carried
<1>6. CASE RotateTokens(w)
  <2>1. /\ c \in Callbacks /\ wpc[w] = "rotate" /\ UNCHANGED <<issued, unheard>>
        /\ stored[c] <= issued[c] /\ issued[c] <= stored[c] + 1
        /\ t # NoToken => t = job[w].spent + 1 /\ t <= issued[c]
    BY <1>6 DEF RotateTokens, TypeInv, HasRow, RefreshInv, GenerationInv, gens
  <2>2. CASE t = NoToken \/ ~Rotates(c, job[w].spent)
    <3>1. stored' = stored
      BY <1>1, <1>6, <2>1, <2>2 DEF RotateTokens, TypeInv, TypeOK
    <3>2. CASE ~HasNewest(w)
      BY <1>1, <1>2, <2>1, <3>1, <3>2, CarriersKept
    <3>3. CASE HasNewest(w)
      <4>1. ~Rotates(c, job[w].spent)
        BY <1>1, <2>1, <2>2, <3>3 DEF HasNewest
      <4>2. Brings(w, c) => inst[c] = "revoked"
        BY <1>1, <2>1, <4>1 DEF Brings, Rotates, RowInv, TypeInv, TypeOK
      <4>3. ASSUME NEW d \in Callbacks, NEW v \in Workers, Brings(v, d),
                   inst[d] # "revoked"
            PROVE  Brings(v, d)'
        <5>1. v # w
          BY <4>2, <4>3 DEF Brings
        <5> QED BY <1>1, <2>1, <3>1, <4>3, <5>1 DEF Brings, HasNewest
      <4> QED BY <1>1, <1>2, <2>1, <3>1, <4>3 DEF CarrierInv
    <3> QED BY <3>2, <3>3
  <2>3. CASE t # NoToken /\ Rotates(c, job[w].spent)
    <3>1. /\ stored'[c] = t /\ stored[c] = job[w].spent
          /\ \A d \in Callbacks \ {c} : stored'[d] = stored[d]
      BY <1>6, <2>1, <2>3 DEF RotateTokens, Rotates, TypeInv, TypeOK
    <3>2. issued[c] # stored'[c] + 1
      BY <1>1, <2>1, <2>3, <3>1
    <3>3. ASSUME NEW d \in Callbacks \ {c}, NEW v \in Workers, Brings(v, d)
          PROVE  Brings(v, d)'
      BY <1>1, <2>1, <3>1, <3>3 DEF Brings, HasNewest
    <3> QED BY <1>1, <1>2, <2>1, <3>1, <3>2, <3>3 DEF CarrierInv
  <2> QED BY <2>2, <2>3
<1> QED BY <1>2, <1>3, <1>4, <1>5, <1>6 DEF Work

----------------------------------------------------------------------------
(* The whole invariant                                                     *)

LEMMA InitInstallInv ==
  Init => InstallInv
<1> SUFFICES ASSUME Init PROVE InstallInv
  OBVIOUS
<1>1. TypeInv /\ GrantInv
  BY InitTypeInv, InitGrantInv
<1>2. GenerationInv /\ RefreshInv /\ RowInv /\ CarrierInv
  BY DEF Init, GenerationInv, RefreshInv, RowInv, CarrierInv
<1> QED BY <1>1, <1>2 DEF InstallInv, GrantInv

LEMMA NextInstallInv ==
  InstallInv /\ [Next]_vars => InstallInv'
<1> SUFFICES ASSUME InstallInv, [Next]_vars PROVE InstallInv'
  OBVIOUS
<1>1. TypeInv' /\ TypeOK /\ TypeOK'
  BY NextTypeInv DEF InstallInv, TypeInv
<1>2. GrantInv'
  BY <1>1, NextGrantInv DEF InstallInv, GrantInv
<1>3. GenerationInv' /\ RefreshInv'
  <2>1. CASE UNCHANGED RefreshSide
    BY <2>1 DEF RefreshSide, InstallInv, GenerationInv, RefreshInv
  <2>2. ASSUME NEW w \in Workers, Work(w) PROVE GenerationInv' /\ RefreshInv'
    BY <1>1, <2>2, WorkKeepsGenerations DEF InstallInv
  <2> QED BY <2>1, <2>2, OnlyWorkersRefresh
<1>4. RowInv' /\ CarrierInv'
  <2>1. RowsStay
    BY RowsOnlyEnd DEF InstallInv
  <2>2. CASE UNCHANGED RefreshSide
    BY <1>1, <2>1, <2>2
    DEF RefreshSide, InstallInv, RowInv, CarrierInv, Brings, HasNewest, RowsStay,
        TypeInv, HasRow
  <2>3. ASSUME NEW w \in Workers, Work(w) PROVE RowInv' /\ CarrierInv'
    BY <1>1, <2>3, WorkKeepsCarriers DEF InstallInv
  <2> QED BY <2>2, <2>3, OnlyWorkersRefresh
<1> QED BY <1>1, <1>2, <1>3, <1>4 DEF InstallInv, GrantInv

----------------------------------------------------------------------------
(* Theorems                                                                *)

\* The inductive invariant of the installation.
THEOREM InstallInvariant == Spec => []InstallInv
BY InitInstallInv, NextInstallInv, PTL DEF Spec

\* The states, the callbacks, the rows and the refreshes keep their types.
THEOREM InstallTypes == Spec => []TypeOK
<1>1. InstallInv => TypeOK
  BY DEF InstallInv, TypeInv
<1> QED BY InstallInvariant, <1>1, PTL

\* complete_installation and _best_effort_revoke: a state buys one exchange,
\* and a token Linear would accept is in a row, in the hands of a callback that
\* is not done, or lost where the code says it can be.
THEOREM GrantsAccounted == Spec => []GrantAccounted
<1>1. InstallInv => GrantAccounted
  BY DEF InstallInv
<1> QED BY InstallInvariant, <1>1, PTL

\* REVOKE_LINEAR_INSTALLATION: late and repeated deliveries of a revocation take
\* no row down whose tokens Linear still accepts.
THEOREM ReinstallsSpared == Spec => []RevocationSparesReinstall
<1>1. InstallInv => RevocationSparesReinstall
  BY DEF InstallInv
<1> QED BY InstallInvariant, <1>1, PTL

\* ROTATE_LINEAR_INSTALLATION_TOKENS: while the grant lives, an active row whose
\* token Linear no longer takes is about to get the newest one, or that one was
\* lost on its way, however the refreshes of all workers overlap, fail or land
\* late.
THEOREM RacesSpareCredentials == Spec => []CredentialSurvivesRaces
<1>1. InstallInv => CredentialSurvivesRaces
  <2> SUFFICES ASSUME InstallInv, NEW c \in Active, <<c, "refresh">> \in live
               PROVE  \/ Answers(c, stored[c]) # {}
                      \/ \E w \in Workers : Brings(w, c)
                      \/ c \in unheard
    BY DEF CredentialSurvivesRaces, Brings
  <2>1. /\ c \in Callbacks /\ inst[c] # "revoked"
        /\ stored[c] \in Nat /\ issued[c] \in Nat
        /\ stored[c] <= issued[c] /\ issued[c] <= stored[c] + 1
    BY InstallAssumption
    DEF Active, InstallInv, TypeInv, TypeOK, GenerationInv
  <2>2. CASE issued[c] = stored[c]
    BY <2>2 DEF Answers
  <2>3. CASE issued[c] = stored[c] + 1
    BY <2>1, <2>3 DEF InstallInv, CarrierInv
  <2> QED BY <2>1, <2>2, <2>3
<1> QED BY InstallInvariant, <1>1, PTL

\* A revoked row gets no new credential and never becomes active again: the
\* insert makes a row of its own and the rotation asks for an active one.
THEOREM RevocationsLast == Spec => RevokedIsFinal
<1> DEFINE Final == \A c \in Callbacks : inst[c] = "revoked" =>
      inst'[c] = "revoked" /\ stored'[c] = stored[c] /\ fresh'[c] = fresh[c]
<1>1. InstallInv /\ [Next]_vars => Final
  <2> SUFFICES ASSUME InstallInv, [Next]_vars, NEW c \in Callbacks,
                      inst[c] = "revoked"
               PROVE  /\ inst'[c] = "revoked" /\ stored'[c] = stored[c]
                      /\ fresh'[c] = fresh[c]
    OBVIOUS
  <2>1. TypeOK /\ pc[c] = "done"
    BY DEF InstallInv, TypeInv, HandInv
  <2>2. ASSUME NEW d \in Callbacks, Install(d) \/ ExpireToken(d)
        PROVE  /\ inst'[c] = inst[c] /\ stored' = stored /\ fresh'[c] = fresh[c]
    BY <2>1, <2>2
    DEF TypeOK, Install, ConsumeState, Decline, ExchangeCode, Validate,
        InsertInstallation, RevokeToken, CrashCallback, ExpireToken, oauth
  <2>3. ASSUME NEW w \in Workers, Work(w)
        PROVE  inst' = inst /\ stored'[c] = stored[c] /\ fresh'[c] = fresh[c]
    <3>1. inst' = inst
      BY <2>3 DEF Work, Resolve, ReadInstallation, RefreshTokens, RotateTokens,
                  Reread, Emit, CrashWorker
    <3>2. UNCHANGED <<stored, fresh>> \/ RotateTokens(w)
      BY <2>3 DEF Work, Resolve, ReadInstallation, RefreshTokens, Reread, Emit,
                  CrashWorker
    <3>3. CASE RotateTokens(w)
      BY <2>1, <3>3 DEF RotateTokens, Rotates, TypeOK
    <3> QED BY <3>1, <3>2, <3>3
  <2>4. ASSUME NEW m \in SUBSET Callbacks, ApplyRevocation(m)
        PROVE  inst'[c] = inst[c] /\ UNCHANGED <<stored, fresh>>
    BY <2>4 DEF ApplyRevocation, Revoked, Active
  <2>5. CASE \/ UNCHANGED vars \/ Uninstall
             \/ \E s \in States : BeginInstallation(s) \/ ExpireState(s)
    BY <2>5 DEF vars, Uninstall, BeginInstallation, ExpireState
  <2>6. ASSUME NEW d \in Callbacks, EndGrace(d)
        PROVE  UNCHANGED <<inst, stored, fresh>>
    BY <2>6 DEF EndGrace
  <2> QED BY <2>2, <2>3, <2>4, <2>5, <2>6 DEF Next
<1>2. RevokedIsFinal <=> [][Final]_vars
  BY DEF RevokedIsFinal
<1> HIDE DEF Final
<1>3. Spec => [][Final]_vars
  BY <1>1, InstallInvariant, PTL DEF Spec
<1> QED BY <1>2, <1>3, PTL
=============================================================================
