--------------------------- MODULE LinearInstall ---------------------------
(***************************************************************************)
(* The Linear installation and its one credential: the OAuth callback in   *)
(* its two transactions with the provider between them, the revocation     *)
(* webhook, and the workers that refresh the rotating token.               *)
(*                                                                         *)
(* Source: app/linear_install.py, app/linear_agent_api.py (the token       *)
(* endpoint, the identity query, the revoke call), apply_oauth_revocation  *)
(* of app/linear_agent.py, ensure_access_token and _load_installation_for  *)
(* of app/linear_agent_worker.py, and their statements in app/sql.py.      *)
(* Each action is one transaction or one call to Linear.                   *)
(*                                                                         *)
(* A callback exchanges at most one code, so its grant at Linear and the   *)
(* row it inserts bear its name.  A refresh token is its generation.       *)
(***************************************************************************)
EXTENDS Naturals, FiniteSets

CONSTANTS Callbacks, States, Workers, NoOne,
          MaxGen            \* bound on the rotations of one grant

ASSUME InstallAssumption ==
  /\ NoOne \notin Callbacks \cup States
  /\ MaxGen \in Nat

VARIABLES
  states,      \* linear_oauth_states
  pc,          \* the callbacks
  used,        \* the state each callback consumed
  held,        \* the tokens each callback has in hand
  live,        \* at Linear: the tokens it would accept
  lost,        \* history: the tokens no row, callback or cleanup can reach
  inst,        \* linear_installations.status by callback
  stored,      \* linear_installations.refresh_token
  fresh,       \* access_token_expires_at is far enough ahead
  issued,      \* at Linear: the newest refresh token of the grant
  replayable,  \* at Linear: grants whose token before that one is in its grace
  unheard,     \* history: grants whose newest token was lost on its way here
  revocations, \* the OAuthApp revocations sent: the rows created before each
  wpc, job     \* the workers and their refresh in progress

oauth == <<states, pc, used, held>>
gens == <<issued, replayable, unheard>>
refresh == <<wpc, job>>
vars == <<oauth, live, lost, inst, stored, fresh, gens, revocations, refresh>>

Tokens == {"refresh", "access"}
PCs == {"idle", "exchange", "validate", "insert", "revoke_refresh",
        "revoke_access", "done"}
WorkerPCs == {"idle", "read", "refresh", "rotate", "reread", "emit"}

NoToken == MaxGen + 1  \* a response that carries no refresh token
NoJob == [inst |-> NoOne, spent |-> 0, got |-> 0]

Active == {c \in Callbacks : inst[c] = "active"}
Created == {c \in Callbacks : inst[c] # "none"}

TypeOK ==
  /\ states \in [States -> {"none", "open", "expired", "consumed"}]
  /\ pc \in [Callbacks -> PCs]
  /\ used \in [Callbacks -> States \cup {NoOne}]
  /\ held \in [Callbacks -> SUBSET Tokens]
  /\ live \subseteq Callbacks \X Tokens
  /\ lost \subseteq Callbacks \X Tokens
  /\ inst \in [Callbacks -> {"none", "active", "revoked"}]
  /\ stored \in [Callbacks -> 0 .. MaxGen]
  /\ fresh \in [Callbacks -> BOOLEAN]
  /\ issued \in [Callbacks -> 0 .. MaxGen]
  /\ replayable \subseteq Callbacks
  /\ unheard \subseteq Callbacks
  /\ revocations \subseteq SUBSET Callbacks
  /\ wpc \in [Workers -> WorkerPCs]
  /\ job \in [Workers -> [inst : Callbacks \cup {NoOne}, spent : 0 .. MaxGen,
                          got : 0 .. NoToken]]

Init ==
  /\ states = [s \in States |-> "none"]
  /\ pc = [c \in Callbacks |-> "idle"]
  /\ used = [c \in Callbacks |-> NoOne]
  /\ held = [c \in Callbacks |-> {}]
  /\ live = {} /\ lost = {}
  /\ inst = [c \in Callbacks |-> "none"]
  /\ stored = [c \in Callbacks |-> 0]
  /\ fresh = [c \in Callbacks |-> FALSE]
  /\ issued = [c \in Callbacks |-> 0]
  /\ replayable = {} /\ unheard = {}
  /\ revocations = {}
  /\ wpc = [w \in Workers |-> "idle"]
  /\ job = [w \in Workers |-> NoJob]

----------------------------------------------------------------------------
(* The OAuth callback                                                      *)

Goto(c, l) == pc' = [pc EXCEPT ![c] = l]

\* begin_installation: the operator's command records a single-use state.
BeginInstallation(s) ==
  /\ states[s] = "none"
  /\ states' = [states EXCEPT ![s] = "open"]
  /\ UNCHANGED <<pc, used, held, live, lost, inst, stored, fresh, gens,
                 revocations, refresh>>

\* linear_oauth_state_ttl_seconds pass.
ExpireState(s) ==
  /\ states[s] = "open"
  /\ states' = [states EXCEPT ![s] = "expired"]
  /\ UNCHANGED <<pc, used, held, live, lost, inst, stored, fresh, gens,
                 revocations, refresh>>

\* The WHERE clause of CONSUME_LINEAR_OAUTH_STATE.
Consumable(s) == states[s] = "open"

\* complete_installation, TX A: consume_state, committed before the network.
\* Linear may present one state to several callbacks, each with its own code.
ConsumeState(c) ==
  /\ pc[c] = "idle"
  /\ \E s \in States :
       IF Consumable(s)
         THEN /\ states' = [states EXCEPT ![s] = "consumed"]
              /\ used' = [used EXCEPT ![c] = s]
              /\ Goto(c, "exchange")
         ELSE Goto(c, "done") /\ UNCHANGED <<states, used>>
  /\ UNCHANGED <<held, live, lost, inst, stored, fresh, gens, revocations,
                 refresh>>

\* get_linear_oauth_callback answers an error or a missing code at once.
Decline(c) ==
  /\ pc[c] = "idle"
  /\ Goto(c, "done")
  /\ UNCHANGED <<states, used, held, live, lost, inst, stored, fresh, gens,
                 revocations, refresh>>

\* _post_token: what an answer may hold; the refresh token is optional there.
Grants == {Tokens, {"access"}}

\* exchange_code: granted, refused, or granted in a response that never
\* arrives or does not validate.
ExchangeCode(c) ==
  /\ pc[c] = "exchange"
  /\ \/ \E g \in Grants :
          /\ held' = [held EXCEPT ![c] = g]
          /\ live' = live \cup ({c} \X g)
          /\ Goto(c, "validate")
          /\ UNCHANGED lost
     \/ /\ live' = live \cup ({c} \X Tokens)
        /\ lost' = lost \cup ({c} \X Tokens)
        /\ Goto(c, "done")
        /\ UNCHANGED held
     \/ Goto(c, "done") /\ UNCHANGED <<held, live, lost>>
  /\ UNCHANGED <<states, used, inst, stored, fresh, gens, revocations,
                 refresh>>

\* _assert_token_contract: among others, a refresh token.
Contract(c) == held[c] = Tokens

\* fetch_installation_identity: the new token is accepted.
Identified(c) == <<c, "access">> \in live

\* Both hold, or one of them fails for whatever reason.
Validate(c) ==
  /\ pc[c] = "validate"
  /\ \/ Contract(c) /\ Identified(c) /\ Goto(c, "insert")
     \/ Goto(c, "revoke_refresh")
  /\ UNCHANGED <<states, used, held, live, lost, inst, stored, fresh, gens,
                 revocations, refresh>>

\* TX B.  The partial unique index admits one active row; a violation or any
\* other exception hands the tokens back.
InsertInstallation(c) ==
  /\ pc[c] = "insert"
  /\ \/ /\ Active = {}
        /\ inst' = [inst EXCEPT ![c] = "active"]
        /\ fresh' = [fresh EXCEPT ![c] = TRUE]
        /\ held' = [held EXCEPT ![c] = {}]
        /\ Goto(c, "done")
     \/ Goto(c, "revoke_refresh") /\ UNCHANGED <<inst, fresh, held>>
  /\ UNCHANGED <<states, used, live, lost, stored, gens, revocations, refresh>>

\* revoke_token: done, or refused and out of reach.
HandBack(c, t) ==
  \/ live' = live \ {<<c, t>>} /\ UNCHANGED lost
  \/ /\ lost' = lost \cup (IF t \in held[c] THEN {<<c, t>>} ELSE {})
     /\ UNCHANGED live

\* One turn of the loop of _best_effort_revoke: the failure of one token's
\* revocation neither stops the other's nor leaves the callback.
RevokeToken_StopsAtFailure(c) ==
  \E t \in Tokens :
    /\ pc[c] = (IF t = "refresh" THEN "revoke_refresh" ELSE "revoke_access")
    /\ held' = [held EXCEPT ![c] = @ \ {t}]
    /\ \/ /\ live' = live \ {<<c, t>>}
          /\ Goto(c, IF t = "refresh" THEN "revoke_access" ELSE "done")
          /\ UNCHANGED lost
       \/ /\ lost' = lost \cup (IF t \in held[c] THEN {<<c, t>>} ELSE {})
          /\ Goto(c, "done")
          /\ UNCHANGED live
    /\ UNCHANGED <<states, used, inst, stored, fresh, gens, revocations,
                   refresh>>

RevokeToken(c) ==
  \E t \in Tokens :
    /\ pc[c] = (IF t = "refresh" THEN "revoke_refresh" ELSE "revoke_access")
    /\ held' = [held EXCEPT ![c] = @ \ {t}]
    /\ HandBack(c, t)
    /\ Goto(c, IF t = "refresh" THEN "revoke_access" ELSE "done")
    /\ UNCHANGED <<states, used, inst, stored, fresh, gens, revocations,
                   refresh>>

\* The process dies under a callback: the window D-70 records.
CrashCallback(c) ==
  /\ pc[c] \notin {"idle", "done"}
  /\ lost' = lost \cup ({c} \X held[c])
  /\ held' = [held EXCEPT ![c] = {}]
  /\ Goto(c, "done")
  /\ UNCHANGED <<states, used, live, inst, stored, fresh, gens, revocations,
                 refresh>>

----------------------------------------------------------------------------
(* Revocation                                                              *)

\* The workspace removes the app: its tokens die and Linear sends an event
\* whose createdAt falls after the rows created so far.
Uninstall ==
  /\ live # {}
  /\ live' = {}
  /\ revocations' = revocations \cup {Created}
  /\ UNCHANGED <<oauth, lost, inst, stored, fresh, gens, refresh>>

\* The WHERE clause of REVOKE_LINEAR_INSTALLATION; m holds the rows with
\* created_at <= revocation_created_at.
Revoked_AnyActive(m) == Active

Revoked_IfUnexpired(m) == {c \in Active \cap m : fresh[c]}

Revoked(m) == Active \cap m

\* apply_oauth_revocation.  Linear redelivers an event, in any order.
ApplyRevocation(m) ==
  /\ m \in revocations
  /\ inst' = [c \in Callbacks |-> IF c \in Revoked(m) THEN "revoked" ELSE inst[c]]
  /\ UNCHANGED <<oauth, live, lost, stored, fresh, gens, revocations, refresh>>

----------------------------------------------------------------------------
(* The worker's credential                                                 *)

WGoto(w, l) == wpc' = [wpc EXCEPT ![w] = l]
Leave(w) == WGoto(w, "idle") /\ job' = [job EXCEPT ![w] = NoJob]
HandOut(w) == WGoto(w, "emit") /\ job' = [job EXCEPT ![w] = NoJob]

\* _load_installation_for: the active row, else the turn ends.
Resolve(w) ==
  \E c \in Active :
    /\ wpc[w] = "idle"
    /\ job' = [job EXCEPT ![w].inst = c]
    /\ WGoto(w, "read")
    /\ UNCHANGED <<oauth, live, lost, inst, stored, fresh, gens, revocations>>

\* ensure_access_token reads the row by id (_read_installation, _is_fresh).
ReadInstallation(w) ==
  LET c == job[w].inst IN
    /\ wpc[w] = "read"
    /\ IF inst[c] # "active" THEN Leave(w)
       ELSE IF fresh[c] THEN HandOut(w)
       ELSE job' = [job EXCEPT ![w].spent = stored[c]] /\ WGoto(w, "refresh")
    /\ UNCHANGED <<oauth, live, lost, inst, stored, fresh, gens, revocations>>

\* What Linear may make of a refresh that spends generation g: the newest
\* one rotates, or is answered without a refresh token; the one before it is
\* replayed for 30 minutes; nothing older is accepted.
Answers(c, g) ==
  IF <<c, "refresh">> \notin live THEN {}
  ELSE IF g = issued[c]
    THEN {NoToken} \cup (IF g < MaxGen THEN {g + 1} ELSE {})
  ELSE IF g + 1 = issued[c] /\ c \in replayable THEN {issued[c]} ELSE {}

\* Linear's side of it: a new token opens the grace period of its predecessor.
Answered(c, t) ==
  /\ issued' = [issued EXCEPT ![c] = IF t = NoToken THEN @ ELSE t]
  /\ replayable' = IF t \in {NoToken, issued[c]} THEN replayable
                   ELSE replayable \cup {c}

\* "a 30 minute window in which a failed OAuth refresh may be replayed"
\* (linear_agent_api._request) is over.
EndGrace(c) ==
  /\ c \in replayable
  /\ replayable' = replayable \ {c}
  /\ UNCHANGED <<oauth, live, lost, inst, stored, fresh, issued, unheard,
                 revocations, refresh>>

Carried(c, t) == IF t = NoToken THEN {} ELSE {c}

\* _request: a timeout, an error status, an answer that cannot be read.  The
\* refresh is _Transient then, whatever Linear made of it.
NoAnswer(w) == Leave(w)

\* refresh_tokens, outside every transaction.
RefreshTokens(w) ==
  LET c == job[w].inst IN
    /\ wpc[w] = "refresh"
    /\ \/ \E t \in Answers(c, job[w].spent) :
            /\ Answered(c, t)
            /\ \/ /\ job' = [job EXCEPT ![w].got = t] /\ WGoto(w, "rotate")
                  /\ unheard' = unheard \ Carried(c, t)
               \/ NoAnswer(w) /\ unheard' = unheard \cup Carried(c, t)
       \/ NoAnswer(w) /\ UNCHANGED gens
    /\ UNCHANGED <<oauth, live, lost, inst, stored, fresh, revocations>>

\* The WHERE clause of ROTATE_LINEAR_INSTALLATION_TOKENS.
Rotates_LastWriteWins(c, g) == inst[c] = "active"

Rotates_AnyStatus(c, g) == stored[c] = g

Rotates(c, g) == inst[c] = "active" /\ stored[c] = g

\* A null written over the credential.
RotateTokens_NoCoalesce(w) ==
  LET c == job[w].inst IN
    /\ wpc[w] = "rotate"
    /\ Rotates(c, job[w].spent)
    /\ stored' = [stored EXCEPT ![c] = job[w].got]
    /\ fresh' = [fresh EXCEPT ![c] = TRUE]
    /\ HandOut(w)
    /\ UNCHANGED <<oauth, live, lost, inst, gens, revocations>>

\* The write back, compare-and-swap; COALESCE keeps the token when the answer
\* carries none.
RotateTokens(w) ==
  LET c == job[w].inst  t == job[w].got IN
    /\ wpc[w] = "rotate"
    /\ IF Rotates(c, job[w].spent)
         THEN /\ stored' = [stored EXCEPT ![c] = IF t = NoToken THEN @ ELSE t]
              /\ fresh' = [fresh EXCEPT ![c] = TRUE]
              /\ HandOut(w)
         ELSE /\ WGoto(w, "reread")
              /\ job' = [job EXCEPT ![w] = [NoJob EXCEPT !.inst = c]]
              /\ UNCHANGED <<stored, fresh>>
    /\ UNCHANGED <<oauth, live, lost, inst, gens, revocations>>

\* The loser reads the winner's token: fresh, or _Transient again.
Reread(w) ==
  LET c == job[w].inst IN
    /\ wpc[w] = "reread"
    /\ IF inst[c] = "active" /\ fresh[c] THEN HandOut(w) ELSE Leave(w)
    /\ UNCHANGED <<oauth, live, lost, inst, stored, fresh, gens, revocations>>

\* _emit: one attempt, its failure a string.
Emit(w) ==
  /\ wpc[w] = "emit"
  /\ Leave(w)
  /\ UNCHANGED <<oauth, live, lost, inst, stored, fresh, gens, revocations>>

\* A worker on its way to the write back holds the newest token.
HasNewest(w) == wpc[w] = "rotate" /\ job[w].got = issued[job[w].inst]

\* The process dies under a turn; what Linear granted dies with it.
CrashWorker(w) ==
  /\ wpc[w] \notin {"idle", "emit"}
  /\ Leave(w)
  /\ unheard' = unheard \cup {c \in {job[w].inst} : HasNewest(w)}
  /\ UNCHANGED <<oauth, live, lost, inst, stored, fresh, issued, replayable,
                 revocations>>

\* The access token comes within TOKEN_REFRESH_SKEW_SECONDS of its expiry.
ExpireToken(c) ==
  /\ inst[c] = "active" /\ fresh[c]
  /\ fresh' = [fresh EXCEPT ![c] = FALSE]
  /\ UNCHANGED <<oauth, live, lost, inst, stored, gens, revocations, refresh>>

----------------------------------------------------------------------------
Install(c) ==
  \/ ConsumeState(c) \/ Decline(c) \/ ExchangeCode(c) \/ Validate(c)
  \/ InsertInstallation(c) \/ RevokeToken(c) \/ CrashCallback(c)

Work(w) ==
  \/ Resolve(w) \/ ReadInstallation(w) \/ RefreshTokens(w) \/ RotateTokens(w)
  \/ Reread(w) \/ Emit(w) \/ CrashWorker(w)

Next == \/ \E s \in States : BeginInstallation(s) \/ ExpireState(s)
        \/ \E c \in Callbacks : Install(c) \/ ExpireToken(c) \/ EndGrace(c)
        \/ Uninstall
        \/ \E m \in SUBSET Callbacks : ApplyRevocation(m)
        \/ \E w \in Workers : Work(w)

Spec == Init /\ [][Next]_vars

\* Linear retries a delivery until it is answered 200.
FairSpec == Spec /\ \A m \in SUBSET Callbacks : WF_vars(ApplyRevocation(m))

----------------------------------------------------------------------------
(* Properties                                                              *)

\* linear_install, module docstring: a state is spent "either way" and buys
\* one exchange; and whatever fails or races, a token Linear would accept is
\* in the active row, in the hands of a callback that will store it or hand
\* it back, or was lost where the code says it can be: the process died, the
\* answer of the exchange never came, or Linear refused the revocation.
GrantAccounted ==
  /\ \A c, d \in Callbacks : used[c] = used[d] /\ used[c] # NoOne => c = d
  /\ \A g \in live : \/ g \in lost
                     \/ inst[g[1]] # "none"
                     \/ pc[g[1]] # "done" /\ g[2] \in held[g[1]]

\* REVOKE_LINEAR_INSTALLATION: a revocation "of an installation that has since
\* been replaced can arrive after the replacement exists", hours later and
\* again: no row is taken down while Linear still accepts its tokens.
RevocationSparesReinstall ==
  \A c \in Callbacks : inst[c] = "revoked" => live \cap ({c} \X Tokens) = {}

\* ensure_access_token, "what makes the loser's spent token recoverable rather
\* than merely lost": workers that refresh at once, answers without a token and
\* write backs that land late never cost the active row its credential.  Where
\* Linear no longer takes the stored token, the newest one is with a worker
\* whose write back will land, or it was lost on its way here (the answer never
\* came, or its worker died) and not asked for again within the 30 minutes.
CredentialSurvivesRaces ==
  \A c \in Active : <<c, "refresh">> \in live =>
    \/ Answers(c, stored[c]) # {}
    \/ \E w \in Workers :
         HasNewest(w) /\ job[w].inst = c /\ job[w].spent = stored[c]
    \/ c \in unheard

\* A refresh in flight when the revocation lands changes nothing: a revoked
\* row gets no new credential and never becomes active again.
RevokedIsFinal ==
  [][\A c \in Callbacks : inst[c] = "revoked" =>
       inst'[c] = "revoked" /\ stored'[c] = stored[c] /\ fresh'[c] = fresh[c]]_vars

\* The other half of the guard: an installation that existed when it was
\* revoked at Linear does not stay active, so that a new one can be made.
RevocationLands ==
  \A c \in Callbacks :
    (\E m \in revocations : c \in m) ~> (inst[c] = "revoked")
=============================================================================
