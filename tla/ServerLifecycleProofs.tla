----------------------- MODULE ServerLifecycleProofs -----------------------
(***************************************************************************)
(* What the life of a process keeps true, for every number of requests and *)
(* signals, every configuration file, set of variables and set of secrets. *)
(***************************************************************************)
EXTENDS ServerLifecycle, TLAPS

-----------------------------------------------------------------------------
(* The run: phases, listeners, requests and the exit status.               *)

RequestStates == [state : {"idle", "open", "answered", "aborted"}, at : Planes \cup {"none"}]

RunType ==
    /\ phase \in {"loading", "opening", "binding_api", "binding_mgmt", "serving", "draining",
                  "exited"}
    /\ DOMAIN plane = Planes
    /\ DOMAIN request = Requests
    /\ \A r \in Requests : request[r] \in RequestStates
    /\ signals \in Nat

(* What was not started is off, and after the exit everything is.          *)
PlanesInv ==
    /\ phase \in {"loading", "opening", "exited"} => \A p \in Planes : plane[p] = "off"
    /\ phase = "binding_api" => plane["api"] = "off" /\ plane["mgmt"] = "off"
    /\ phase = "binding_mgmt" => plane["mgmt"] = "off"
    /\ service # "authz" => \A p \in Planes : plane[p] # "joined"

(* A listener that failed is failed, or joined with its error kept.        *)
BrokenInv ==
    \A p \in broken : p \in Planes /\
        (phase = "exited" \/ plane[p] = "failed" \/ (plane[p] = "joined" /\ failure = TRUE))

(* An open request is at a listener that serves it.                        *)
RequestsInv ==
    \A r \in Requests :
        /\ request[r].state = "open" =>
              /\ request[r].at \in Planes
              /\ plane[request[r].at] \in {"listening", "draining"}
        /\ request[r].state = "aborted" => broken # {} \/ phase = "exited"

(* Nothing drains without a signal or an error.                            *)
DrainInv == phase = "draining" => signals > 0 \/ (service = "authz" /\ failure = TRUE)

Orderly ==
    /\ signals > 0
    /\ broken = {}
    /\ \A r \in Requests : request[r].state \in {"idle", "answered"}

ExitInv == exit = "ok" => phase = "exited" /\ Orderly

RunInv == RunType /\ PlanesInv /\ BrokenInv /\ RequestsInv /\ DrainInv /\ ExitInv

(* Leaving with an error, or in good order.                                *)
LEMMA ExitKeeps ==
    ASSUME RunInv, phase # "exited", NEW status, Exit(status), status = "ok" => Orderly
    PROVE  RunInv'
  <1>1. /\ exit' = status /\ phase' = "exited" /\ plane' = [p \in Planes |-> "off"]
        /\ request' = [r \in Requests |->
                         IF request[r].state = "open"
                         THEN [request[r] EXCEPT !.state = "aborted"] ELSE request[r]]
        /\ UNCHANGED <<failure, signals, broken>> /\ service' = service
    BY DEF Exit, configVars
  <1>2. ASSUME NEW r \in Requests
        PROVE  /\ request'[r] \in RequestStates
               /\ request'[r].state # "open"
               /\ request[r].state # "open" => request'[r] = request[r]
    <2>1. request[r] \in RequestStates
      BY DEF RunInv, RunType
    <2>2. request'[r] = IF request[r].state = "open"
                        THEN [request[r] EXCEPT !.state = "aborted"] ELSE request[r]
      BY <1>1
    <2>3. QED
      BY <2>1, <2>2 DEF RequestStates
  <1>3. RunType'
    BY <1>1, <1>2 DEF RunInv, RunType
  <1>4. PlanesInv'
    BY <1>1 DEF PlanesInv
  <1>5. BrokenInv'
    BY <1>1 DEF RunInv, BrokenInv
  <1>6. RequestsInv'
    BY <1>1, <1>2 DEF RequestsInv
  <1>7. DrainInv'
    BY <1>1 DEF DrainInv
  <1>8. ExitInv'
    <2> SUFFICES ASSUME status = "ok" PROVE Orderly'
      BY <1>1 DEF ExitInv
    <2>1. ASSUME NEW r \in Requests
          PROVE  request'[r].state \in {"idle", "answered"}
      BY <1>2 DEF Orderly
    <2>2. QED
      BY <1>1, <2>1 DEF Orderly
  <1>9. QED
    BY <1>3, <1>4, <1>5, <1>6, <1>7, <1>8 DEF RunInv

(* Every step of the run keeps it.                                         *)
LEMMA RunKeeps ==
    ASSUME RunInv, [Next]_vars
    PROVE  RunInv'
  <1> USE DEF Planes
  <1>1. ASSUME UNCHANGED runVars, service' = service
        PROVE  RunInv'
    BY <1>1 DEF runVars, RunInv, RunType, PlanesInv, BrokenInv, RequestsInv, DrainInv, ExitInv, Orderly
  <1>2. CASE Load
    BY <1>1, <1>2 DEF Load, LoadNext, Install, Override
  <1>3. CASE LoadFailed \/ OpenFails \/ BindFails \/ ShutdownTimeout \/ AuthnFails
    BY <1>3, ExitKeeps DEF LoadFailed, OpenFails, BindFails, ShutdownTimeout, TimesOut, AuthnFails
  <1>4. ASSUME NEW s, Kill(s)
        PROVE  RunInv'
    BY <1>4, ExitKeeps DEF Kill
  <1>5. CASE Finished \/ AuthnFinished
    <2>1. phase = "draining" /\ \A p \in Planes : plane[p] \in {"off", "joined", "done"}
      BY <1>5 DEF Finished, AuthnFinished, Live
    <2>2. ASSUME NEW r \in Requests
          PROVE  request[r].state # "open"
      BY <2>1 DEF RunInv, RequestsInv
    <2>3. CASE Finished /\ failure
      BY <1>5, <2>1, <2>3, ExitKeeps DEF Finished
    <2>4. CASE (Finished /\ ~failure) \/ AuthnFinished
      <3>1. Exit("ok")
        BY <2>4 DEF Finished, AuthnFinished
      <3>2. AuthnFinished => service # "authz"
        BY DEF AuthnFinished
      <3>3. broken = {}
        BY <2>1, <2>4, <3>2 DEF RunInv, BrokenInv, PlanesInv
      <3>4. signals > 0
        BY <2>1, <2>4, <3>2 DEF RunInv, DrainInv
      <3>5. Orderly
        <4>1. ASSUME NEW r \in Requests
              PROVE  request[r].state \in {"idle", "answered"}
          <5>1. request[r].state \in {"idle", "open", "answered", "aborted"}
            BY DEF RunInv, RunType, RequestStates
          <5>2. request[r].state # "aborted"
            BY <2>1, <3>3 DEF RunInv, RequestsInv
          <5>3. QED
            BY <2>2, <5>1, <5>2
        <4>2. QED
          BY <3>3, <3>4, <4>1 DEF Orderly
      <3>6. QED
        BY <2>1, <3>1, <3>5, ExitKeeps
    <2>5. QED
      BY <1>5, <2>3, <2>4
  <1>6. CASE LoadDone
    BY <1>6 DEF LoadDone, RunInv, RunType, PlanesInv, BrokenInv, RequestsInv, DrainInv, ExitInv, Orderly
  <1>7. CASE Open
    <2>1. /\ phase = "opening" /\ phase' = "binding_api" /\ service' = service
          /\ plane' = [p \in Planes |->
                         IF service = "authz" /\ p \in {"check", "context"} THEN "spawned" ELSE "off"]
          /\ UNCHANGED <<request, signals, exit, broken, failure>>
      BY <1>7 DEF Open, configVars
    <2>2. broken = {} /\ \A r \in Requests : request[r].state # "open"
      BY <2>1 DEF RunInv, PlanesInv, BrokenInv, RequestsInv
    <2>3. QED
      BY <2>1, <2>2 DEF RunInv, RunType, PlanesInv, BrokenInv, RequestsInv, DrainInv, ExitInv, Orderly
  <1>8. CASE Bind
    <2>1. /\ phase \in {"binding_api", "binding_mgmt"} /\ phase' = NextPhase /\ service' = service
          /\ UNCHANGED <<request, signals, exit, broken, failure>>
          /\ DOMAIN plane' = Planes
      BY <1>8 DEF Bind, configVars
    <2>2. plane[Binding] = "off" /\ (phase = "binding_api" => plane["mgmt"] = "off")
      BY <2>1 DEF Binding, RunInv, PlanesInv
    <2>3. \A p \in Planes : plane'[p] \in {"listening", "bound"} \/ plane'[p] = plane[p]
      BY <1>8 DEF Bind
    <2>4. \A p \in Planes : p # Binding /\ plane[p] # "bound" => plane'[p] = plane[p]
      BY <1>8 DEF Bind
    <2>5. \A p \in Planes : plane[p] \in {"failed", "joined", "listening", "draining"} => plane'[p] = plane[p]
      BY <2>2, <2>4
    <2>6. RunType'
      BY <2>1 DEF RunInv, RunType, NextPhase
    <2>7. PlanesInv'
      <3>1. phase' = "binding_mgmt" => plane'["mgmt"] = "off"
        BY <2>1, <2>2, <2>4 DEF NextPhase, Binding
      <3>2. phase' \in {"binding_mgmt", "serving"}
        BY <2>1 DEF NextPhase
      <3>3. service # "authz" => \A p \in Planes : plane'[p] # "joined"
        BY <2>3 DEF RunInv, PlanesInv
      <3>4. QED
        BY <2>1, <3>1, <3>2, <3>3 DEF PlanesInv
    <2>8. BrokenInv' /\ RequestsInv'
      BY <2>1, <2>5 DEF RunInv, BrokenInv, RequestsInv, RunType
    <2>9. DrainInv' /\ ExitInv'
      BY <2>1 DEF DrainInv, ExitInv, RunInv, NextPhase
    <2>10. QED
      BY <2>6, <2>7, <2>8, <2>9 DEF RunInv
  <1>9. ASSUME NEW p \in Planes, TaskBinds(p) \/ StopAccepting(p) \/ Drained(p) \/ IncomingEnds(p)
        PROVE  RunInv'
    <2>1. /\ UNCHANGED <<phase, failure, request, signals, exit, broken>> /\ service' = service
          /\ plane[p] \in {"spawned", "listening", "draining"}
      BY <1>9 DEF TaskBinds, StopAccepting, Drained, HasDrained, IncomingEnds, configVars
    <2>2. PICK v \in {"listening", "draining", "done"} :
             /\ plane' = [plane EXCEPT ![p] = v]
             /\ v = "done" => HasDrained(p)
      BY <1>9 DEF TaskBinds, StopAccepting, Drained, IncomingEnds
    <2>3. DOMAIN plane' = Planes /\ \A q \in Planes : plane'[q] = IF q = p THEN v ELSE plane[q]
      BY <2>2 DEF RunInv, RunType
    <2>4. v = "done" => \A r \in Requests : request[r].state = "open" => request[r].at # p
      <3> SUFFICES ASSUME v = "done", NEW r \in Requests, request[r].state = "open",
                          request[r].at = p
                   PROVE  FALSE
        OBVIOUS
      <3>1. request[r] \in RequestStates /\ request[r] # [state |-> "open", at |-> p]
        BY <2>2 DEF RunInv, RunType, HasDrained
      <3>2. QED
        BY <3>1 DEF RequestStates
    <2>5. RunType'
      BY <2>1, <2>3 DEF RunInv, RunType
    <2>6. PlanesInv'
      BY <2>1, <2>3 DEF RunInv, PlanesInv
    <2>7. BrokenInv'
      BY <2>1, <2>3 DEF RunInv, BrokenInv
    <2>8. RequestsInv'
      BY <2>1, <2>3, <2>4 DEF RunInv, RequestsInv
    <2>9. DrainInv' /\ ExitInv'
      BY <2>1 DEF RunInv, DrainInv, ExitInv, Orderly
    <2>10. QED
      BY <2>5, <2>6, <2>7, <2>8, <2>9 DEF RunInv
  <1>10. ASSUME NEW p \in Planes, JoinFirst(p) \/ Join(p)
         PROVE  RunInv'
    <2>1. /\ phase \in {"serving", "draining"} /\ phase' = "draining"
          /\ service = "authz" /\ service' = service
          /\ UNCHANGED <<request, signals, exit, broken>>
          /\ plane[p] \in {"done", "failed"}
          /\ plane' = [plane EXCEPT ![p] = "joined"]
      BY <1>10 DEF JoinFirst, Join, configVars, Ended
    <2>2. DOMAIN plane' = Planes /\ \A q \in Planes : plane'[q] = IF q = p THEN "joined" ELSE plane[q]
      BY <2>1 DEF RunInv, RunType
    <2>3. /\ failure = TRUE => failure' = TRUE
          /\ plane[p] = "failed" => failure' = TRUE
          /\ phase = "serving" => failure' = TRUE
      BY <1>10 DEF JoinFirst, Join, FailureAfter
    <2>4. RunType' /\ PlanesInv'
      BY <2>1, <2>2 DEF RunInv, RunType, PlanesInv
    <2>5. BrokenInv'
      BY <2>1, <2>2, <2>3 DEF RunInv, BrokenInv
    <2>6. RequestsInv'
      BY <2>1, <2>2 DEF RunInv, RequestsInv
    <2>7. DrainInv' /\ ExitInv'
      BY <2>1, <2>3 DEF RunInv, DrainInv, ExitInv
    <2>8. QED
      BY <2>4, <2>5, <2>6, <2>7 DEF RunInv
  <1>11. ASSUME NEW p \in Planes, TaskFails(p)
         PROVE  RunInv'
    <2>1. /\ UNCHANGED <<phase, failure, signals, exit>> /\ service' = service
          /\ broken' = broken \cup {p}
          /\ plane[p] \in {"spawned", "listening"}
          /\ plane' = [plane EXCEPT ![p] = "failed"]
      BY <1>11 DEF TaskFails, configVars
    <2>2. DOMAIN plane' = Planes /\ \A q \in Planes : plane'[q] = IF q = p THEN "failed" ELSE plane[q]
      BY <2>1 DEF RunInv, RunType
    <2>3. ASSUME NEW r \in Requests
          PROVE  /\ request'[r] \in RequestStates
                 /\ request'[r].state = "open" => request'[r] = request[r] /\ request[r].at # p
      <3>1. request[r] \in RequestStates
        BY DEF RunInv, RunType
      <3>2. request'[r] = IF request[r] = [state |-> "open", at |-> p]
                          THEN [request[r] EXCEPT !.state = "aborted"] ELSE request[r]
        BY <1>11 DEF TaskFails
      <3>3. QED
        BY <3>1, <3>2 DEF RequestStates
    <2>4. phase # "exited" /\ exit # "ok"
      BY <2>1 DEF RunInv, PlanesInv, ExitInv
    <2>5. RunType'
      <3>1. DOMAIN request' = Requests
        BY <1>11 DEF TaskFails
      <3>2. QED
        BY <2>1, <2>2, <2>3, <3>1 DEF RunInv, RunType
    <2>6. PlanesInv'
      BY <2>1, <2>2 DEF RunInv, PlanesInv
    <2>7. BrokenInv'
      BY <2>1, <2>2 DEF RunInv, BrokenInv
    <2>8. RequestsInv'
      BY <2>1, <2>2, <2>3 DEF RunInv, RequestsInv
    <2>9. DrainInv' /\ ExitInv'
      BY <2>1, <2>4 DEF RunInv, DrainInv, ExitInv
    <2>10. QED
      BY <2>5, <2>6, <2>7, <2>8, <2>9 DEF RunInv
  <1>12. ASSUME NEW r \in Requests, Finish(r) \/ \E p \in Planes : Accept(r, p)
         PROVE  RunInv'
    <2>1. /\ UNCHANGED <<phase, plane, failure, signals, exit, broken>> /\ service' = service
      BY <1>12 DEF Finish, Accept, configVars
    <2>2. request[r] \in RequestStates
      BY DEF RunInv, RunType
    <2>3. PICK v \in RequestStates :
             /\ request' = [request EXCEPT ![r] = v]
             /\ \/ v.state = "answered"
                \/ v.state = "open" /\ v.at \in Planes /\ plane[v.at] = "listening"
      <3>1. CASE Finish(r)
        <4> DEFINE v == [request[r] EXCEPT !.state = "answered"]
        <4>1. v \in RequestStates /\ v.state = "answered"
          BY <2>2 DEF RequestStates
        <4>2. request' = [request EXCEPT ![r] = v]
          BY <3>1 DEF Finish
        <4>3. QED
          BY <4>1, <4>2
      <3>2. CASE \E p \in Planes : Accept(r, p)
        <4>1. PICK p \in Planes : Accept(r, p)
          BY <3>2
        <4> DEFINE v == [state |-> "open", at |-> p]
        <4>2. v \in RequestStates /\ v.state = "open" /\ v.at = p
          BY DEF RequestStates
        <4>3. request' = [request EXCEPT ![r] = v] /\ plane[p] = "listening"
          BY <4>1 DEF Accept
        <4>4. QED
          BY <4>2, <4>3
      <3>3. QED
        BY <1>12, <3>1, <3>2
    <2>4. DOMAIN request' = Requests /\ \A q \in Requests : request'[q] = IF q = r THEN v ELSE request[q]
      BY <2>3 DEF RunInv, RunType
    <2>5. RunType' /\ PlanesInv' /\ BrokenInv' /\ DrainInv'
      BY <2>1, <2>4 DEF RunInv, RunType, PlanesInv, BrokenInv, DrainInv
    <2>6. RequestsInv'
      BY <2>1, <2>3, <2>4 DEF RunInv, RequestsInv
    <2>7. ExitInv'
      <3>1. exit = "ok" => \A p \in Planes : plane[p] = "off"
        BY DEF RunInv, ExitInv, PlanesInv
      <3>2. QED
        BY <2>1, <2>3, <2>4, <3>1 DEF RunInv, ExitInv, Orderly
    <2>8. QED
      BY <2>5, <2>6, <2>7 DEF RunInv
  <1>13. ASSUME NEW s, Signal(s)
         PROVE  RunInv'
    <2>1. /\ UNCHANGED <<plane, failure, request, exit, broken>> /\ service' = service
          /\ signals' = signals + 1 /\ phase' = "draining" /\ phase \in {"serving", "draining"}
      BY <1>13 DEF Signal, Handled, configVars
    <2>2. signals' \in Nat /\ signals' > 0
      BY <2>1 DEF RunInv, RunType
    <2>3. QED
      BY <2>1, <2>2 DEF RunInv, RunType, PlanesInv, BrokenInv, RequestsInv, DrainInv, ExitInv
  <1>14. CASE UNCHANGED vars
    BY <1>1, <1>14 DEF vars, configVars
  <1>15. QED
    BY <1>2, <1>3, <1>4, <1>5, <1>6, <1>7, <1>8, <1>9, <1>10, <1>11, <1>12, <1>13, <1>14, Zenon
       DEF Next, Steps

-----------------------------------------------------------------------------
(* The configuration: what was checked is what the listeners work with.    *)

ConfigInv ==
    /\ environment \in DOMAIN Environments
    /\ service \in {"authn", "authz"}
    /\ stage = "installed" => Validate(config)
    /\ stage = "installed" /\ phase = "loading" =>
          /\ config = Decode(Expand(document)) /\ Decodes(Expand(document))
          /\ \A n \in References(document) : Known(ReferenceTo[document[n]])
    /\ phase \notin {"loading", "exited"} => stage = "installed"
    /\ phase \notin {"loading", "opening", "exited"} => Opens

(* Every step keeps it: the configuration is installed once.               *)
LEMMA ConfigKeeps ==
    ASSUME ConfigInv, [Next]_vars
    PROVE  ConfigInv'
  <1>1. ASSUME UNCHANGED configVars,
               \/ phase' = phase \/ phase' = "exited"
               \/ phase \notin {"loading", "opening", "exited"} /\ phase' \notin {"loading", "opening"}
        PROVE  ConfigInv'
    <2>1. UNCHANGED <<service, environment, document, stage, config>>
      BY <1>1 DEF configVars
    <2>2. /\ Validate(config)' <=> Validate(config)
          /\ Opens' <=> Opens
          /\ Decode(Expand(document))' = Decode(Expand(document))
          /\ Decodes(Expand(document))' <=> Decodes(Expand(document))
          /\ References(document)' = References(document)
          /\ \A n : Known(n)' <=> Known(n)
      BY <2>1 DEF Validate, Expand, References, Owned, ForeignRoot, SecretEnv, ProjectedSecrets, Env,
         Known, Opens, OpensAuthz, OpensDiscovery, OpensAuthn
    <2>3. QED
      BY <1>1, <2>1, <2>2 DEF ConfigInv
  <1>2. CASE Load
    <2>1. UNCHANGED <<service, environment, phase>> /\ phase = "loading" /\ stage = "merging"
      BY <1>2 DEF Load, LoadNext, Install, Override, runVars
    <2>2. CASE Install
      <3>1. CASE stage' = "installed"
        <4>1. config' = Loaded /\ Loaded # NoConfig /\ UNCHANGED document
          BY <2>2, <3>1 DEF Install
        <4>2. /\ Loaded = Decode(Expand(document)) /\ Validate(Decode(Expand(document)))
              /\ Decodes(Expand(document))
              /\ \A n \in References(document) : Known(ReferenceTo[document[n]])
          BY <4>1 DEF Loaded
        <4>3. config' = Decode(Expand(document)) /\ Validate(config')
          BY <4>1, <4>2
        <4>4. Validate(config)'
          BY <2>1, <4>3 DEF Validate
        <4>5. Expand(document)' = Expand(document)
          BY <2>1, <4>1 DEF Expand, References, Owned, ForeignRoot, SecretEnv, ProjectedSecrets, Env
        <4>6. /\ Decode(Expand(document))' = Decode(Expand(document))
              /\ Decodes(Expand(document))'
          BY <4>2, <4>5 DEF Decode, Present, Decodes
        <4>7. /\ References(document)' = References(document)
              /\ \A n : Known(n)' <=> Known(n)
          BY <2>1, <4>1 DEF References, Owned, ForeignRoot, Known, ProjectedSecrets, Env
        <4>8. (\A n \in References(document) : Known(ReferenceTo[document[n]]))'
          BY <4>1, <4>2, <4>7
        <4>9. QED
          BY <2>1, <4>3, <4>4, <4>6, <4>8 DEF ConfigInv
      <3>2. CASE stage' # "installed"
        BY <2>1, <3>2 DEF ConfigInv
      <3>3. QED
        BY <3>1, <3>2
    <2>3. CASE \E e \in remaining : Override(e)
      BY <2>1, <2>3 DEF Override, ConfigInv
    <2>4. QED
      BY <1>2, <2>2, <2>3 DEF Load, LoadNext
  <1>3. CASE LoadDone
    <2>1. /\ UNCHANGED <<service, environment, stage, config>>
          /\ phase = "loading" /\ phase' = "opening" /\ stage = "installed"
      BY <1>3 DEF LoadDone
    <2>2. Validate(config)' <=> Validate(config)
      BY <2>1 DEF Validate
    <2>3. QED
      BY <2>1, <2>2 DEF ConfigInv
  <1>4. CASE Open
    <2>1. /\ UNCHANGED <<service, environment, stage, config>>
          /\ phase = "opening" /\ phase' = "binding_api"
          /\ Opens
      BY <1>4 DEF Open, configVars
    <2>2. /\ Validate(config)' <=> Validate(config)
          /\ Opens' <=> Opens
      BY <2>1 DEF Validate, Opens, OpensAuthz, OpensDiscovery, OpensAuthn, Env
    <2>3. QED
      BY <2>1, <2>2 DEF ConfigInv
  <1>5. CASE LoadFailed \/ OpenFails \/ BindFails \/ ShutdownTimeout \/ AuthnFails \/ Finished
             \/ AuthnFinished \/ \E s : Kill(s)
    BY <1>1, <1>5 DEF LoadFailed, OpenFails, BindFails, ShutdownTimeout, AuthnFails, Finished,
       AuthnFinished, Kill, Exit
  <1>6. CASE Bind
    BY <1>1, <1>6 DEF Bind, NextPhase
  <1>7. ASSUME NEW p, TaskBinds(p) \/ StopAccepting(p) \/ Drained(p) \/ IncomingEnds(p) \/ TaskFails(p)
                      \/ \E r : Accept(r, p)
        PROVE  ConfigInv'
    BY <1>1, <1>7 DEF TaskBinds, StopAccepting, Drained, IncomingEnds, TaskFails, Accept
  <1>8. ASSUME NEW p, JoinFirst(p) \/ Join(p)
        PROVE  ConfigInv'
    BY <1>1, <1>8 DEF JoinFirst, Join
  <1>9. ASSUME NEW r, Finish(r)
        PROVE  ConfigInv'
    BY <1>1, <1>9 DEF Finish
  <1>10. ASSUME NEW s, Signal(s)
         PROVE  ConfigInv'
    BY <1>1, <1>10 DEF Signal, Handled
  <1>11. CASE UNCHANGED vars
    BY <1>1, <1>11 DEF vars, runVars
  <1>12. QED
    BY <1>2, <1>3, <1>4, <1>5, <1>6, <1>7, <1>8, <1>9, <1>10, <1>11, Zenon DEF Next, Steps

(* Together with the run, the invariant of the process.                    *)
THEOREM InductiveInvariant == Spec => [](RunInv /\ ConfigInv)
  <1>1. Init => RunInv
    BY DEF Init, Idle, Planes, RunInv, RunType, RequestStates, PlanesInv, BrokenInv, RequestsInv,
       DrainInv, ExitInv
  <1>2. Init => ConfigInv
    BY EnvironmentAssumption DEF Init, ConfigInit, ConfigInv, Env
  <1>3. QED
    BY <1>1, <1>2, RunKeeps, ConfigKeeps, PTL DEF Spec

(* The exit status tells the truth about the shutdown.                     *)
THEOREM SuccessIsAlwaysOrderly == Spec => []SuccessIsOrderly
  <1>1. RunInv => SuccessIsOrderly
    BY DEF RunInv, ExitInv, Orderly, SuccessIsOrderly
  <1>2. QED
    BY <1>1, InductiveInvariant, PTL

-----------------------------------------------------------------------------
(* A setting under a section.                                              *)
LEMMA SettingOf == ASSUME NEW a, NEW b, NEW c
                   PROVE  /\ Append(<<a>>, b) = <<a, b>>
                          /\ Append(<<a, b>>, c) = <<a, b, c>>
  <1>1. ASSUME NEW T, NEW s \in Seq(T), NEW t \in Seq(T), Len(s) = Len(t),
               \A i \in 1 .. Len(s) : s[i] = t[i]
        PROVE  s = t
    BY <1>1
  <1> DEFINE T == {a, b, c}
  <1>2. Append(<<a>>, b) = <<a, b>>
    <2>1. Append(<<a>>, b) \in Seq(T) /\ <<a, b>> \in Seq(T)
      OBVIOUS
    <2>2. Len(Append(<<a>>, b)) = 2 /\ Len(<<a, b>>) = 2
      OBVIOUS
    <2>3. \A i \in 1 .. 2 : Append(<<a>>, b)[i] = <<a, b>>[i]
      OBVIOUS
    <2> HIDE DEF T
    <2>4. QED
      BY <1>1, <2>1, <2>2, <2>3
  <1>3. Append(<<a, b>>, c) = <<a, b, c>>
    <2>1. Append(<<a, b>>, c) \in Seq(T) /\ <<a, b, c>> \in Seq(T)
      OBVIOUS
    <2>2. Len(Append(<<a, b>>, c)) = 3 /\ Len(<<a, b, c>>) = 3
      OBVIOUS
    <2>3. \A i \in 1 .. 3 : Append(<<a, b>>, c)[i] = <<a, b, c>>[i]
      OBVIOUS
    <2> HIDE DEF T
    <2>4. QED
      BY <1>1, <2>1, <2>2, <2>3
  <1>4. QED
    BY <1>2, <1>3

(* What validate, validate_deployment and the constructors accept together *)
(* is what the planes behind the listeners rely on.                        *)
LEMMA AcceptedIsUsable ==
    ASSUME NEW c, service = "authz", Validate(c), OpensAuthz(c)
    PROVE  UsableForAuthz(c)
  <1>1. /\ ValidateServer(c) /\ ValidateScopeDelivery(c) /\ ValidatePrincipalDiscovery(c)
        /\ ValidateResign(c) /\ ValidateStorage(c) /\ ValidateCache(c) /\ ValidateDeployment(c)
    BY DEF Validate
  <1>2. c[<<"server", "port">>] \notin {"zero", c[<<"server", "scope_port">>]}
    <2>1. <<"server", "port">> \in At(<<"server">>, {"port", "scope_port", "shutdown_timeout"})
      BY SettingOf DEF At
    <2>2. QED
      BY <1>1, <2>1 DEF ValidateServer, Positive
  <1>3. c[<<"cache", "memory", "max_capacity">>] # "zero"
    <2>1. <<"cache", "memory", "max_capacity">> \in At(<<"cache", "memory">>, {"max_capacity", "ttl"})
      BY SettingOf DEF At
    <2>2. QED
      BY <1>1, <2>1 DEF ValidateCache, Positive
  <1>4. \A s \in Lifetimes(c) : AsSecs(c[s]) = "zero" => c[s] = "subsecond"
    <2>1. \A s \in At(<<"authz", "scope_delivery">>, {"context_ttl", "scope_token_ttl"}) : c[s] # "zero"
      BY <1>1 DEF ValidateScopeDelivery, Positive, At
    <2>2. ASSUME On(c, <<"authz", "resign", "enabled">>)
          PROVE  c[<<"authz", "resign", "max_ttl">>] # "zero"
      <3>1. /\ Append(<<"authz", "resign">>, "enabled") = <<"authz", "resign", "enabled">>
            /\ Append(<<"authz", "resign">>, "max_ttl") = <<"authz", "resign", "max_ttl">>
        BY SettingOf
      <3>2. <<"authz", "resign", "max_ttl">> \in At(<<"authz", "resign">>, {"max_ttl"})
        BY <3>1 DEF At
      <3>3. QED
        BY <1>1, <2>2, <3>1, <3>2 DEF ValidateResign, Positive
    <2>3. \A s \in Lifetimes(c) : c[s] # "zero"
      BY <2>1, <2>2 DEF Lifetimes
    <2>4. QED
      BY <2>3 DEF AsSecs
  <1>5. c[<<"authz", "scope_delivery", "direct_context_hmac_key">>] = "key" /\ OpensDiscovery(c)
    BY DEF OpensAuthz
  <1>6. ASSUME NEW e,
               \/ ValidateKeycloak(c, e) /\ OpensKeycloak(c, e)
               \/ ValidateLdap(c, e) /\ OpensLdap(c, e)
               \/ ValidateHttpDiscovery(c, e) /\ OpensCustom(c, e)
        PROVE  /\ c[Append(e, "discovery_id")] = "text"
               /\ \A s \in At(e, {"connect_timeout", "request_timeout"}) : c[s] # "zero"
               /\ c[Append(e, "max_page_size")] = "ok"
    <2>1. Positive(c, At(e, {"connect_timeout", "request_timeout", "max_page_size"}))
      BY <1>6 DEF ValidateKeycloak, ValidateLdap, ValidateHttpDiscovery
    <2>2. InRange(c, At(e, {"max_page_size"}))
      BY <1>6 DEF OpensKeycloak, OpensLdap, OpensCustom
    <2>3. Canonical(c, {Append(e, "discovery_id")})
      BY <1>6 DEF OpensKeycloak, OpensLdap, OpensCustom, Canonical, At
    <2>4. QED
      BY <2>1, <2>2, <2>3 DEF Positive, InRange, Canonical, At
  <1>7. ASSUME NEW protocol \in {"keycloak", "ldap", "custom"}
        PROVE  /\ Cardinality(EnabledEntries(c, protocol)) <= 1
               /\ \A e \in EnabledEntries(c, protocol) :
                     /\ c[Append(e, "discovery_id")] = "text"
                     /\ \A s \in At(e, {"connect_timeout", "request_timeout"}) : c[s] # "zero"
                     /\ c[Append(e, "max_page_size")] = "ok"
    <2>1. Cardinality(EnabledEntries(c, protocol)) <= 1
      BY <1>1 DEF ValidatePrincipalDiscovery
    <2>2. ASSUME NEW e \in EnabledEntries(c, protocol)
          PROVE  \/ ValidateKeycloak(c, e) /\ OpensKeycloak(c, e)
                 \/ ValidateLdap(c, e) /\ OpensLdap(c, e)
                 \/ ValidateHttpDiscovery(c, e) /\ OpensCustom(c, e)
      BY <1>1, <1>5, <2>2 DEF ValidatePrincipalDiscovery, OpensDiscovery
    <2>3. QED
      BY <1>6, <2>1, <2>2
  <1>8. c[<<"server", "deployment", "replica_count">>] = "many" =>
          c[<<"storage", "provider">>] = "postgres" /\ c[<<"cache", "provider">>] = "redis"
    BY <1>1 DEF ValidateStorage, ValidateCache, ValidateDeployment
  <1>9. QED
    BY <1>2, <1>3, <1>4, <1>5, <1>7, <1>8 DEF UsableForAuthz

(* The same of authn, which validates only its own part and the storage.   *)
LEMMA AcceptedIsUsableForAuthn ==
    ASSUME NEW c, service = "authn", Validate(c), OpensAuthn(c)
    PROVE  UsableForAuthn(c)
  <1>1. NeedsChallengeStore(c) => c[<<"cache", "provider">>] = "redis" /\ ValidateRedisCache(c)
    BY DEF Validate, ValidateAuthn
  <1>2. QED
    BY <1>1 DEF UsableForAuthn, OpensAuthn, ValidateRedisCache

(* No listener is bound on a configuration its components cannot use, for  *)
(* every file, set of variables and set of secrets.                        *)
THEOREM ListenersAlwaysNeedUsableConfiguration == Spec => []ListenersNeedUsableConfiguration
  <1>1. RunInv /\ ConfigInv => ListenersNeedUsableConfiguration
    <2> SUFFICES ASSUME RunInv, ConfigInv, Bound # {}
                 PROVE  ListenersNeedUsableConfiguration
      BY DEF ListenersNeedUsableConfiguration
    <2>1. phase \notin {"loading", "opening", "exited"}
      BY DEF Bound, RunInv, PlanesInv
    <2>2. Validate(config) /\ Opens /\ service \in {"authn", "authz"}
      BY <2>1 DEF ConfigInv
    <2>3. QED
      BY <2>2, AcceptedIsUsable, AcceptedIsUsableForAuthn DEF Opens, ListenersNeedUsableConfiguration
  <1>2. QED
    BY <1>1, InductiveInvariant, PTL

-----------------------------------------------------------------------------
(* Paths, and what writing one leaves of a document.                       *)

Paths == Seq(STRING)

(* A prefix agrees with the path place by place.                           *)
LEMMA PrefixIs ==
    ASSUME NEW s \in Paths, NEW t \in Paths
    PROVE  IsPrefix(s, t) <=> Len(s) <= Len(t) /\ \A i \in 1 .. Len(s) : s[i] = t[i]
  <1>1. ASSUME Len(s) <= Len(t)
        PROVE  /\ SubSeq(s, 1, Len(s)) = [i \in 1 .. Len(s) |-> s[i]]
               /\ SubSeq(t, 1, Len(s)) = [i \in 1 .. Len(s) |-> t[i]]
    BY <1>1 DEF Paths
  <1>2. QED
    BY <1>1 DEF IsPrefix, Paths

(* The nodes above a path are its strict prefixes.                         *)
LEMMA AboveIs ==
    ASSUME NEW path \in Paths
    PROVE  /\ Above(path) \subseteq Paths
           /\ \A p \in Paths : p \in Above(path) <=> IsPrefix(p, path) /\ Len(p) < Len(path)
  <1>1. ASSUME NEW n \in 0 .. Len(path) - 1
        PROVE  /\ SubSeq(path, 1, n) \in Paths /\ Len(SubSeq(path, 1, n)) = n
               /\ \A i \in 1 .. n : SubSeq(path, 1, n)[i] = path[i]
    BY <1>1 DEF Paths
  <1>2. ASSUME NEW p \in Above(path)
        PROVE  p \in Paths /\ IsPrefix(p, path) /\ Len(p) < Len(path)
    <2>1. PICK n \in 0 .. Len(path) - 1 : p = SubSeq(path, 1, n)
      BY DEF Above
    <2>2. /\ p \in Paths /\ Len(p) = n /\ Len(path) \in Nat /\ Len(p) < Len(path)
          /\ \A i \in 1 .. Len(p) : p[i] = path[i]
      BY <1>1, <2>1 DEF Paths
    <2>3. QED
      BY <2>2, PrefixIs
  <1>3. ASSUME NEW p \in Paths, IsPrefix(p, path), Len(p) < Len(path)
        PROVE  p \in Above(path)
    <2>1. Len(p) \in 0 .. Len(path) - 1
      BY <1>3 DEF Paths
    <2>2. p = SubSeq(path, 1, Len(p))
      <3>1. /\ SubSeq(path, 1, Len(p)) \in Paths /\ Len(SubSeq(path, 1, Len(p))) = Len(p)
            /\ \A i \in 1 .. Len(p) : SubSeq(path, 1, Len(p))[i] = p[i]
        BY <1>1, <1>3, <2>1, PrefixIs
      <3>2. QED
        BY <3>1 DEF Paths
    <2>3. QED
      BY <2>1, <2>2 DEF Above
  <1>4. QED
    BY <1>2, <1>3

(* Being a prefix is an order, and the prefixes of one path are in line.   *)
LEMMA PrefixOrder ==
    ASSUME NEW a \in Paths, NEW b \in Paths, NEW c \in Paths
    PROVE  /\ IsPrefix(a, a)
           /\ IsPrefix(a, b) /\ IsPrefix(b, c) => IsPrefix(a, c)
           /\ IsPrefix(a, b) /\ Len(a) = Len(b) => a = b
           /\ IsPrefix(a, c) /\ IsPrefix(b, c) /\ Len(a) <= Len(b) => IsPrefix(a, b)
  BY PrefixIs DEF Paths

(* What lies at or under a path is the path and a rest.                    *)
LEMMA Concatenated ==
    ASSUME NEW path \in Paths
    PROVE  /\ \A v \in Paths : /\ path \o v \in Paths /\ IsPrefix(path, path \o v)
                               /\ SubSeq(path \o v, Len(path) + 1, Len(path \o v)) = v
           /\ path \o <<>> = path
  <1>1. ASSUME NEW v \in Paths
        PROVE  /\ path \o v \in Paths /\ IsPrefix(path, path \o v)
               /\ SubSeq(path \o v, Len(path) + 1, Len(path \o v)) = v
    <2>1. /\ path \o v \in Paths /\ Len(path \o v) = Len(path) + Len(v)
          /\ \A i \in 1 .. Len(path) : (path \o v)[i] = path[i]
          /\ \A i \in 1 .. Len(v) : (path \o v)[Len(path) + i] = v[i]
      BY DEF Paths
    <2>2. PICK w : w = path \o v
      OBVIOUS
    <2>3. IsPrefix(path, w)
      <3>1. w \in Paths /\ Len(path) <= Len(w) /\ \A i \in 1 .. Len(path) : path[i] = w[i]
        BY <2>1, <2>2 DEF Paths
      <3>2. QED
        BY <3>1, PrefixIs
    <2>4. SubSeq(w, Len(path) + 1, Len(w)) = v
      <3>1. PICK u : u = SubSeq(w, Len(path) + 1, Len(w))
        OBVIOUS
      <3>2. /\ u \in Paths /\ Len(u) = Len(v)
            /\ \A i \in 1 .. Len(v) : u[i] = w[Len(path) + i]
        BY <2>1, <2>2, <3>1 DEF Paths
      <3>3. QED
        BY <2>1, <2>2, <3>1, <3>2 DEF Paths
    <2>5. QED
      BY <2>1, <2>2, <2>3, <2>4
  <1>2. QED
    BY <1>1 DEF Paths


(* A step that writes one variable: its value stands at its path, the path *)
(* leads there, what is not in the way is kept, and nothing else is found  *)
(* under the path.                                                         *)
Written(d, doc, path, value) ==
    /\ DOMAIN d \subseteq Paths
    /\ \A v \in DOMAIN value : path \o v \in DOMAIN d /\ d[path \o v] = value[v]
    /\ \A p \in Above(path) : p \in DOMAIN d /\ d[p] = KindFor(path, p)
    /\ \A n \in Kept(doc, path) : n \in DOMAIN d /\ (n \notin Above(path) => d[n] = doc[n])
    /\ \A n \in DOMAIN d :
          \/ n \in Kept(doc, path) \/ n \in Above(path) \/ n \in Padding(path)
          \/ \E v \in DOMAIN value : n = path \o v
    /\ \A n \in DOMAIN d : IsPrefix(path, n) => \E v \in DOMAIN value : n = path \o v
    /\ \A n \in DOMAIN d :
          \/ d[n] \in Containers \/ (n \in DOMAIN doc /\ d[n] = doc[n])
          \/ \E v \in DOMAIN value : n = path \o v /\ d[n] = value[v]

(* set_yaml_path is such a step.                                           *)
LEMMA SetYamlPathIs ==
    ASSUME NEW doc, DOMAIN doc \subseteq Paths, NEW path \in Paths,
           NEW value, IsTree(value)
    PROVE  Written(SetYamlPath(doc, path, value), doc, path, value)
  <1>0. PICK d : d = SetYamlPath(doc, path, value)
    OBVIOUS
  <1> DEFINE written == {path \o n : n \in DOMAIN value}
  <1>1. /\ DOMAIN value \subseteq Paths
        /\ Kept(doc, path) \subseteq DOMAIN doc
        /\ \A n \in Kept(doc, path) : ~IsPrefix(path, n)
    BY DEF IsTree, Kept, Paths
  <1>2. DOMAIN d = Kept(doc, path) \cup Above(path) \cup Padding(path) \cup written
    BY <1>0 DEF SetYamlPath
  <1>3. \A n \in DOMAIN d :
           d[n] = IF n \in written THEN value[SubSeq(n, Len(path) + 1, Len(n))]
                  ELSE IF n \in Above(path) THEN KindFor(path, n)
                  ELSE IF n \in Kept(doc, path) THEN doc[n] ELSE "null"
    BY <1>0 DEF SetYamlPath
  <1>4. \A p \in Above(path) : p \in Paths /\ IsPrefix(p, path) /\ Len(p) < Len(path)
    BY AboveIs
  <1>5. \A n \in written : n \in Paths /\ IsPrefix(path, n)
    BY <1>1, Concatenated
  <1>6. ASSUME NEW p \in Above(path) PROVE ~IsPrefix(path, p)
    <2>1. p \in Paths /\ Len(p) < Len(path) /\ Len(p) \in Nat /\ Len(path) \in Nat
      BY <1>4 DEF Paths
    <2>2. QED
      BY <2>1, PrefixIs
  <1>7. ASSUME NEW n \in Padding(path)
        PROVE  n \in Paths /\ ~IsPrefix(path, n)
    <2>1. PICK p \in Above(path), i \in DOMAIN Position :
             /\ n = Append(p, i) /\ path[Len(p) + 1] \in DOMAIN Position
             /\ Position[i] < Position[path[Len(p) + 1]]
      BY DEF Padding
    <2>2. p \in Paths /\ i \in STRING /\ Position[i] \in Nat /\ Len(p) < Len(path)
      BY <1>4, PositionAssumption
    <2>3. n \in Paths /\ Len(n) = Len(p) + 1 /\ n[Len(n)] = i
      BY <2>1, <2>2 DEF Paths
    <2>4. ASSUME IsPrefix(path, n) PROVE FALSE
      <3>1. Len(path) <= Len(n) /\ \A k \in 1 .. Len(path) : path[k] = n[k]
        BY <2>3, <2>4, PrefixIs
      <3>2. Len(path) = Len(p) + 1 /\ Len(path) \in 1 .. Len(path)
        BY <2>2, <2>3, <3>1 DEF Paths
      <3>3. path[Len(p) + 1] = i
        BY <2>3, <3>1, <3>2
      <3>4. QED
        BY <2>1, <2>2, <3>3
    <2>5. QED
      BY <2>3, <2>4
  <1>8. DOMAIN d \subseteq Paths
    BY <1>1, <1>2, <1>4, <1>5, <1>7
  <1>9. ASSUME NEW v \in DOMAIN value
        PROVE  path \o v \in DOMAIN d /\ d[path \o v] = value[v]
    <2>1. path \o v \in written /\ path \o v \in DOMAIN d
      BY <1>2
    <2>2. SubSeq(path \o v, Len(path) + 1, Len(path \o v)) = v
      BY <1>1, Concatenated
    <2>3. QED
      BY <1>3, <2>1, <2>2
  <1>10. ASSUME NEW p \in Above(path) PROVE p \in DOMAIN d /\ d[p] = KindFor(path, p)
    BY <1>2, <1>3, <1>5, <1>6
  <1>11. ASSUME NEW n \in Kept(doc, path)
         PROVE  n \in DOMAIN d /\ (n \notin Above(path) => d[n] = doc[n])
    BY <1>1, <1>2, <1>3, <1>5
  <1>12. ASSUME NEW n \in DOMAIN d
         PROVE  \/ n \in Kept(doc, path) \/ n \in Above(path) \/ n \in Padding(path)
                \/ \E v \in DOMAIN value : n = path \o v
    BY <1>2
  <1>13. ASSUME NEW n \in DOMAIN d, IsPrefix(path, n)
         PROVE  \E v \in DOMAIN value : n = path \o v
    BY <1>1, <1>6, <1>7, <1>12, <1>13
  <1>14. ASSUME NEW n \in DOMAIN d
         PROVE  \/ d[n] \in Containers \/ (n \in DOMAIN doc /\ d[n] = doc[n])
                \/ \E v \in DOMAIN value : n = path \o v /\ d[n] = value[v]
    <2>1. CASE n \in written
      BY <1>9, <2>1
    <2>2. CASE n \in Above(path)
      BY <1>10, <2>2 DEF KindFor, Containers
    <2>3. CASE n \notin written /\ n \notin Above(path)
      BY <1>1, <1>3, <2>3 DEF Containers
    <2>4. QED
      BY <2>1, <2>2, <2>3
  <1>15. QED
    BY <1>0, <1>8, <1>9, <1>10, <1>11, <1>12, <1>13, <1>14 DEF Written


-----------------------------------------------------------------------------
(* The document while the variables are written over it.                   *)

Untouched(n) == \A e \in Env.overrides : ~Touches(e, n)
Sole(e) == \A f \in Env.overrides \ {e} : ~Disturbs(e, f)

(* The path of a variable leads to its value, and only that is there.      *)
Stands(e, doc) ==
    /\ \A p \in Above(e.path) : p \in DOMAIN doc /\ doc[p] = KindFor(e.path, p)
    /\ \A v \in DOMAIN e.value : e.path \o v \in DOMAIN doc /\ doc[e.path \o v] = e.value[v]
    /\ \A n \in DOMAIN doc : IsPrefix(e.path, n) => \E v \in DOMAIN e.value : n = e.path \o v

MergeInv ==
    /\ environment \in DOMAIN Environments
    /\ phase = "loading" =>
          /\ remaining \subseteq Env.overrides
          /\ stage = "installed" => remaining = {}
          /\ DOMAIN document \subseteq Paths
          /\ \A n \in DOMAIN Env.file :
                Untouched(n) => n \in DOMAIN document /\ document[n] = Env.file[n]
          /\ \A e \in Env.overrides \ remaining : Sole(e) => Stands(e, document)
          /\ \A n \in DOMAIN document : document[n] \in Containers \/ Says(n, document[n])

(* Writing another variable leaves one that it does not disturb.           *)
LEMMA StandsStill ==
    ASSUME NEW doc, DOMAIN doc \subseteq Paths,
           NEW e, e.path \in Paths, IsTree(e.value), Stands(e, doc),
           NEW f, f.path \in Paths, IsTree(f.value), ~Disturbs(e, f)
    PROVE  Stands(e, SetYamlPath(doc, f.path, f.value))
  <1>1. PICK d : d = SetYamlPath(doc, f.path, f.value)
    OBVIOUS
  <1>2. /\ DOMAIN d \subseteq Paths
        /\ \A p \in Above(f.path) : p \in DOMAIN d /\ d[p] = KindFor(f.path, p)
        /\ \A n \in Kept(doc, f.path) :
              n \in DOMAIN d /\ (n \notin Above(f.path) => d[n] = doc[n])
        /\ \A n \in DOMAIN d :
              \/ n \in Kept(doc, f.path) \/ n \in Above(f.path) \/ n \in Padding(f.path)
              \/ \E v \in DOMAIN f.value : n = f.path \o v
    <2>1. Written(d, doc, f.path, f.value)
      BY <1>1, SetYamlPathIs
    <2>2. QED
      BY <2>1 DEF Written
  <1>3. /\ ~IsPrefix(e.path, f.path) /\ ~IsPrefix(f.path, e.path)
        /\ \A p \in Above(e.path) \cap Above(f.path) : KindFor(e.path, p) = KindFor(f.path, p)
    BY DEF Disturbs
  <1>4. /\ \A p \in Above(e.path) : p \in Paths /\ IsPrefix(p, e.path) /\ Len(p) < Len(e.path)
        /\ \A p \in Above(f.path) : p \in Paths /\ IsPrefix(p, f.path) /\ Len(p) < Len(f.path)
        /\ Len(e.path) \in Nat /\ \A n \in Paths : Len(n) \in Nat
    BY AboveIs DEF Paths
  <1>5. /\ DOMAIN e.value \subseteq Paths /\ DOMAIN f.value \subseteq Paths
        /\ <<>> \in DOMAIN e.value
    BY DEF IsTree, Paths
  (* No node lies under both paths, and none under one is above the other. *)
  <1>6. ASSUME NEW n \in Paths, IsPrefix(e.path, n) PROVE ~IsPrefix(f.path, n)
    BY <1>3, <1>4, <1>6, PrefixOrder
  <1>7. ASSUME NEW p \in Above(f.path), NEW n \in Paths, IsPrefix(p, n),
               IsPrefix(e.path, n) \/ n \in Above(e.path), p # n \/ n \notin Above(e.path)
        PROVE  p \in Above(e.path)
    <2>1. p \in Paths /\ IsPrefix(p, f.path)
      BY <1>4
    <2>2. ~IsPrefix(e.path, p)
      BY <1>3, <2>1, PrefixOrder
    <2>3. CASE IsPrefix(e.path, n)
      <3>1. Len(p) < Len(e.path)
        BY <1>4, <1>7, <2>1, <2>2, <2>3, PrefixOrder
      <3>2. IsPrefix(p, e.path)
        BY <1>4, <1>7, <2>1, <2>3, <3>1, PrefixOrder
      <3>3. QED
        BY <2>1, <3>1, <3>2, AboveIs
    <2>4. CASE n \in Above(e.path)
      <3>1. IsPrefix(p, e.path)
        BY <1>4, <1>7, <2>1, <2>4, PrefixOrder
      <3>2. Len(p) <= Len(n) /\ Len(n) < Len(e.path)
        BY <1>4, <1>7, <2>1, <2>4, PrefixIs
      <3>3. Len(p) < Len(e.path)
        BY <1>4, <2>1, <2>4, <3>2
      <3>4. QED
        BY <2>1, <3>1, <3>3, AboveIs
    <2>5. QED
      BY <1>7, <2>3, <2>4
  (* So what e has written, and its way there, survive.                    *)
  <1>8. ASSUME NEW n \in DOMAIN doc, IsPrefix(e.path, n) \/ n \in Above(e.path)
        PROVE  n \in Kept(doc, f.path)
    <2>1. ~IsPrefix(f.path, n)
      BY <1>3, <1>4, <1>6, <1>8, PrefixOrder
    <2>2. ASSUME NEW p \in Above(f.path), Below(n, p) PROVE doc[p] = KindFor(f.path, p)
      <3>1. p \in Above(e.path)
        BY <1>7, <1>8, <2>2 DEF Below
      <3>2. QED
        BY <1>3, <3>1 DEF Stands
    <2>3. QED
      BY <2>1, <2>2 DEF Kept
  <1>9. ASSUME NEW p \in Above(e.path)
        PROVE  p \in DOMAIN d /\ d[p] = KindFor(e.path, p)
    <2>1. p \in DOMAIN doc /\ doc[p] = KindFor(e.path, p)
      BY DEF Stands
    <2>2. QED
      BY <1>2, <1>3, <1>8, <2>1
  <1>10. ASSUME NEW n \in DOMAIN doc, IsPrefix(e.path, n)
         PROVE  n \in DOMAIN d /\ d[n] = doc[n]
    <2>1. n \notin Above(f.path)
      <3>1. ASSUME n \in Above(f.path) PROVE FALSE
        BY <1>3, <1>4, <1>10, <3>1, PrefixOrder
      <3>2. QED
        BY <3>1
    <2>2. QED
      BY <1>2, <1>8, <1>10, <2>1
  <1>11. ASSUME NEW v \in DOMAIN e.value
         PROVE  e.path \o v \in DOMAIN d /\ d[e.path \o v] = e.value[v]
    <2>1. e.path \o v \in DOMAIN doc /\ doc[e.path \o v] = e.value[v]
      BY DEF Stands
    <2>2. IsPrefix(e.path, e.path \o v)
      BY <1>5, Concatenated
    <2>3. QED
      BY <1>10, <2>1, <2>2
  <1>12. ASSUME NEW n \in DOMAIN d, IsPrefix(e.path, n)
         PROVE  \E v \in DOMAIN e.value : n = e.path \o v
    <2>1. n \in Paths /\ ~IsPrefix(f.path, n)
      BY <1>2, <1>6, <1>12
    <2>2. n \notin Above(f.path)
      <3>1. ASSUME n \in Above(f.path) PROVE FALSE
        BY <1>3, <1>4, <1>12, <3>1, PrefixOrder
      <3>2. QED
        BY <3>1
    <2>3. ~ \E v \in DOMAIN f.value : n = f.path \o v
      <3>1. \A v \in Paths : IsPrefix(f.path, f.path \o v)
        BY Concatenated
      <3>2. QED
        BY <1>5, <2>1, <3>1
    <2>4. CASE n \in Kept(doc, f.path)
      BY <1>12, <2>4 DEF Kept, Stands
    <2>5. CASE n \in Padding(f.path)
      <3>1. PICK p \in Above(f.path), i \in DOMAIN Position : n = Append(p, i)
        BY <2>5 DEF Padding
      <3>2. p \in Paths /\ i \in STRING
        BY <1>4, PositionAssumption
      <3>3. Len(n) = Len(p) + 1 /\ \A k \in 1 .. Len(p) : n[k] = p[k]
        BY <3>1, <3>2 DEF Paths
      <3>4. IsPrefix(p, n)
        BY <1>4, <2>1, <3>2, <3>3, PrefixIs
      <3>5. p # n
        BY <1>4, <3>2, <3>3
      <3>6. p \in Above(e.path)
        BY <1>7, <1>12, <2>1, <3>4, <3>5
      <3>7. Len(e.path) <= Len(n)
        BY <1>12, <2>1, PrefixIs
      <3>8. Len(n) = Len(e.path)
        BY <1>4, <3>2, <3>3, <3>6, <3>7
      <3>9. n = e.path
        BY <1>12, <2>1, <3>8, PrefixOrder
      <3>10. QED
        BY <1>5, <3>9, Concatenated
    <2>6. QED
      BY <1>2, <2>2, <2>3, <2>4, <2>5
  <1>13. QED
    BY <1>1, <1>9, <1>11, <1>12 DEF Stands


(* A variable that is written stands.                                      *)
LEMMA StandsOnceWritten ==
    ASSUME NEW doc, DOMAIN doc \subseteq Paths, NEW e, e.path \in Paths, IsTree(e.value)
    PROVE  Stands(e, SetYamlPath(doc, e.path, e.value))
  <1>1. Written(SetYamlPath(doc, e.path, e.value), doc, e.path, e.value)
    BY SetYamlPathIs
  <1>2. QED
    BY <1>1 DEF Written, Stands

(* What no variable touches survives each of them: the nodes above it are  *)
(* untouched too, so they still have the kind the file gives them.         *)
LEMMA UntouchedStays ==
    ASSUME environment \in DOMAIN Environments,
           NEW doc, DOMAIN doc \subseteq Paths,
           \A m \in DOMAIN Env.file : Untouched(m) => m \in DOMAIN doc /\ doc[m] = Env.file[m],
           NEW e \in Env.overrides, NEW n \in DOMAIN Env.file, Untouched(n)
    PROVE  LET d == SetYamlPath(doc, e.path, e.value) IN n \in DOMAIN d /\ d[n] = Env.file[n]
  <1>1. PICK d : d = SetYamlPath(doc, e.path, e.value)
    OBVIOUS
  <1>2. /\ IsTree(Env.file)
        /\ \A f \in Env.overrides : f.path \in Paths /\ IsTree(f.value)
    BY DocumentAssumption DEF Env, Paths
  <1>3. Written(d, doc, e.path, e.value)
    BY <1>1, <1>2, SetYamlPathIs
  <1>4. n \in Paths /\ Above(n) \subseteq DOMAIN Env.file /\ Above(n) \subseteq Paths
    BY <1>2, AboveIs DEF IsTree, Paths
  <1>5. /\ ~IsPrefix(e.path, n)
        /\ \A p \in Above(e.path) : IsPrefix(p, n) => Env.file[p] = KindFor(e.path, p)
    BY DEF Untouched, Touches
  <1>6. ASSUME NEW p \in Above(n) PROVE Untouched(p)
    <2>1. p \in Paths /\ IsPrefix(p, n)
      BY <1>4, AboveIs
    <2>2. SUFFICES ASSUME NEW f \in Env.overrides, Touches(f, p) PROVE FALSE
      BY DEF Untouched
    <2>3. f.path \in Paths
      BY <1>2
    <2>4. CASE IsPrefix(f.path, p)
      <3>1. IsPrefix(f.path, n)
        BY <1>4, <2>1, <2>3, <2>4, PrefixOrder
      <3>2. QED
        BY <3>1 DEF Untouched, Touches
    <2>5. CASE \E q \in Above(f.path) : IsPrefix(q, p) /\ Env.file[q] # KindFor(f.path, q)
      <3>1. PICK q \in Above(f.path) : IsPrefix(q, p) /\ Env.file[q] # KindFor(f.path, q)
        BY <2>5
      <3>2. q \in Paths
        BY <2>3, AboveIs
      <3>3. IsPrefix(q, n)
        BY <1>4, <2>1, <3>1, <3>2, PrefixOrder
      <3>4. QED
        BY <3>1, <3>3 DEF Untouched, Touches
    <2>6. QED
      BY <2>2, <2>4, <2>5 DEF Touches
  <1>7. n \in Kept(doc, e.path)
    <2>1. ASSUME NEW p \in Above(e.path), Below(n, p) PROVE doc[p] = KindFor(e.path, p)
      <3>1. p \in Paths /\ IsPrefix(p, n) /\ n # p
        BY <1>2, <2>1, AboveIs DEF Below
      <3>2. Len(p) < Len(n)
        <4>1. Len(p) <= Len(n) /\ Len(p) \in Nat /\ Len(n) \in Nat
          BY <1>4, <3>1, PrefixIs DEF Paths
        <4>2. Len(p) # Len(n)
          BY <1>4, <3>1, PrefixOrder
        <4>3. QED
          BY <4>1, <4>2
      <3>3. p \in Above(n)
        BY <1>4, <3>1, <3>2, AboveIs
      <3>4. QED
        BY <1>4, <1>5, <1>6, <3>1, <3>3
    <2>2. QED
      BY <1>5, <2>1 DEF Kept
  <1>8. n \in DOMAIN d /\ (n \notin Above(e.path) => d[n] = doc[n])
    BY <1>3, <1>7 DEF Written
  <1>9. ASSUME n \in Above(e.path) PROVE d[n] = Env.file[n]
    <2>1. IsPrefix(n, n)
      BY <1>4, PrefixOrder
    <2>2. QED
      BY <1>3, <1>5, <1>9, <2>1 DEF Written
  <1>10. QED
    BY <1>1, <1>8, <1>9

(* Every step keeps the document in order.                                 *)
LEMMA MergeKeeps ==
    ASSUME MergeInv, [Next]_vars
    PROVE  MergeInv'
  <1>1. ASSUME phase' # "loading" /\ environment' = environment PROVE MergeInv'
    BY <1>1 DEF MergeInv
  <1>2. ASSUME UNCHANGED environment, phase' = phase,
               phase = "loading" => /\ UNCHANGED <<document, remaining>>
                                    /\ stage' = "installed" => stage = "installed" \/ remaining = {}
        PROVE  MergeInv'
    <2>1. /\ Env' = Env
          /\ \A n : Untouched(n)' <=> Untouched(n)
          /\ \A e : Sole(e)' <=> Sole(e)
          /\ \A n, v : Says(n, v)' <=> Says(n, v)
      BY <1>2 DEF Env, Untouched, Touches, Sole, Says
    <2>2. QED
      BY <1>2, <2>1 DEF MergeInv
  <1>3. CASE Load
    <2>1. UNCHANGED <<service, environment, phase>> /\ phase = "loading" /\ stage = "merging"
      BY <1>3 DEF Load, LoadNext, Install, Override, runVars
    <2>2. CASE Install
      BY <1>2, <2>1, <2>2 DEF Install
    <2>3. ASSUME NEW e \in remaining, Override(e) PROVE MergeInv'
      <3>1. CASE e.path = <<>>
        <4>1. UNCHANGED <<document, remaining>> /\ stage' = "rejected"
          BY <2>3, <3>1 DEF Override
        <4>2. QED
          BY <1>2, <2>1, <4>1
      <3>2. CASE e.path # <<>>
        <4>1. /\ document' = SetYamlPath(document, e.path, e.value)
              /\ remaining' = remaining \ {e} /\ stage' = stage
          BY <2>3, <3>2 DEF Override
        <4>2. /\ environment \in DOMAIN Environments /\ remaining \subseteq Env.overrides
              /\ DOMAIN document \subseteq Paths
              /\ \A n \in DOMAIN Env.file :
                    Untouched(n) => n \in DOMAIN document /\ document[n] = Env.file[n]
              /\ \A f \in Env.overrides \ remaining : Sole(f) => Stands(f, document)
              /\ \A n \in DOMAIN document : document[n] \in Containers \/ Says(n, document[n])
          BY <2>1 DEF MergeInv
        <4>3. e \in Env.overrides
              /\ \A f \in Env.overrides : f.path \in Paths /\ IsTree(f.value)
          BY <4>2, DocumentAssumption DEF Env, Paths
        <4>4. /\ DOMAIN document' \subseteq Paths
              /\ \A n \in DOMAIN document' :
                    document'[n] \in Containers \/ Says(n, document'[n])
          <5>1. Written(document', document, e.path, e.value)
            BY <4>1, <4>2, <4>3, SetYamlPathIs
          <5>2. ASSUME NEW n \in DOMAIN document'
                PROVE  document'[n] \in Containers \/ Says(n, document'[n])
            <6>1. \/ document'[n] \in Containers
                  \/ n \in DOMAIN document /\ document'[n] = document[n]
                  \/ \E v \in DOMAIN e.value : n = e.path \o v /\ document'[n] = e.value[v]
              BY <5>1, <5>2 DEF Written
            <6>2. ASSUME \E v \in DOMAIN e.value : n = e.path \o v /\ document'[n] = e.value[v]
                  PROVE  Says(n, document'[n])
              BY <4>3, <6>2 DEF Says
            <6>3. QED
              BY <4>2, <6>1, <6>2
          <5>3. QED
            BY <5>1, <5>2 DEF Written
        <4>5. ASSUME NEW n \in DOMAIN Env.file, Untouched(n)
              PROVE  n \in DOMAIN document' /\ document'[n] = Env.file[n]
          BY <4>1, <4>2, <4>3, <4>5, UntouchedStays
        <4>6. ASSUME NEW f \in Env.overrides \ remaining', Sole(f)
              PROVE  Stands(f, document')
          <5>1. CASE f = e
            BY <4>1, <4>2, <4>3, <5>1, StandsOnceWritten
          <5>2. CASE f # e
            <6>1. Stands(f, document)
              BY <4>1, <4>2, <4>6, <5>2
            <6>2. ~Disturbs(f, e)
              BY <4>3, <4>6, <5>2 DEF Sole
            <6>3. QED
              BY <4>1, <4>2, <4>3, <6>1, <6>2, StandsStill
          <5>3. QED
            BY <5>1, <5>2
        <4>7. /\ Env' = Env
              /\ \A n : Untouched(n)' <=> Untouched(n)
              /\ \A f : Sole(f)' <=> Sole(f)
              /\ \A n, v : Says(n, v)' <=> Says(n, v)
          BY <2>1 DEF Env, Untouched, Touches, Sole, Says
        <4>8. QED
          BY <2>1, <4>1, <4>2, <4>4, <4>5, <4>6, <4>7 DEF MergeInv
      <3>3. QED
        BY <3>1, <3>2
    <2>4. QED
      BY <1>3, <2>2, <2>3 DEF Load, LoadNext
  <1>4. ASSUME UNCHANGED configVars, phase' = phase \/ phase' # "loading"
        PROVE  MergeInv'
    BY <1>1, <1>2, <1>4 DEF configVars
  <1>5. CASE LoadDone
    BY <1>1, <1>5 DEF LoadDone
  <1>6. CASE Open \/ Bind \/ LoadFailed \/ OpenFails \/ BindFails \/ ShutdownTimeout \/ AuthnFails
             \/ Finished \/ AuthnFinished \/ \E s : Kill(s)
    BY <1>4, <1>6 DEF Open, Bind, NextPhase, LoadFailed, OpenFails, BindFails, ShutdownTimeout,
       AuthnFails, Finished, AuthnFinished, Kill, Exit
  <1>7. ASSUME NEW p, TaskBinds(p) \/ StopAccepting(p) \/ Drained(p) \/ IncomingEnds(p) \/ TaskFails(p)
                      \/ JoinFirst(p) \/ Join(p) \/ \E r : Accept(r, p)
        PROVE  MergeInv'
    BY <1>4, <1>7 DEF TaskBinds, StopAccepting, Drained, IncomingEnds, TaskFails, JoinFirst, Join,
       Accept
  <1>8. ASSUME NEW r, Finish(r)
        PROVE  MergeInv'
    BY <1>4, <1>8 DEF Finish
  <1>9. ASSUME NEW s, Signal(s)
        PROVE  MergeInv'
    BY <1>4, <1>9 DEF Signal, Handled
  <1>10. CASE UNCHANGED vars
    BY <1>4, <1>10 DEF vars, runVars
  <1>11. QED
    BY <1>3, <1>5, <1>6, <1>7, <1>8, <1>9, <1>10, Zenon DEF Next, Steps

(* So it is in order at every moment of the loading.                       *)
LEMMA MergeInvariant == Spec => []MergeInv
  <1>1. Init => MergeInv
    <2> SUFFICES ASSUME Init PROVE MergeInv
      OBVIOUS
    <2>1. /\ environment \in DOMAIN Environments /\ document = Env.file
          /\ remaining = Env.overrides /\ stage = "merging"
      BY DEF Init, ConfigInit
    <2>2. DOMAIN Env.file \subseteq Paths
      BY <2>1, DocumentAssumption DEF Env, IsTree, Paths
    <2>3. \A n \in DOMAIN document : Says(n, document[n])
      BY <2>1 DEF Says
    <2>4. QED
      BY <2>1, <2>2, <2>3 DEF MergeInv
  <1>2. QED
    BY <1>1, MergeKeeps, PTL DEF Spec

(* In whatever order the environment lists its variables, each that no     *)
(* other disturbs stands in the final document, whole, and what none of    *)
(* them touches is what the file says.                                     *)
THEOREM OverridesAlwaysTakeEffect == Spec => []OverridesTakeEffect
  <1>1. ASSUME MergeInv PROVE OverridesTakeEffect
    <2> SUFFICES ASSUME JustInstalled PROVE OverridesTakeEffect
      BY DEF OverridesTakeEffect
    <2>1. /\ environment \in DOMAIN Environments /\ remaining = {}
          /\ DOMAIN document \subseteq Paths
          /\ \A n \in DOMAIN Env.file :
                Untouched(n) => n \in DOMAIN document /\ document[n] = Env.file[n]
          /\ \A e \in Env.overrides : Sole(e) => Stands(e, document)
      BY <1>1 DEF JustInstalled, MergeInv
    <2>2. ASSUME NEW e \in Env.overrides, Sole(e),
                 NEW n \in DOMAIN document \cup {e.path \o v : v \in DOMAIN e.value},
                 IsPrefix(e.path, n), NEW v, v = SubSeq(n, Len(e.path) + 1, Len(n))
          PROVE  v \in DOMAIN e.value /\ document[n] = e.value[v]
      <3>1. Stands(e, document)
        BY <2>1, <2>2
      <3>2. PICK w \in DOMAIN e.value : n = e.path \o w
        BY <2>2, <3>1 DEF Stands
      <3>3. e.path \in Paths /\ w \in Paths
        BY <2>1, DocumentAssumption DEF Env, IsTree, Paths
      <3>4. SubSeq(e.path \o w, Len(e.path) + 1, Len(e.path \o w)) = w
        BY <3>3, Concatenated
      <3>5. QED
        BY <2>2, <3>1, <3>2, <3>4 DEF Stands
    <2>3. QED
      BY <2>1, <2>2 DEF OverridesTakeEffect, Sole, Untouched
  <1>2. QED
    BY <1>1, MergeInvariant, PTL

-----------------------------------------------------------------------------
(* A decoded setting has a path and a default.                             *)
LEMMA PresentIsKnown ==
    ASSUME NEW doc, NEW s \in Present(doc)
    PROVE  Setting(s) \in DOMAIN Default /\ Len(s) > 0
  <1> DEFINE at(t, item) == [i \in DOMAIN t |-> IF t[i] = AnyItem THEN item ELSE t[i]]
  <1>1. PICK t \in DOMAIN Default : s = t \/ \E item \in DOMAIN Position : s = at(t, item)
    BY DEF Present
  <1>2. /\ t \in Seq(Range(t)) /\ Len(t) > 0
        /\ \A i \in DOMAIN t : t[i] \notin DOMAIN Position
    BY DefaultsAssumption
  <1>3. t = [i \in DOMAIN t |-> t[i]] /\ DOMAIN t = 1 .. Len(t) /\ Len(t) \in Nat
    BY <1>2
  <1>4. CASE s = t
    <2>1. Setting(s) = [i \in DOMAIN t |-> t[i]]
      BY <1>2, <1>4 DEF Setting
    <2>2. QED
      BY <1>2, <1>3, <1>4, <2>1
  <1>5. CASE s # t
    <2>1. PICK item \in DOMAIN Position : s = at(t, item)
      BY <1>1, <1>5
    <2>2. DOMAIN s = DOMAIN t /\ \A i \in DOMAIN t : s[i] = IF t[i] = AnyItem THEN item ELSE t[i]
      BY <2>1
    <2>3. Setting(s) = [i \in DOMAIN t |-> t[i]]
      BY <1>2, <2>2 DEF Setting
    <2>4. Len(s) = Len(t)
      <3>1. s \in [1 .. Len(t) -> Range(s)]
        BY <1>3, <2>1, <2>2 DEF Range
      <3>2. s \in Seq(Range(s))
        BY <1>3, <3>1
      <3>3. QED
        BY <1>3, <2>2, <3>2
    <2>5. QED
      BY <1>2, <1>3, <2>3, <2>4
  <1>6. QED
    BY <1>4, <1>5

(* Secrets whose values are not themselves written as references.          *)
PlainSecrets ==
    \A e \in DOMAIN Environments :
        /\ \A n \in DOMAIN Environments[e].projected :
              Environments[e].projected[n] \notin DOMAIN ReferenceTo
        /\ \A n \in DOMAIN Environments[e].process :
              Environments[e].process[n] \notin DOMAIN ReferenceTo

(* Each command resolves the references of its own subtree; of the other's *)
(* subtree it holds defaults and what the file and the variables spell out *)
(* there, never the secret a reference stands for.                         *)
THEOREM SecretsAlwaysStayWithTheirService ==
    ASSUME PlainSecrets
    PROVE  Spec => []SecretsStayWithTheirService
  <1>1. ASSUME ConfigInv, MergeInv
        PROVE  SecretsStayWithTheirService
    <2> SUFFICES ASSUME JustInstalled, NEW s \in DOMAIN config
                 PROVE  IF s[1] \in {"authn", "authz"} \ {service}
                        THEN config[s] = Default[Setting(s)] \/ Says(s, config[s])
                        ELSE config[s] \in DOMAIN ReferenceTo => ReferenceTo[config[s]] \in RuntimeNames
      BY DEF SecretsStayWithTheirService
    <2> DEFINE doc == Expand(document)
    <2>1. config = Decode(doc) /\ Decodes(doc) /\ service \in {"authn", "authz"} /\ environment \in DOMAIN Environments
      BY <1>1 DEF ConfigInv, JustInstalled
    <2>2. /\ DOMAIN doc = DOMAIN document
          /\ \A n \in DOMAIN document :
                doc[n] = IF n \in References(document) THEN SecretEnv(ReferenceTo[document[n]])
                         ELSE document[n]
      BY DEF Expand
    <2> HIDE DEF doc
    <2>3. /\ s \in Present(doc)
          /\ config[s] = IF s \in DOMAIN doc THEN doc[s] ELSE Default[Setting(s)]
      BY <2>1 DEF Decode
    <2>4. Setting(s) \in DOMAIN Default /\ Len(s) > 0
      BY <2>3, PresentIsKnown
    <2>5. CASE s[1] \in {"authn", "authz"} \ {service}
      <3>1. ~Owned(s)
        BY <2>1, <2>5 DEF Owned, ForeignRoot
      <3>2. CASE s \in DOMAIN doc
        <4>1. config[s] = document[s] /\ config[s] = doc[s] /\ s \in DOMAIN document
          BY <2>2, <2>3, <3>1, <3>2 DEF References
        <4>2. doc[s] \notin Containers
          BY <2>1, <2>4, <3>2 DEF Decodes
        <4>3. \A n \in DOMAIN document : document[n] \in Containers \/ Says(n, document[n])
          BY <1>1 DEF MergeInv, JustInstalled
        <4>4. QED
          BY <2>5, <4>1, <4>2, <4>3
      <3>3. QED
        BY <2>3, <2>5, <3>2
    <2>6. CASE s[1] \notin {"authn", "authz"} \ {service}
      <3> SUFFICES ASSUME config[s] \in DOMAIN ReferenceTo
                   PROVE  ReferenceTo[config[s]] \in RuntimeNames
        BY <2>6
      <3>1. Owned(s)
        BY <2>1, <2>4, <2>6 DEF Owned, ForeignRoot
      <3>2. s \in DOMAIN document
        BY <2>2, <2>3, <2>4, DefaultsAssumption
      <3>3. CASE s \in References(document)
        <4> DEFINE name == ReferenceTo[document[s]]
        <4>1. config[s] = SecretEnv(name) /\ Known(name)
          BY <1>1, <2>2, <2>3, <3>2, <3>3 DEF ConfigInv, JustInstalled
        <4>2. SecretEnv(name) \notin DOMAIN ReferenceTo
          BY <2>1, <4>1 DEF SecretEnv, Known, ProjectedSecrets, Env, PlainSecrets
        <4>3. QED
          BY <4>1, <4>2
      <3>4. CASE s \notin References(document)
        BY <2>2, <2>3, <3>1, <3>2, <3>4 DEF References
      <3>5. QED
        BY <3>3, <3>4
    <2>7. QED
      BY <2>5, <2>6
  <1>2. QED
    BY <1>1, InductiveInvariant, MergeInvariant, PTL
=============================================================================
