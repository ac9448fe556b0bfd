--------------------------- MODULE SensorDeployment ---------------------------
(* One host's row, its sensor's credentials and the agent on the host, under  *)
(* the handlers that change them: enabling the sensor (a deployment over SSH  *)
(* that takes minutes), disabling it, editing the host, and a scan's narrow   *)
(* writes.  Every handler reads the host's row first and may write it last.   *)
(* What a handler has started on the host is a script of its own, which goes  *)
(* on when the handler's connection is gone.                                  *)
(*                                                                            *)
(* Abstracted: the binaries, the policies and their digests, and the answers' *)
(* texts.                                                                     *)
EXTENDS Naturals, FiniteSets

CONSTANTS Handlers,     \* requests running at a time
          MaxTokens,    \* bound: sensor credentials ever created
          NoToken       \* no credential, no agent, no handler, no script

VARIABLES host,         \* the hosts row: its mode, and whether its key is pinned
          tokens,       \* the sensor_tokens rows that authenticate
          created,      \* how many credentials were created
          staged,       \* the credential file in the host's staging directory
          env,          \* the credential in sensor.env
          unit,         \* the agent's systemd unit: "on", "off", or a host without systemd
          agent,        \* the credential the agent on the host runs with
          scripts,      \* the script that each handler has started on the host
          handlers      \* what each running handler holds

onHost == <<staged, env, unit, agent>>
deploymentVars == <<host, tokens, created, onHost, scripts, handlers>>

Modes == {"scan_only", "scan_plus_sensor"}
HostRows == [mode : Modes, pinned : BOOLEAN]

Stages == {"begun", "credential", "scripted", "deployed", "failed", "revoked", "stopped"}

\* What a running handler holds: the row it read, of which it leaves the key as it is
\* and writes the mode, and the credential it created.  "sound" is history: nothing else
\* has touched the host's sensor while it ran, no step of its script has failed without
\* saying so, and the script's answer was not lost.
Held == [op : {"enable", "disable", "edit"},
         stage : Stages,
         pinned : BOOLEAN, token : 1 .. MaxTokens \cup {NoToken}, sound : BOOLEAN]

\* 0 is a credential file that holds a part of one.
Files == 0 .. MaxTokens \cup {NoToken}

\* Where a script is, and the credential it has read.
Script == [at : {"read", "remove", "write", "restart", "stop"}, token : Files]

ASSUME DeploymentAssumption ==
    MaxTokens \in Nat /\ NoToken \notin (0 .. MaxTokens) \cup Held \cup Script

Idle(h) == handlers[h] = NoToken /\ scripts[h] = NoToken

Begun(op) == [op |-> op, stage |-> "begun", pinned |-> host.pinned, token |-> NoToken,
              sound |-> \A h \in Handlers : Idle(h)]

DeploymentInit ==
    /\ host = [mode |-> "scan_only", pinned |-> FALSE]
    /\ tokens = {}
    /\ created = 0
    /\ staged = NoToken /\ env = NoToken /\ agent = NoToken
    /\ unit \in {"off", "none"}
    /\ scripts = [h \in Handlers |-> NoToken]
    /\ handlers = [h \in Handlers |-> NoToken]

-----------------------------------------------------------------------------

Running(h, op, stage) ==
    handlers[h] # NoToken /\ handlers[h].op = op /\ handlers[h].stage = stage

\* The others' work is no longer undisturbed.
Disturbed(hs) == [g \in Handlers |-> IF hs[g] = NoToken THEN NoToken ELSE [hs[g] EXCEPT !.sound = FALSE]]

ToStage(h, stage) == handlers' = [handlers EXCEPT ![h].stage = stage]
Finished(h) == handlers' = [handlers EXCEPT ![h] = NoToken]

ToScript(h, script) == scripts' = [scripts EXCEPT ![h] = script]

\* GetHost, and the handler starts.
Begin(h, op) ==
    /\ Idle(h)
    /\ handlers' = [Disturbed(handlers) EXCEPT ![h] = Begun(op)]
    /\ UNCHANGED <<host, tokens, created, onHost, scripts>>

\* Dialing a host whose key the handler's row does not know pins the key it shows.
dial(h) == host' = [host EXCEPT !.pinned = @ \/ ~handlers[h].pinned]

\* UpdateHost writes every column of the row the handler has held all along.
UpdateHost(h, mode, pinned) == host' = [mode |-> mode, pinned |-> pinned] /\ Finished(h)

-----------------------------------------------------------------------------
(* EnableSensor.                                                              *)

CreateSensorToken(h) ==
    /\ Running(h, "enable", "begun") /\ created < MaxTokens
    /\ created' = created + 1
    /\ tokens' = tokens \cup {created + 1}
    /\ handlers' = [handlers EXCEPT ![h].stage = "credential", ![h].token = created + 1]
    /\ UNCHANGED <<host, onHost, scripts>>

\* Mutant of DeploySensor: the superseded credentials are revoked first.
RevokeThenDeploy(h) ==
    /\ Running(h, "enable", "credential")
    /\ dial(h)
    /\ staged' = handlers[h].token
    /\ tokens' = tokens \cap {handlers[h].token}
    /\ ToStage(h, "scripted") /\ ToScript(h, [at |-> "read", token |-> NoToken])
    /\ UNCHANGED <<created, env, unit, agent>>

\* The upload to the staging directory, which all deployments to a host share, and
\* the script is started as root.
DeploySensor(h) ==
    /\ Running(h, "enable", "credential")
    /\ dial(h)
    /\ staged' = handlers[h].token
    /\ ToStage(h, "scripted") /\ ToScript(h, [at |-> "read", token |-> NoToken])
    /\ UNCHANGED <<tokens, created, env, unit, agent>>

\* No connection, or an upload that fails or is cut off.
DeployFails(h) ==
    /\ Running(h, "enable", "credential")
    /\ dial(h) \/ UNCHANGED host
    /\ staged' \in {staged, handlers[h].token, 0}
    /\ ToStage(h, "failed")
    /\ UNCHANGED <<tokens, created, env, unit, agent, scripts>>

\* The new credential is taken back; an error of that is ignored.
RevokeSensorToken(h) ==
    /\ Running(h, "enable", "failed")
    /\ tokens' \in {tokens, tokens \ {handlers[h].token}}
    /\ Finished(h)
    /\ UNCHANGED <<host, created, onHost, scripts>>

\* Mutant of RevokeOtherSensorTokens: it revokes the credential it should spare.
RevokeThisToken(h) ==
    /\ Running(h, "enable", "deployed")
    /\ tokens' = tokens \ {handlers[h].token}
    /\ ToStage(h, "revoked")
    /\ UNCHANGED <<host, created, onHost, scripts>>

RevokeOtherSensorTokens(h) ==
    /\ Running(h, "enable", "deployed")
    /\ tokens' = tokens \cap {handlers[h].token}
    /\ ToStage(h, "revoked")
    /\ UNCHANGED <<host, created, onHost, scripts>>

EnableSensor(h) ==
    /\ Running(h, "enable", "revoked")
    /\ UpdateHost(h, "scan_plus_sensor", handlers[h].pinned)
    /\ UNCHANGED <<tokens, created, onHost, scripts>>

\* The store fails: the handler reports it and leaves things as they are.
StoreFails(h) ==
    /\ \/ \E op \in {"enable", "disable", "edit"} : Running(h, op, "begun")
       \/ Running(h, "enable", "deployed") \/ Running(h, "enable", "revoked")
       \/ Running(h, "disable", "stopped") \/ Running(h, "disable", "revoked")
    /\ Finished(h)
    /\ UNCHANGED <<host, tokens, created, onHost, scripts>>

-----------------------------------------------------------------------------
(* The scripts on the host.  One that has lost its handler goes on.           *)

ScriptAt(h, place) == scripts[h] # NoToken /\ scripts[h].at = place
Waiting(h) == handlers[h] # NoToken /\ handlers[h].stage = "scripted"

\* The script goes on at a place; or it ends, and a handler that waits hears so.
GoesOn(h, place, k) == ToScript(h, [at |-> place, token |-> k]) /\ UNCHANGED handlers
Ends(h, stage, sound) ==
    /\ ToScript(h, NoToken)
    /\ handlers' = IF Waiting(h)
                   THEN [handlers EXCEPT ![h].stage = stage, ![h].sound = @ /\ sound]
                   ELSE handlers

\* The credential is read, if it is there ...
ReadToken(h) ==
    /\ ScriptAt(h, "read")
    /\ IF staged = NoToken THEN Ends(h, "failed", TRUE) ELSE GoesOn(h, "remove", staged)
    /\ UNCHANGED <<host, tokens, created, onHost>>

\* ... and its file removed.  The script says so where a digest, the archive of the
\* policies or the container is wrong.
Prepare(h) ==
    /\ ScriptAt(h, "remove")
    /\ staged' \in {staged, NoToken}
    /\ Ends(h, "failed", TRUE) \/ GoesOn(h, "write", scripts[h].token)
    /\ UNCHANGED <<host, tokens, created, env, unit, agent>>

\* From here nothing that fails ends it: it runs under "set -u" alone.  A write to
\* sensor.env can leave the old one, or a part of the new.
WriteEnv(h) ==
    /\ ScriptAt(h, "write")
    /\ env' \in {scripts[h].token, env, 0}
    /\ ToScript(h, [scripts[h] EXCEPT !.at = "restart"])
    /\ handlers' = IF Waiting(h) THEN [handlers EXCEPT ![h].sound = @ /\ env' = scripts[h].token]
                                 ELSE handlers
    /\ UNCHANGED <<host, tokens, created, staged, unit, agent>>

\* The unit is written and restarted, or without systemd the agent is replaced by one
\* that is given the credential; the answer is a success whatever has come of it.
RestartAgent(h) ==
    LET k == scripts[h].token IN
    /\ ScriptAt(h, "restart")
    /\ unit' \in IF unit = "off" THEN {"off", "on"} ELSE {unit}
    /\ agent' \in {agent, NoToken} \cup
                (CASE unit' = "on" -> {env} [] unit' = "off" -> {} [] OTHER -> {k})
    /\ Ends(h, "deployed", agent' = k /\ unit' # "off")
    /\ UNCHANGED <<host, tokens, created, staged, env>>

\* The teardown: the unit is disabled and removed, the agent killed, each if it can be.
Teardown(h) ==
    /\ ScriptAt(h, "stop")
    /\ unit' \in IF unit = "on" THEN {"off", "on"} ELSE {unit}
    /\ agent' \in {agent, NoToken}
    /\ Ends(h, "stopped", TRUE)
    /\ UNCHANGED <<host, tokens, created, staged, env>>

AfterScript(h) == IF handlers[h].op = "enable" THEN "failed" ELSE "stopped"

\* A script is killed anywhere in the middle.
ScriptDies(h) ==
    /\ scripts[h] # NoToken
    /\ Ends(h, AfterScript(h), handlers[h].op = "disable")
    /\ UNCHANGED <<host, tokens, created, onHost>>

\* The connection is lost, or hostSensor's four minutes are over and the client is
\* closed: the handler has an error and the script no handler.
HandlerGivesUp(h) ==
    /\ Waiting(h)
    /\ handlers' = [handlers EXCEPT ![h].stage = AfterScript(h), ![h].sound = @ /\ handlers[h].op = "disable"]
    /\ UNCHANGED <<host, tokens, created, onHost, scripts>>

\* The agent crashes or its host reboots: its unit starts it with what sensor.env
\* holds; without a unit it is gone.
AgentRestarts ==
    /\ agent # NoToken \/ unit = "on"
    /\ IF unit = "on" THEN agent' = env /\ UNCHANGED handlers
                      ELSE agent' = NoToken /\ handlers' = Disturbed(handlers)
    /\ UNCHANGED <<host, tokens, created, staged, env, unit, scripts>>

-----------------------------------------------------------------------------
(* DisableSensor: stopping the agent is best-effort.                          *)

StopSensor(h) ==
    /\ Running(h, "disable", "begun")
    /\ \/ /\ dial(h)
          /\ ToStage(h, "scripted") /\ ToScript(h, [at |-> "stop", token |-> NoToken])
       \/ /\ dial(h) \/ UNCHANGED host
          /\ ToStage(h, "stopped") /\ UNCHANGED scripts
    /\ UNCHANGED <<tokens, created, onHost>>

RevokeSensorTokens(h) ==
    /\ Running(h, "disable", "stopped")
    /\ tokens' = {}
    /\ ToStage(h, "revoked")
    /\ UNCHANGED <<host, created, onHost, scripts>>

DisableSensor(h) ==
    /\ Running(h, "disable", "revoked")
    /\ UpdateHost(h, "scan_only", handlers[h].pinned)
    /\ UNCHANGED <<tokens, created, onHost, scripts>>

-----------------------------------------------------------------------------
(* Everyone else.                                                             *)

\* PATCH: the name and the tags, or the mode, which says what the operator
\* wants and touches no agent.
patchHost(h) ==
    /\ Running(h, "edit", "begun")
    /\ \E mode \in Modes : UpdateHost(h, mode, handlers[h].pinned)
    /\ UNCHANGED <<tokens, created, onHost, scripts>>

\* The host form does the same; with new login credentials it also forgets the
\* key, for the next contact to pin.
uiEditHost(h) ==
    /\ Running(h, "edit", "begun")
    /\ \E mode \in Modes, secret \in BOOLEAN :
         UpdateHost(h, mode, handlers[h].pinned /\ ~secret)
    /\ UNCHANGED <<tokens, created, onHost, scripts>>

\* A scan pins the key on first contact, by itself.
SetHostSSHHostKey ==
    /\ host' = [host EXCEPT !.pinned = TRUE]
    /\ UNCHANGED <<tokens, created, onHost, scripts, handlers>>

\* An administrator revokes a credential, or its 90 days are over.
revokeSensorToken(k) ==
    /\ tokens' = tokens \ {k}
    /\ handlers' = Disturbed(handlers)
    /\ UNCHANGED <<host, created, onHost, scripts>>

\* An administrator creates one, for an agent installed by hand.
createSensorToken ==
    /\ created < MaxTokens
    /\ created' = created + 1
    /\ tokens' = tokens \cup {created + 1}
    /\ handlers' = Disturbed(handlers)
    /\ UNCHANGED <<host, onHost, scripts>>

DeploymentNext ==
    \/ \E h \in Handlers :
         \/ \E op \in {"enable", "disable", "edit"} : Begin(h, op)
         \/ CreateSensorToken(h) \/ DeploySensor(h)
         \/ DeployFails(h) \/ RevokeSensorToken(h) \/ RevokeOtherSensorTokens(h)
         \/ EnableSensor(h) \/ StoreFails(h)
         \/ ReadToken(h) \/ Prepare(h) \/ WriteEnv(h) \/ RestartAgent(h) \/ Teardown(h)
         \/ ScriptDies(h) \/ HandlerGivesUp(h)
         \/ StopSensor(h) \/ RevokeSensorTokens(h) \/ DisableSensor(h)
         \/ patchHost(h) \/ uiEditHost(h)
    \/ SetHostSSHHostKey \/ AgentRestarts
    \/ createSensorToken
    \/ \E k \in tokens : revokeSensorToken(k)

DeploymentSpec == DeploymentInit /\ [][DeploymentNext]_deploymentVars

-----------------------------------------------------------------------------
(* Properties.                                                                *)

\* The agent's events are accepted.
Authenticated == agent \in tokens

\* Handler h or its script took this step ...
OwnStep(h) ==
    /\ handlers[h] # NoToken
    /\ \/ handlers'[h] = NoToken \/ handlers'[h].stage # handlers[h].stage
       \/ scripts'[h] # scripts[h]

\* ... and the operation was and is sound.
SoundStep(h) ==
    OwnStep(h) /\ handlers[h].sound /\ (handlers'[h] = NoToken \/ handlers'[h].sound)

\* Enabling the sensor of a host whose agent is authenticated never interrupts
\* it, at any step, also where the upload or the script fails half-way: the comment in
\* EnableSensor, "rotations [have] no authentication gap", holds when nothing else
\* touches the host's sensor, no failure on the host goes unsaid and no answer is lost.
RotationHasNoGap ==
    [][\A h \in Handlers :
         SoundStep(h) /\ handlers[h].op = "enable" /\ Authenticated
           => Authenticated']_deploymentVars

\* A sound operation that gets past its revocations leaves credentials,
\* agent and row agreeing, whatever earlier failures and overlaps left behind: the
\* agent runs, and is restarted, with the only credential there is, or there is none.
OperationSettles ==
    [][\A h \in Handlers :
         SoundStep(h) /\ handlers[h].stage = "revoked" =>
           IF handlers[h].op = "enable"
           THEN /\ tokens' = {agent} /\ (unit = "on" => env = agent)
                /\ host' # host => host'.mode = "scan_plus_sensor"
           ELSE tokens' = {} /\ (host' # host => host'.mode = "scan_only")]_deploymentVars

\* The comment as it stands.  Two deployments share the staging directory and
\* each revokes the other's credential; a lost answer makes the server revoke
\* the credential that the restarted agent runs with; and a script whose last
\* commands fail still reports a success, on which the old credential is revoked.
RotationNeverHasAGap ==
    [][\A h \in Handlers :
         OwnStep(h) /\ handlers[h].op = "enable" /\ Authenticated => Authenticated']_deploymentVars

\* UpdateHost's contract, "made by one caller holding a just-read Host": a pinned
\* key is forgotten only by an edit.  EnableSensor writes back the row it read
\* before its own connection pinned the key.
OnlyAnEditUnpins ==
    [][host.pinned /\ ~host'.pinned =>
         \E h \in Handlers : Running(h, "edit", "begun")]_deploymentVars
=============================================================================
