------------------------ MODULE BootPosture_proofs ------------------------
(***************************************************************************)
(* The posture of a process for every set of deployments: what app.py and  *)
(* the preflight settle before serving still holds at every answer.        *)
(***************************************************************************)
EXTENDS BootPosture, TLAPS

(* The guard on the application object is what the binding and the choice  *)
(* of the profile say, from the import on.                                 *)
GuardIsPosture ==
  phase \in {"bind", "serving"} => guard = ~EndUserAuthenticated

(* So is the profile main() binds by, and a host bound by main() is the    *)
(* one resolve_bind_host gave for it.                                      *)
HostIsPosture ==
  /\ phase \in {"bind", "serving"} =>
       bindProfile = IF EndUserAuthenticated THEN ActiveProfile ELSE "local"
  /\ phase = "serving" /\ dep.command = "main" => bound = Host

(* A container past its preflight, and any process that serves, was found  *)
(* ready.                                                                  *)
ReadyBehind ==
  /\ phase \in {"import", "bind"} /\ dep.command = "container" => Ready
  /\ phase = "serving" => Ready

PostureInv ==
  /\ dep \in Deployments
  /\ GuardIsPosture
  /\ HostIsPosture
  /\ ReadyBehind

(* The environment does not change under a process, so nothing that is     *)
(* read from it alone does.                                                *)
LEMMA DeploymentFixed ==
  ASSUME dep' = dep
  PROVE  /\ Ready' = Ready
         /\ EndUserAuthenticated' = EndUserAuthenticated
         /\ ActiveProfile' = ActiveProfile
         /\ Identity' = Identity
<1>1. ActiveProfile' = ActiveProfile /\ Explicit' = Explicit /\ Unstated' = Unstated
  BY DEF ActiveProfile, Explicit, Unstated
<1>2. Identity' = Identity
  BY <1>1 DEF Identity
<1>3. Loads' = Loads
  BY <1>1 DEF Loads, FileReads, ProfileResolves, SwitchReads, ControlsReachable, On,
              ReviewUrl, ModelArmor, Template
<1>4. Ready' = Ready
  BY <1>1, <1>3 DEF Ready, Placeholders
<1>5. EndUserAuthKind' = EndUserAuthKind
  BY <1>2, <1>3 DEF EndUserAuthKind
<1> QED BY <1>1, <1>2, <1>4, <1>5 DEF EndUserAuthenticated

LEMMA PostureInit == Init => PostureInv
BY DEF Init, PostureInv, GuardIsPosture, HostIsPosture, ReadyBehind

(* Every step of a process, its start and its end included.                *)
LEMMA PostureStep == PostureInv /\ [Next]_vars => PostureInv'
<1> SUFFICES ASSUME PostureInv, [Next]_vars PROVE PostureInv'
  OBVIOUS
<1> USE DEF PostureInv, GuardIsPosture, HostIsPosture, ReadyBehind
<1>1. dep' = dep
  BY DEF Next, vars, Start, Exit, Preflight, PreflightRefuses, Import,
         ImportRefuses, Bind, BindRefuses, Handle, Stop
<1>2. ASSUME Exit PROVE PostureInv'
  BY <1>1, <1>2 DEF Exit
<1>3. CASE Start
  <2>1. phase' = IF dep.command = "container" THEN "preflight" ELSE "import"
    BY <1>3 DEF Start
  <2> QED BY <1>1, <2>1
<1>4. CASE Preflight
  BY <1>1, <1>4, DeploymentFixed DEF Preflight
<1>5. CASE Import
  BY <1>1, <1>5, DeploymentFixed DEF Import
<1>6. CASE Bind
  <2>1. Ready /\ phase = "bind" /\ phase' = "serving"
    BY <1>6, DeploymentsAssumption DEF Bind, Deployment
  <2>2. UNCHANGED <<guard, bindProfile>>
    BY <1>6 DEF Bind
  <2>3. dep.command = "main" => bound' = Host'
    BY <1>1, <1>6, <2>2 DEF Bind, Host
  <2> QED BY <1>1, <2>1, <2>2, <2>3, DeploymentFixed
<1>7. CASE Handle
  <2>1. UNCHANGED <<phase, guard, bindProfile, bound>>
    BY <1>7 DEF Handle
  <2>2. Host' = Host
    BY <1>1, <2>1 DEF Host
  <2> QED BY <1>1, <2>1, <2>2, DeploymentFixed
<1>8. CASE PreflightRefuses \/ ImportRefuses \/ BindRefuses \/ Stop
  BY <1>8, <1>2 DEF PreflightRefuses, ImportRefuses, BindRefuses, Stop
<1>9. CASE UNCHANGED vars
  <2>1. UNCHANGED <<phase, guard, bindProfile, bound>>
    BY <1>9 DEF vars
  <2>2. Host' = Host
    BY <1>1, <2>1 DEF Host
  <2> QED BY <1>1, <2>1, <2>2, DeploymentFixed
<1> QED
  BY <1>3, <1>4, <1>5, <1>6, <1>7, <1>8, <1>9 DEF Next

-----------------------------------------------------------------------------
(* ServesOnlyConfigured for every set of deployments: of the container and *)
(* of main(), although the import itself asks for none of it.              *)
THEOREM ManagedServesConfigured == Spec => []ServesOnlyConfigured
<1>1. PostureInv => ServesOnlyConfigured
  <2> SUFFICES ASSUME PostureInv, phase = "serving"
               PROVE  ServesOnlyConfigured
    BY DEF ServesOnlyConfigured
  <2>1. /\ dep.routing \in Variable /\ dep.guardrail \in Variable
        /\ dep.file \in SettingsFile
    BY DeploymentsAssumption DEF PostureInv, Deployment
  <2>2. Ready /\ Loads
    BY DEF PostureInv, ReadyBehind, Ready
  <2>3. dep.file = "absent" \/ dep.file = "read"
    BY <2>1, <2>2 DEF Loads, FileReads, SettingsFile
  <2>4. CASE dep.profile = "gcp"
    <3>1. ActiveProfile = "gcp"
      BY <2>4 DEF ActiveProfile, Explicit
    <3> QED BY <2>1, <2>2, <2>3, <3>1 DEF Ready, Loads, ControlsReachable, On,
                        SwitchReads, Variable, ServesOnlyConfigured
  <2> QED BY <2>3, <2>4 DEF ServesOnlyConfigured
<1> QED BY <1>1, PostureInit, PostureStep, PTL DEF Spec

(* BindFollowsGuard for every set of deployments: the two bounds main()    *)
(* puts on the service cannot disagree.                                    *)
THEOREM MainBindsAsGuarded == Spec => []BindFollowsGuard
<1>1. PostureInv => BindFollowsGuard
  <2> SUFFICES ASSUME PostureInv, phase = "serving", dep.command = "main",
                      bound = "any"
               PROVE  ~Refused("lan")
    BY DEF BindFollowsGuard
  <2>1. Host = "any" /\ guard = ~EndUserAuthenticated
    BY DEF PostureInv, GuardIsPosture, HostIsPosture
  <2>2. CASE EndUserAuthenticated
    BY <2>1, <2>2 DEF Refused
  <2>3. CASE ~EndUserAuthenticated
    <3>1. bindProfile = "local"
      BY <2>3 DEF PostureInv, HostIsPosture
    <3> QED BY <2>1, <3>1 DEF Host, Refused
  <2> QED BY <2>2, <2>3
<1> QED BY <1>1, PostureInit, PostureStep, PTL DEF Spec

-----------------------------------------------------------------------------
(* Where the guard stands aside without the demo's leave, the adapter that *)
(* is built later answers 200 to nobody but a principal it verified.       *)
LEMMA VerifiedAnswers ==
  ASSUME dep \in Deployments, EndUserAuthenticated, NEW credential \in Credential,
         Resolved(credential)[1] = 200
  PROVE  Explicit /\ Resolved(credential)[2] = "verified"
<1>1. Explicit /\ Identity \in {"iap", "own"}
  <2>1. Explicit /\ EndUserAuthKind = "verified" /\ Loads
    BY DEF EndUserAuthenticated, EndUserAuthKind
  <2>2. dep.profile \in Profile
    BY <2>1, DeploymentsAssumption DEF Deployment, Loads, ProfileResolves, Explicit
  <2>3. Identity \in IdentityAdapter
    BY <2>1, <2>2, DeploymentsAssumption
    DEF Deployment, Identity, ShippedIdentity, ActiveProfile, Profile, IdentityAdapter
  <2> QED BY <2>1, <2>3 DEF EndUserAuthKind, IdentityAdapter
<1>2. CASE Identity = "own"
  BY <1>1, <1>2 DEF Resolved
<1>3. CASE Identity = "iap"
  BY <1>1, <1>3 DEF Resolved
<1> QED BY <1>1, <1>2, <1>3

(* One answer: a response pack that leaves for a peer the guard bounds.    *)
LEMMA ResponsePackKeeps ==
  ASSUME PostureInv, phase = "serving", dep' = dep,
         NEW peer \in Peer, NEW credential \in Credential,
         ResponsePack(peer, credential)
  PROVE  OffTheMachineVerified'
<1> SUFFICES ASSUME answer' # NoAnswer, answer'.route = "response-pack",
                    answer'.peer # "loopback", answer'.status = 200, ~dep.demo
             PROVE  Explicit /\ answer'.as = "verified"
  BY DEF OffTheMachineVerified, Explicit
<1>1. /\ answer'.peer = peer
      /\ Resolved(credential)[1] = 200
      /\ answer'.as = Resolved(credential)[2]
  BY DEF ResponsePack, AsksIdentity, Responds
<1>2. ~guard
  BY <1>1 DEF ResponsePack, AsksIdentity, Refused
<1>3. EndUserAuthenticated
  BY <1>2 DEF PostureInv, GuardIsPosture
<1> QED BY <1>1, <1>3, VerifiedAnswers DEF PostureInv

LEMMA HandleKeeps ==
  ASSUME PostureInv, Handle
  PROVE  OffTheMachineVerified'
<1>1. phase = "serving" /\ dep' = dep
  BY DEF Handle
<1>2. PICK peer \in Peer, credential \in Credential :
        \/ \E route \in Route : GuardRefuses(route, peer, credential)
        \/ Healthz(peer, credential) \/ AgentCard(peer, credential)
        \/ ResponsePack(peer, credential) \/ Personas(peer, credential)
        \/ Docs(peer, credential) \/ AuditPing(peer, credential)
  BY DEF Handle
<1>3. CASE \E route \in Route : GuardRefuses(route, peer, credential)
  BY <1>3 DEF GuardRefuses, Responds, OffTheMachineVerified
<1>4. CASE Healthz(peer, credential) \/ AgentCard(peer, credential)
  BY <1>4 DEF Healthz, AgentCard, ReadsSettings, Responds, OffTheMachineVerified
<1>5. CASE ResponsePack(peer, credential)
  BY <1>1, <1>5, ResponsePackKeeps
<1>6. CASE Personas(peer, credential)
  BY <1>6 DEF Personas, AsksIdentity, Responds, OffTheMachineVerified
<1>7. CASE Docs(peer, credential)
  BY <1>7 DEF Docs, Responds, OffTheMachineVerified
<1>8. CASE AuditPing(peer, credential)
  <2>1. answer'.route = "audit-ping"
    BY <1>8 DEF AuditPing, Responds
  <2> QED BY <2>1 DEF OffTheMachineVerified
<1> QED BY <1>2, <1>3, <1>4, <1>5, <1>6, <1>7, <1>8

(* OffTheMachineVerified for every set of deployments: the posture app.py  *)
(* derives at import from a class is borne out by the adapter that         *)
(* get_principal asks at the request.                                      *)
THEOREM NobodyUnverifiedOffTheMachine == Spec => []OffTheMachineVerified
<1>1. Init => OffTheMachineVerified
  BY DEF Init, OffTheMachineVerified
<1>2. PostureInv /\ OffTheMachineVerified /\ [Next]_vars => OffTheMachineVerified'
  <2> SUFFICES ASSUME PostureInv, OffTheMachineVerified, [Next]_vars
               PROVE  OffTheMachineVerified'
    OBVIOUS
  <2>1. CASE Handle
    BY <2>1, HandleKeeps
  <2>2. CASE Exit
    BY <2>2 DEF Exit, OffTheMachineVerified
  <2>3. CASE dep' = dep /\ answer' = answer
    BY <2>3 DEF OffTheMachineVerified, Explicit
  <2> QED
    BY <2>1, <2>2, <2>3 DEF Next, vars, Start, Preflight, PreflightRefuses,
       Import, ImportRefuses, Bind, BindRefuses, Stop
<1> QED BY <1>1, <1>2, PostureInit, PostureStep, PTL DEF Spec

-----------------------------------------------------------------------------
(* An adapter that is there is one that agreed to be constructed.          *)
AdapterAgreed == adapter => Constructs

LEMMA AdapterStep == AdapterAgreed /\ [Next]_vars => AdapterAgreed'
<1> SUFFICES ASSUME AdapterAgreed, [Next]_vars PROVE AdapterAgreed'
  OBVIOUS
<1>1. dep' = dep
  BY DEF Next, vars, Start, Exit, Preflight, PreflightRefuses, Import,
         ImportRefuses, Bind, BindRefuses, Handle, Stop
<1>2. Identity' = Identity /\ ActiveProfile' = ActiveProfile /\ Explicit' = Explicit
  BY <1>1, DeploymentFixed DEF Explicit
<1>3. Constructs' = Constructs
  BY <1>2 DEF Constructs
<1>4. adapter' => adapter \/ Constructs
  <2>1. CASE Handle
    <3>1. PICK peer \in Peer, credential \in Credential :
            \/ \E route \in Route : GuardRefuses(route, peer, credential)
            \/ Healthz(peer, credential) \/ AgentCard(peer, credential)
            \/ ResponsePack(peer, credential) \/ Personas(peer, credential)
            \/ Docs(peer, credential) \/ AuditPing(peer, credential)
      BY <2>1 DEF Handle
    <3>2. CASE ResponsePack(peer, credential) \/ Personas(peer, credential)
      BY <3>2 DEF ResponsePack, Personas, AsksIdentity, AdapterBuilt
    <3>3. CASE UNCHANGED adapter
      BY <3>3
    <3> QED
      BY <3>1, <3>2, <3>3 DEF GuardRefuses, Healthz, AgentCard, ReadsSettings, Docs, AuditPing
  <2>2. CASE Exit
    BY <2>2 DEF Exit
  <2>3. CASE UNCHANGED adapter
    BY <2>3
  <2> QED
    BY <2>1, <2>2, <2>3 DEF Next, vars, Start, Preflight, PreflightRefuses,
       Import, ImportRefuses, Bind, BindRefuses, Stop
<1> QED BY <1>3, <1>4 DEF AdapterAgreed

(* Where nobody chose a profile the guard is up: whoever gets past it is   *)
(* on the machine, or the demo was opted into.                             *)
LEMMA InheritedIsGuarded ==
  ASSUME PostureInv, phase = "serving", ~Explicit, NEW peer, ~Refused(peer)
  PROVE  peer = "loopback" \/ dep.demo
BY DEF PostureInv, GuardIsPosture, EndUserAuthenticated, Refused

(* One answer under a profile nobody chose.                                *)
LEMMA InheritedAnswers ==
  ASSUME PostureInv, AdapterAgreed, Handle, ~Explicit,
         answer'.status = 200
  PROVE  /\ answer'.route \notin {"audit-ping", "docs"}
         /\ answer'.as # "persona"
         /\ answer'.peer = "loopback" \/ dep.demo
<1>1. phase = "serving" /\ dep' = dep
  BY DEF Handle
<1>2. PICK peer \in Peer, credential \in Credential :
        \/ \E route \in Route : GuardRefuses(route, peer, credential)
        \/ Healthz(peer, credential) \/ AgentCard(peer, credential)
        \/ ResponsePack(peer, credential) \/ Personas(peer, credential)
        \/ Docs(peer, credential) \/ AuditPing(peer, credential)
  BY DEF Handle
<1>3. ~(\E route \in Route : GuardRefuses(route, peer, credential))
  BY DEF GuardRefuses, Responds
<1>4. ~Docs(peer, credential)
  BY DEF Docs, Responds, ExposureProfile
<1>5. ~AuditPing(peer, credential)
  <2> SUFFICES ASSUME AuditPing(peer, credential) PROVE FALSE
    OBVIOUS
  <2>1. PICK accepted \in {FALSE} :
          Responds("audit-ping", peer, credential, IF accepted THEN 200 ELSE 401, "nobody")
    BY DEF AuditPing
  <2>2. answer'.status = 401
    BY <2>1 DEF Responds
  <2> QED BY <2>2
<1>6. CASE Healthz(peer, credential) \/ AgentCard(peer, credential)
  BY <1>1, <1>6, InheritedIsGuarded DEF Healthz, AgentCard, ReadsSettings, Responds
<1>7. CASE ResponsePack(peer, credential) \/ Personas(peer, credential)
  <2>1. adapter' /\ ~Refused(peer) /\ answer'.peer = peer
    BY <1>7 DEF ResponsePack, Personas, AsksIdentity, Responds
  <2>2. Constructs
    BY <1>7, <2>1 DEF ResponsePack, Personas, AsksIdentity, AdapterBuilt, AdapterAgreed
  <2>3. Identity # "personas"
    BY <2>2 DEF Constructs
  <2>4. peer = "loopback" \/ dep.demo
    BY <1>1, <2>1, InheritedIsGuarded
  <2>5. answer'.as # "persona"
    <3>1. CASE Personas(peer, credential)
      BY <2>1, <2>3, <3>1 DEF Personas, AsksIdentity, Responds
    <3>2. CASE ResponsePack(peer, credential)
      <4>1. answer'.as = Resolved(credential)[2] /\ Resolved(credential)[1] = 200
        BY <2>1, <3>2 DEF ResponsePack, AsksIdentity, Responds
      <4>2. Identity \in IdentityAdapter
        <5>1. dep.profile = "unset" /\ ActiveProfile = "local"
          BY DEF Explicit, ActiveProfile
        <5> QED BY <5>1, DeploymentsAssumption
            DEF PostureInv, Deployment, Identity, ShippedIdentity, IdentityAdapter
      <4>3. Identity # "nowhere"
        BY <2>2 DEF Constructs
      <4>4. CASE Identity \in {"placeholder", "silent"}
        BY <4>1, <4>4 DEF Resolved
      <4>5. CASE Identity = "own"
        BY <4>1, <4>5 DEF Resolved
      <4>6. CASE Identity = "iap"
        BY <4>1, <4>6 DEF Resolved
      <4> QED BY <2>3, <4>2, <4>3, <4>4, <4>5, <4>6 DEF IdentityAdapter
    <3> QED BY <1>7, <3>1, <3>2
  <2>6. answer'.route \in {"response-pack", "personas"}
    <3>1. CASE ResponsePack(peer, credential)
      <4>1. answer'.route = "response-pack"
        BY <2>1, <3>1 DEF ResponsePack, AsksIdentity, Responds
      <4> QED BY <4>1
    <3>2. CASE Personas(peer, credential)
      <4>1. answer'.route = "personas"
        BY <2>1, <3>2 DEF Personas, AsksIdentity, Responds
      <4> QED BY <4>1
    <3> QED BY <1>7, <3>1, <3>2
  <2> QED BY <2>1, <2>4, <2>5, <2>6
<1> QED BY <1>2, <1>3, <1>4, <1>5, <1>6, <1>7

(* InheritedGrantsNothing for every set of deployments: every relaxation   *)
(* and every restriction reads an unset profile on its closed side.        *)
THEOREM UnsetIsNotConsent == Spec => []InheritedGrantsNothing
<1>1. Init => InheritedGrantsNothing /\ AdapterAgreed
  BY DEF Init, InheritedGrantsNothing, AdapterAgreed
<1>2. PostureInv /\ PostureInv' /\ AdapterAgreed /\ InheritedGrantsNothing /\ [Next]_vars
        => InheritedGrantsNothing'
  <2> SUFFICES ASSUME PostureInv, PostureInv', AdapterAgreed, InheritedGrantsNothing,
                      [Next]_vars, ~Explicit'
               PROVE  InheritedGrantsNothing'
    BY DEF InheritedGrantsNothing
  <2>1. dep' = dep /\ ~Explicit
    BY DEF Next, vars, Start, Exit, Preflight, PreflightRefuses, Import,
           ImportRefuses, Bind, BindRefuses, Handle, Stop, Explicit
  <2>2. ASSUME phase' = "serving", dep'.command = "main", bound' = "any" PROVE dep'.demo
    <3>1. bindProfile' = "local" /\ bound' = Host'
      BY <2>2 DEF PostureInv, HostIsPosture, EndUserAuthenticated
    <3> QED BY <2>2, <3>1 DEF Host
  <2>3. CASE Handle
    BY <2>1, <2>2, <2>3, InheritedAnswers DEF InheritedGrantsNothing
  <2>4. CASE Exit
    BY <2>2, <2>4 DEF Exit, InheritedGrantsNothing
  <2>5. CASE answer' = answer
    BY <2>1, <2>2, <2>5 DEF InheritedGrantsNothing
  <2> QED
    BY <2>3, <2>4, <2>5 DEF Next, vars, Start, Preflight, PreflightRefuses,
       Import, ImportRefuses, Bind, BindRefuses, Stop
<1> QED BY <1>1, <1>2, PostureInit, PostureStep, AdapterStep, PTL DEF Spec

-----------------------------------------------------------------------------
\* What a process is between its steps.
Running ==
  /\ phase \in {"down", "preflight", "import", "bind", "serving"}
  /\ guard \in BOOLEAN
  /\ bindProfile \in Profile
  /\ bound \in {"nothing", "loopback", "any"}
  /\ container \in BOOLEAN /\ adapter \in BOOLEAN
  /\ answer = NoAnswer \/ answer \in Answer

\* A constructed adapter answers with a status and a principal of its own.
LEMMA ResolvedTyped ==
  ASSUME PostureInv, phase = "serving", Constructs, NEW credential
  PROVE  /\ Resolved(credential)[1] \in {200, 401, 501, 503}
         /\ Resolved(credential)[2] \in Principal
<1>1. dep.profile \in Profile \cup {"unset"} /\ dep.identity \in IdentityAdapter
  BY DeploymentsAssumption
  DEF PostureInv, ReadyBehind, Ready, Loads, ProfileResolves, Deployment
<1>2. Identity \in IdentityAdapter \ {"nowhere"}
  <2>1. ActiveProfile \in Profile
    BY <1>1 DEF ActiveProfile, Explicit, Profile
  <2>2. Identity \in IdentityAdapter
    BY <1>1, <2>1 DEF Identity, ShippedIdentity, Profile, IdentityAdapter
  <2>3. Identity # "nowhere"
    BY DEF Constructs
  <2> QED BY <2>2, <2>3
<1>3. CASE Identity = "personas"
  BY <1>3 DEF Resolved, Principal
<1>4. CASE Identity = "placeholder"
  BY <1>4 DEF Resolved, Principal
<1>5. CASE Identity = "silent"
  BY <1>5 DEF Resolved, Principal
<1>6. CASE Identity = "own"
  BY <1>6 DEF Resolved, Principal
<1>7. CASE Identity = "iap"
  BY <1>7 DEF Resolved, Principal
<1> QED BY <1>2, <1>3, <1>4, <1>5, <1>6, <1>7 DEF IdentityAdapter

LEMMA RespondsTyped ==
  ASSUME NEW route \in Route, NEW peer \in Peer, NEW credential \in Credential,
         NEW status \in {200, 401, 404, 500, 501, 503}, NEW who \in Principal,
         Responds(route, peer, credential, status, who)
  PROVE  answer' \in Answer
BY DEF Responds, Answer

(* Every route answers with a status of its own.                           *)
LEMMA AnswersTyped ==
  ASSUME PostureInv, AdapterAgreed, Running, Handle
  PROVE  answer' \in Answer /\ container' \in BOOLEAN /\ adapter' \in BOOLEAN
<1>1. phase = "serving"
  BY DEF Handle
<1>2. PICK peer \in Peer, credential \in Credential :
        \/ \E route \in Route : GuardRefuses(route, peer, credential)
        \/ Healthz(peer, credential) \/ AgentCard(peer, credential)
        \/ ResponsePack(peer, credential) \/ Personas(peer, credential)
        \/ Docs(peer, credential) \/ AuditPing(peer, credential)
  BY DEF Handle
<1> USE DEF Route, Principal
<1>3. CASE \E route \in Route : GuardRefuses(route, peer, credential)
  BY <1>3, RespondsTyped DEF GuardRefuses, Running
<1>4. CASE Healthz(peer, credential) \/ AgentCard(peer, credential)
  <2>1. PICK route \in {"healthz", "agent-card"} : ReadsSettings(route, peer, credential)
    BY <1>4 DEF Healthz, AgentCard
  <2>2. Responds(route, peer, credential, IF container' THEN 200 ELSE 500, "nobody")
        /\ container' \in BOOLEAN /\ adapter' = adapter
    BY <2>1 DEF ReadsSettings, ContainerBuilt, Running, Loads
  <2> QED BY <2>2, RespondsTyped DEF Running
<1>5. ASSUME NEW route \in Route, NEW refusal \in {401, 503},
             NEW status, NEW who, AsksIdentity(route, peer, credential, refusal, status, who),
             Constructs => status \in {200, 401, 501, 503} /\ who \in Principal
      PROVE  answer' \in Answer /\ container' \in BOOLEAN /\ adapter' \in BOOLEAN
  <2>1. container' \in BOOLEAN /\ adapter' \in BOOLEAN
    BY <1>5 DEF AsksIdentity, ContainerBuilt, AdapterBuilt
  <2>2. adapter' => Constructs
    BY <1>5 DEF AsksIdentity, AdapterBuilt, AdapterAgreed
  <2>3. ASSUME adapter' PROVE answer' \in Answer
    <3>1. Responds(route, peer, credential, status, who)
      BY <1>5, <2>3 DEF AsksIdentity
    <3>2. Constructs
      BY <2>2, <2>3
    <3>3. status \in {200, 401, 501, 503} /\ who \in Principal
      BY <1>5, <3>2
    <3> QED BY <3>1, <3>3 DEF Responds, Answer
  <2>4. ASSUME ~adapter' PROVE answer' \in Answer
    <3>1. Responds(route, peer, credential,
                   IF container' /\ Identity # "nowhere" THEN refusal ELSE 500, "nobody")
      BY <1>5, <2>4 DEF AsksIdentity
    <3> QED BY <3>1, RespondsTyped
  <2> QED BY <2>1, <2>3, <2>4
<1>6. CASE ResponsePack(peer, credential)
  <2>1. Constructs => /\ Resolved(credential)[1] \in {200, 401, 501, 503}
                      /\ Resolved(credential)[2] \in Principal
    BY <1>1, ResolvedTyped
  <2> QED BY <1>5, <1>6, <2>1 DEF ResponsePack
<1>7. CASE Personas(peer, credential)
  BY <1>5, <1>7 DEF Personas
<1>8. CASE Docs(peer, credential)
  BY <1>8, RespondsTyped DEF Docs, Running
<1>9. CASE AuditPing(peer, credential)
  <2>1. PICK accepted : Responds("audit-ping", peer, credential,
                                 IF accepted THEN 200 ELSE 401, "nobody")
    BY <1>9 DEF AuditPing
  <2> QED BY <1>9, <2>1, RespondsTyped DEF AuditPing, Running
<1> QED BY <1>2, <1>3, <1>4, <1>6, <1>7, <1>8, <1>9

LEMMA RunningStep ==
  PostureInv /\ AdapterAgreed /\ Running /\ [Next]_vars => Running'
<1> SUFFICES ASSUME PostureInv, AdapterAgreed, Running, [Next]_vars PROVE Running'
  OBVIOUS
<1>1. CASE Handle
  BY <1>1, AnswersTyped DEF Handle, Running
<1>2. CASE Exit
  BY <1>2 DEF Exit, Running, Profile
<1>3. CASE Start \/ Preflight
  BY <1>3 DEF Start, Preflight, Running
<1>4. CASE Import
  <2>1. dep.profile \in Profile \cup {"unset"}
    BY <1>4, DeploymentsAssumption DEF PostureInv, Import, ProfileResolves, Deployment
  <2>2. bindProfile' \in Profile
    BY <1>4, <2>1 DEF Import, ActiveProfile, Explicit, Profile
  <2>3. guard' \in BOOLEAN
    BY <1>4 DEF Import
  <2> QED BY <1>4, <2>2, <2>3 DEF Import, Running
<1>5. CASE Bind
  <2>1. dep.host \in {"unset", "loopback", "any"}
    BY DeploymentsAssumption DEF PostureInv, Deployment
  <2>2. Host \in {"loopback", "any"}
    BY <2>1 DEF Host
  <2> QED BY <1>5, <2>2 DEF Bind, Running
<1>6. CASE UNCHANGED vars
  BY <1>6 DEF vars, Running
<1> QED
  BY <1>1, <1>2, <1>3, <1>4, <1>5, <1>6
  DEF Next, PreflightRefuses, ImportRefuses, BindRefuses, Stop

(* Every answer of every process of every deployment is a status the code  *)
(* names, to a principal of a known kind, on whichever route and out of    *)
(* whichever adapter the settings bound (get_principal, resolve).          *)
THEOREM TypeCorrect == Spec => []TypeOK
<1>1. Init => Running /\ AdapterAgreed
  BY DEF Init, Running, AdapterAgreed, Profile
<1>2. PostureInv /\ Running => TypeOK
  BY DEF PostureInv, Running, TypeOK
<1> QED BY <1>1, <1>2, RunningStep, AdapterStep, PostureInit, PostureStep, PTL DEF Spec
=============================================================================
