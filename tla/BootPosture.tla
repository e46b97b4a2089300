---------------------------- MODULE BootPosture ----------------------------
(***************************************************************************)
(* From a deployment's environment and settings file to the first answers  *)
(* of a process: the three-state reads, the managed preflight, the posture *)
(* app.py derives at import, the host main() binds, and the container and  *)
(* the identity adapter that are built only when a request needs them.     *)
(* The posture is decided once, from the class the identity binding names; *)
(* the adapter itself is constructed later, and may refuse.  Environment   *)
(* and file do not change between a process's start and its end.           *)
(***************************************************************************)
EXTENDS Naturals

Variable == {"unset", "empty", "on", "off"}
Profile == {"local", "gcp", "onprem"}
\* What the identity binding of the active profile names: a shipped adapter,
\* the client's own one that verifies or that declares nothing, or no class.
IdentityAdapter == {"personas", "iap", "placeholder", "own", "silent", "nowhere"}

\* Why the settings file stops the settings from loading: the variable names
\* no file or is emptied; the file is no mapping, refers to an emptied
\* variable, or has a policy (PolicyFile), a table of adapters or a Model
\* Armor deadline that is refused.
Unreadable == {"named_missing", "named_empty", "no_mapping", "emptied_reference",
               "bad_policy", "bad_adapters", "bad_timeout"}

SettingsFile == {"absent", "read"} \cup Unreadable

Deployment ==
  [profile : Profile \cup {"unset", "empty", "unknown"},
   routing : Variable, guardrail : Variable,  \* the two control switches
   file : SettingsFile,                       \* and what it says when it is read:
   reviewUrl : BOOLEAN, template : BOOLEAN,   \* are they named?
   modelArmor : BOOLEAN,                      \* the guardrail is Model Armor's
   placeholders : BOOLEAN,                    \* an active binding is incomplete
   identity : IdentityAdapter, audience : BOOLEAN,
   verifier : BOOLEAN, secret : BOOLEAN,      \* installed, and set
   host : {"unset", "loopback", "any"}, demo : BOOLEAN,
   command : {"container", "main"}]           \* Dockerfile CMD, make run-api

CONSTANT Deployments   \* the deployments of interest

ASSUME DeploymentsAssumption == Deployments \subseteq Deployment

VARIABLES
  phase,               \* "down", "preflight", "import", "bind", "serving"
  dep,                 \* the deployment
  guard,               \* the exposure guard is up
  bindProfile,         \* _BIND_PROFILE
  bound,               \* the host the process listens on
  container,           \* _container() has been built
  adapter,             \* the identity adapter has been constructed
  answer               \* the last answer

vars == <<phase, dep, guard, bindProfile, bound, container, adapter, answer>>

Route == {"response-pack", "healthz", "agent-card", "personas", "docs", "audit-ping"}
\* A proxied request comes from loopback with a forwarding header on it.
Peer == {"loopback", "proxied", "lan"}
\* A forged one is an assertion that does not verify, or a persona that is not
\* one of the seeded; naming no persona is answered by the default one.
Credential == {"none", "persona", "assertion", "forged", "service"}
Principal == {"nobody", "persona", "verified", "undeclared"}
NoAnswer == [status |-> 0]
Answer == [route : Route, peer : Peer, credential : Credential,
           status : {200, 401, 404, 500, 501, 503}, as : Principal]

TypeOK ==
  /\ phase \in {"down", "preflight", "import", "bind", "serving"}
  /\ dep \in Deployments
  /\ guard \in BOOLEAN
  /\ bindProfile \in Profile
  /\ bound \in {"nothing", "loopback", "any"}
  /\ container \in BOOLEAN /\ adapter \in BOOLEAN
  /\ answer = NoAnswer \/ answer \in Answer

Init ==
  /\ phase = "down"
  /\ dep \in Deployments
  /\ guard = TRUE
  /\ bindProfile = "local"
  /\ bound = "nothing"
  /\ container = FALSE /\ adapter = FALSE
  /\ answer = NoAnswer

-----------------------------------------------------------------------------
\* resolve_profile: emptied and unknown raise, unset is nobody's choice.
ProfileResolves == dep.profile \notin {"empty", "unknown"}
Explicit == dep.profile # "unset"
ActiveProfile == IF Explicit THEN dep.profile ELSE "local"

\* boolean_setting with default True.
SwitchReads(v) == v # "empty"
On(v) == v \in {"unset", "on"}

\* Slip: every relaxation follows the profile that is bound.
ExposureProfile_AsBound == ActiveProfile

ExposureProfile == IF Explicit THEN dep.profile ELSE "unconfigured"

\* Slip: a file that was named and is not there is no file.
FileReads_MissingIsNone == dep.file \notin Unreadable \ {"named_missing"}

FileReads == dep.file \notin Unreadable

\* Without a file the settings are those of the code: DEFAULT_BINDINGS, the
\* shipped template, and no URL and no audience at all.
ShippedIdentity == [local |-> "personas", gcp |-> "iap", onprem |-> "placeholder"]

Unstated     == dep.file = "absent"
Identity     == IF Unstated THEN ShippedIdentity[ActiveProfile] ELSE dep.identity
Audience     == ~Unstated /\ dep.audience
ReviewUrl    == ~Unstated /\ dep.reviewUrl
ModelArmor   == Unstated \/ dep.modelArmor
Template     == Unstated \/ dep.template
Placeholders == Unstated \/ dep.placeholders

\* Slip: routing is taken for reachable whenever it is on.
ControlsReachable_GuardrailOnly == On(dep.guardrail) /\ ModelArmor => Template

\* _refuse_unconfigured_controls lets the settings pass.
ControlsReachable ==
  /\ On(dep.routing) => ReviewUrl
  /\ On(dep.guardrail) /\ ModelArmor => Template

\* Settings.load returns.
Loads ==
  /\ FileReads
  /\ ProfileResolves
  /\ SwitchReads(dep.routing) /\ SwitchReads(dep.guardrail)
  /\ ActiveProfile = "gcp" => ControlsReachable

\* assert_managed_profile_ready(profile, Settings.load().adapters)
Ready == Loads /\ ~(ActiveProfile = "gcp" /\ Placeholders)

\* declared_end_user_auth of the class, read without constructing it; and
\* whatever goes wrong on the way there is client-asserted.
EndUserAuthKind ==
  IF ~Loads THEN "client-asserted"
  ELSE CASE Identity \in {"iap", "own"} -> "verified"
         [] Identity = "placeholder" -> "unimplemented"
         [] Identity \in {"personas", "silent", "nowhere"} -> "client-asserted"

\* Slip: a verifying binding is enough, whoever chose the profile.
EndUserAuthenticated_ByBinding == EndUserAuthKind = "verified"

EndUserAuthenticated == Explicit /\ EndUserAuthKind = "verified"

-----------------------------------------------------------------------------
\* Start, or restart: another process of the deployment, from nothing.
Start ==
  /\ phase = "down"
  /\ phase' = IF dep.command = "container" THEN "preflight" ELSE "import"
  /\ UNCHANGED <<dep, guard, bindProfile, bound, container, adapter, answer>>

Exit ==
  /\ phase' = "down"
  /\ guard' = TRUE /\ bindProfile' = "local" /\ bound' = "nothing"
  /\ container' = FALSE /\ adapter' = FALSE
  /\ answer' = NoAnswer
  /\ UNCHANGED dep

\* python -m exam_rfi_orchestrator.managed_readiness && ...
Preflight ==
  /\ phase = "preflight"
  /\ Ready
  /\ phase' = "import"
  /\ UNCHANGED <<dep, guard, bindProfile, bound, container, adapter, answer>>

PreflightRefuses == phase = "preflight" /\ ~Ready /\ Exit

\* Slip: the bind host follows the profile alone.
Import_BindsByProfile ==
  /\ phase = "import"
  /\ ProfileResolves
  /\ guard' = ~EndUserAuthenticated
  /\ bindProfile' = ActiveProfile
  /\ phase' = "bind"
  /\ UNCHANGED <<dep, bound, container, adapter, answer>>

\* api/app.py at module scope: settings that do not load are no reason to
\* fail here, they read as a posture that authenticates nobody.
Import ==
  /\ phase = "import"
  /\ ProfileResolves
  /\ guard' = ~EndUserAuthenticated
  /\ bindProfile' = IF EndUserAuthenticated THEN ActiveProfile ELSE "local"
  /\ phase' = "bind"
  /\ UNCHANGED <<dep, bound, container, adapter, answer>>

ImportRefuses == phase = "import" /\ ~ProfileResolves /\ Exit

\* resolve_bind_host: local stays on loopback unless the demo is opted into,
\* a fronted profile takes every interface unless told otherwise.
Host ==
  IF bindProfile = "local"
    THEN IF dep.host = "any" /\ dep.demo THEN "any" ELSE "loopback"
    ELSE IF dep.host = "unset" THEN "any" ELSE dep.host

\* Asked for every interface on a posture that must not have them, it may
\* refuse instead of confining: the service relies on neither.
HostRefused == bindProfile = "local" /\ dep.host = "any" /\ ~dep.demo

\* The container serves the app object on every interface; main() checks
\* readiness once more and asks resolve_bind_host.
Bind ==
  /\ phase = "bind"
  /\ dep.command = "main" => Ready
  /\ bound' = IF dep.command = "container" THEN "any" ELSE Host
  /\ phase' = "serving"
  /\ UNCHANGED <<dep, guard, bindProfile, container, adapter, answer>>

BindRefuses ==
  /\ phase = "bind"
  /\ dep.command = "main"
  /\ ~Ready \/ HostRefused
  /\ Exit

-----------------------------------------------------------------------------
\* add_loopback_exposure_guard, the outermost middleware.
Refused(peer) == peer # "loopback" /\ guard /\ ~dep.demo

Responds(route, peer, credential, status, as) ==
  answer' = [route |-> route, peer |-> peer, credential |-> credential,
             status |-> status, as |-> as]

GuardRefuses(route, peer, credential) ==
  /\ Refused(peer)
  /\ Responds(route, peer, credential, 503, "nobody")
  /\ UNCHANGED <<container, adapter>>

\* Slip: the profile that was inherited is as good as a chosen one.
Constructs_Inherited ==
  CASE Identity = "nowhere" -> FALSE
    [] Identity = "personas" -> ActiveProfile = "local"
    [] Identity \in {"iap", "placeholder", "own", "silent"} -> TRUE

\* The adapter's __init__: personas only under a local profile that was
\* chosen.
Constructs ==
  CASE Identity = "nowhere" -> FALSE
    [] Identity = "personas" -> ActiveProfile = "local" /\ Explicit
    [] Identity \in {"iap", "placeholder", "own", "silent"} -> TRUE

\* What a constructed adapter makes of the request: <<status, principal>>.
Resolved(credential) ==
  CASE Identity = "personas" ->
         IF credential = "forged" THEN <<401, "nobody">> ELSE <<200, "persona">>
    [] Identity = "placeholder" -> <<501, "nobody">>
    [] Identity = "silent" -> <<200, "undeclared">>
    [] Identity = "own" ->
         IF credential = "assertion" THEN <<200, "verified">> ELSE <<401, "nobody">>
    [] Identity = "iap" ->
         IF ~Audience THEN <<503, "nobody">>
         ELSE IF credential \notin {"assertion", "forged"} THEN <<401, "nobody">>
         ELSE IF ~dep.verifier THEN <<503, "nobody">>
         ELSE IF credential = "forged" THEN <<401, "nobody">>
         ELSE <<200, "verified">>

\* _container(): built once, and tried again as long as it fails.
ContainerBuilt == container \/ Loads

\* Container.identity, a cached property.
AdapterBuilt == adapter \/ Constructs

\* Answers that read _container().settings and nothing else.
ReadsSettings(route, peer, credential) ==
  /\ ~Refused(peer)
  /\ container' = ContainerBuilt
  /\ Responds(route, peer, credential, IF container' THEN 200 ELSE 500, "nobody")
  /\ UNCHANGED adapter

Healthz(peer, credential) == ReadsSettings("healthz", peer, credential)

AgentCard(peer, credential) == ReadsSettings("agent-card", peer, credential)

\* A route that asks the container for its identity adapter: settings that do
\* not load and a binding that names nothing are server errors, an adapter
\* that refuses to be built is answered as refusal, and one that is there by
\* status as principal.
AsksIdentity(route, peer, credential, refusal, status, as) ==
  /\ ~Refused(peer)
  /\ container' = ContainerBuilt
  /\ adapter' = (container' /\ AdapterBuilt)
  /\ IF adapter'
       THEN Responds(route, peer, credential, status, as)
       ELSE Responds(route, peer, credential,
                     IF container' /\ Identity # "nowhere" THEN refusal ELSE 500, "nobody")

\* get_principal; the pack itself is ResponseFlow's.
ResponsePack(peer, credential) ==
  AsksIdentity("response-pack", peer, credential, 401,
               Resolved(credential)[1], Resolved(credential)[2])

\* The persona picker, empty where the adapter has none.
Personas(peer, credential) ==
  AsksIdentity("personas", peer, credential, 503,
               200, IF Identity = "personas" THEN "persona" ELSE "nobody")

\* Schema, Swagger and ReDoc are one decision.
Docs(peer, credential) ==
  /\ ~Refused(peer)
  /\ Responds("docs", peer, credential, IF ExposureProfile = "local" THEN 200 ELSE 404, "nobody")
  /\ UNCHANGED <<container, adapter>>

\* The schemes of the commons: an identity token where the profile is a
\* secure one, otherwise a shared secret that an unset one leaves open.
\* Which of them onprem has is the commons' own matter.
ServiceCaller(credential) ==
  LET token  == credential = "service"
      secret == credential = "service" \/ ~dep.secret
  IN CASE ExposureProfile = "gcp" -> {token}
       [] ExposureProfile = "local" -> {secret}
       [] ExposureProfile = "onprem" -> {token, secret}

\* require_service_caller: where no profile was chosen no scheme was.
AuditPing(peer, credential) ==
  /\ ~Refused(peer)
  /\ \E accepted \in IF Explicit THEN ServiceCaller(credential) ELSE {FALSE} :
       Responds("audit-ping", peer, credential, IF accepted THEN 200 ELSE 401, "nobody")
  /\ UNCHANGED <<container, adapter>>

Handle ==
  /\ phase = "serving"
  /\ \E peer \in IF bound = "any" THEN Peer ELSE Peer \ {"lan"}, credential \in Credential :
       \/ \E route \in Route : GuardRefuses(route, peer, credential)
       \/ Healthz(peer, credential) \/ AgentCard(peer, credential)
       \/ ResponsePack(peer, credential) \/ Personas(peer, credential)
       \/ Docs(peer, credential) \/ AuditPing(peer, credential)
  /\ UNCHANGED <<phase, dep, guard, bindProfile, bound>>

Stop == phase = "serving" /\ Exit

Next ==
  \/ Start
  \/ Preflight \/ PreflightRefuses
  \/ Import \/ ImportRefuses
  \/ Bind \/ BindRefuses
  \/ Handle
  \/ Stop

Spec == Init /\ [][Next]_vars

-----------------------------------------------------------------------------
(* An answer given off the machine is given to somebody: unless the        *)
(* operator opted into the demo, a caller who is not on the machine, or    *)
(* whom a proxy brought, gets past get_principal only under a profile that *)
(* was chosen and as a principal the adapter verified.  The guard is       *)
(* decided at import from a declaration, the principal at the request by   *)
(* an adapter built long after.                                            *)
OffTheMachineVerified ==
  answer # NoAnswer =>
    (answer.route = "response-pack" /\ answer.peer # "loopback" /\ answer.status = 200
       => dep.demo \/ (Explicit /\ answer.as = "verified"))

(* A process that serves runs on what was configured: a settings file that *)
(* was named and cannot be read in full never leaves it on the built-in    *)
(* values, and a managed one can work: however it was started and although *)
(* app.py imports with settings that do not load, every control that was   *)
(* not stated off is reachable and no active binding is a placeholder      *)
(* (_read_settings_file, _refuse_unconfigured_controls, the preflight).    *)
ServesOnlyConfigured ==
  phase = "serving" =>
    /\ dep.file = "absent" \/ dep.file = "read"
    /\ dep.profile = "gcp" =>
         /\ ~Placeholders
         /\ dep.routing = "off" \/ ReviewUrl
         /\ dep.guardrail = "off" \/ ~ModelArmor \/ Template

(* Unset is not consent: where nobody chose a profile, no persona is       *)
(* handed out or believed, no service is let in, no schema is shown, and   *)
(* nobody off the machine is answered nor main() bound there without the   *)
(* demo's leave, whatever adapter the file binds and however late it is    *)
(* built (ProfileChoice: each decision falls to the closed side).          *)
InheritedGrantsNothing ==
  ~Explicit =>
    /\ answer # NoAnswer => (answer.status = 200 =>
         /\ answer.route \notin {"audit-ping", "docs"}
         /\ answer.as # "persona"
         /\ answer.peer = "loopback" \/ dep.demo)
    /\ phase = "serving" /\ dep.command = "main" /\ bound = "any" => dep.demo

(* main() never listens on every interface only to refuse every caller     *)
(* there: the host it binds and the guard on the app object follow one     *)
(* posture (_BIND_PROFILE in app.py).                                      *)
BindFollowsGuard ==
  phase = "serving" /\ dep.command = "main" /\ bound = "any" => ~Refused("lan")
=============================================================================
