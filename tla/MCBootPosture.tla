--------------------------- MODULE MCBootPosture ---------------------------
EXTENDS BootPosture

\* What is shipped, with nothing left out of the environment.
Shipped(p) ==
  [profile |-> p, routing |-> "off", guardrail |-> "off", file |-> "read",
   reviewUrl |-> TRUE, template |-> TRUE, modelArmor |-> TRUE,
   placeholders |-> FALSE, identity |-> "iap", audience |-> TRUE,
   verifier |-> TRUE, secret |-> FALSE, host |-> "unset", demo |-> FALSE,
   command |-> "container"]

Commands == {"container", "main"}

\* Every way to state, empty or forget the controls; a guardrail that is not
\* Model Armor's has no template to name.
ControlDeployments ==
  {[Shipped(p) EXCEPT !.routing = r, !.guardrail = g, !.reviewUrl = u, !.modelArmor = a[1],
                      !.template = a[2], !.placeholders = x, !.command = c]
     : p \in Profile \cup {"unset"}, r \in Variable, g \in Variable, u \in BOOLEAN,
       a \in {<<TRUE, TRUE>>, <<TRUE, FALSE>>, <<FALSE, FALSE>>}, x \in BOOLEAN,
       c \in Commands}

\* Every way to name, spoil or leave out the settings file.
FileDeployments ==
  {[Shipped(p) EXCEPT !.file = f, !.identity = i, !.demo = d, !.host = h, !.command = c]
     : p \in Profile \cup {"unset", "empty", "unknown"}, f \in SettingsFile, i \in {"iap", "personas"},
       d \in BOOLEAN, h \in {"unset", "any"}, c \in Commands}

\* Every identity binding under every posture.
IdentityDeployments ==
  {[Shipped(p) EXCEPT !.identity = i, !.audience = a, !.verifier = v, !.secret = a,
                      !.host = h, !.demo = d, !.command = c]
     : p \in Profile \cup {"unset"}, i \in IdentityAdapter, a \in BOOLEAN,
       v \in BOOLEAN, h \in {"unset", "loopback", "any"}, d \in BOOLEAN,
       c \in Commands}

MCDeployments == ControlDeployments \cup FileDeployments \cup IdentityDeployments
=============================================================================
