------------------------- MODULE GreengrassProvisioning ------------------------
(***************************************************************************)
(* gg-env-setup.sh: makes the Greengrass device of a checkout.  It creates *)
(* what it finds missing in the account (the thing group, the thing) and   *)
(* in the checkout (the root CA, and the certificate of the device, which  *)
(* it then gives its policies and attaches to the thing), and writes       *)
(* local.conf.                                                             *)
(*                                                                         *)
(* The script goes on when a command fails, and it may be killed and run   *)
(* again, in the same checkout or in a fresh one, as each build of         *)
(* buildspec.yml is.  A service is modelled by what the script sees of it: *)
(* to create what exists changes nothing, and a link needs both its ends.  *)
(***************************************************************************)
EXTENDS Integers

CONSTANTS
  Checkouts,
  Certificates,  \* bound: those create-keys-and-certificate can return
  MaxRuns,       \* bound: runs of the script
  None

Policies == {"thingPolicy", "roleAliasPolicy"}

ASSUME ProvisioningAssumption ==
  /\ None \notin Checkouts \cup Certificates \cup {"group", "thing"} \cup Policies
  /\ Certificates \cap ({"group", "thing"} \cup Policies) = {}
  /\ MaxRuns \in Nat

VARIABLES
  \* The account.
  objects,       \* what exists: things, policies, certificates
  links,         \* <<x, y>>: x is attached to y, or a member of it
  similarGroup,  \* there is a group whose name contains THING_GROUP_NAME
  \* The files of a checkout.
  root_cert,     \* "none", "broken" or "good"
  device_cert,   \* the certificate, or None
  local_conf,    \* is it written
  \* The script.
  checkout,      \* where it runs, or None
  step,          \* the next of its steps
  CERTIFICATE_ARN,
  runs,          \* history: how often it was started
  disturbed      \* history: the checkouts where a command failed or it was killed

account == <<objects, links, similarGroup>>
files == <<root_cert, device_cert, local_conf>>
script == <<checkout, step, CERTIFICATE_ARN>>
history == <<runs, disturbed>>
vars == <<account, files, script, history>>

Steps == {"group", "thing", "join", "rootCA", "certificate", "createThingPolicy",
          "attachThingPolicy", "attachPrincipal", "createRolePolicy",
          "attachRolePolicy", "conf"}

TypeOK ==
  /\ objects \subseteq {"group", "thing"} \cup Policies \cup Certificates
  /\ links \subseteq {<<"thing", "group">>} \cup (Policies \cup {"thing"}) \X Certificates
  /\ similarGroup \in BOOLEAN
  /\ root_cert \in [Checkouts -> {"none", "broken", "good"}]
  /\ device_cert \in [Checkouts -> Certificates \cup {None}]
  /\ local_conf \in [Checkouts -> BOOLEAN]
  /\ checkout \in Checkouts \cup {None}
  /\ step \in Steps
  /\ CERTIFICATE_ARN \in Certificates \cup {None}
  /\ runs \in 0..MaxRuns
  /\ disturbed \subseteq Checkouts

Init ==
  /\ objects = {} /\ links = {} /\ similarGroup \in BOOLEAN
  /\ root_cert = [k \in Checkouts |-> "none"]
  /\ device_cert = [k \in Checkouts |-> None]
  /\ local_conf = [k \in Checkouts |-> FALSE]
  /\ checkout = None /\ step = "group" /\ CERTIFICATE_ARN = None
  /\ runs = 0 /\ disturbed = {}

-------------------------------------------------------------------------------
(***************************************************************************)
(* The commands of a step.  A command that fails is only a message.        *)
(***************************************************************************)

At(s) == checkout # None /\ step = s

Disturb == disturbed' = disturbed \cup {checkout}

\* The files and the shell variable stay as they are.
Local == UNCHANGED <<files, checkout, CERTIFICATE_ARN, runs>>

Create(x) ==
  \/ objects' = objects \cup {x} /\ UNCHANGED <<links, similarGroup, disturbed>>
  \/ Disturb /\ UNCHANGED account

Link(x, y) ==
  \/ /\ links' = links \cup (IF {x, y} \subseteq objects THEN {<<x, y>>} ELSE {})
     /\ UNCHANGED <<objects, similarGroup, disturbed>>
  \/ Disturb /\ UNCHANGED account

-------------------------------------------------------------------------------
(***************************************************************************)
(* The script.                                                             *)
(***************************************************************************)

Start(k) ==
  /\ checkout = None /\ runs < MaxRuns
  /\ checkout' = k /\ step' = "group" /\ CERTIFICATE_ARN' = None
  /\ runs' = runs + 1
  /\ UNCHANGED <<account, files, disturbed>>

\* grep finds the name in a longer one as well.  A list that fails is empty, and
\* then the group is created, or not, whatever there is.
Group ==
  /\ At("group")
  /\ \/ ("group" \in objects \/ similarGroup) /\ UNCHANGED <<account, disturbed>>
     \/ ~("group" \in objects \/ similarGroup) /\ Create("group")
     \/ /\ objects' \in {objects, objects \cup {"group"}} /\ Disturb
        /\ UNCHANGED <<links, similarGroup>>
  /\ step' = "thing" /\ Local

\* Mutant: the call that adds the new thing to its group is missing.
AfterNewThingNoJoin == "rootCA"

AfterNewThing == "join"

\* describe-thing answers, or fails.
Thing ==
  /\ At("thing")
  /\ \/ "thing" \in objects /\ UNCHANGED <<account, disturbed>> /\ step' = "rootCA"
     \/ "thing" \notin objects /\ Create("thing") /\ step' = AfterNewThing
     \/ /\ objects' = objects \cup {"thing"} /\ Disturb
        /\ UNCHANGED <<links, similarGroup>> /\ step' = AfterNewThing
  /\ Local

Join ==
  /\ At("join")
  /\ Link("thing", "group")
  /\ step' = "rootCA" /\ Local

\* The shell creates the file before curl fills it.
RootCA ==
  /\ At("rootCA")
  /\ \/ root_cert[checkout] # "none" /\ UNCHANGED <<root_cert, disturbed>>
     \/ /\ root_cert[checkout] = "none"
        /\ \/ root_cert' = [root_cert EXCEPT ![checkout] = "good"] /\ UNCHANGED disturbed
           \/ root_cert' = [root_cert EXCEPT ![checkout] = "broken"] /\ Disturb
  /\ step' = "certificate"
  /\ UNCHANGED <<account, device_cert, local_conf, checkout, CERTIFICATE_ARN, runs>>

\* Mutant: the certificate is made whenever the script runs.
CertificateWantedAlways == TRUE

CertificateWanted == device_cert[checkout] = None

\* Mutant: the policy is attached before it is created.
FollowingAttachFirst ==
  [certificate |-> "attachThingPolicy", attachThingPolicy |-> "createThingPolicy",
   createThingPolicy |-> "attachPrincipal", attachPrincipal |-> "createRolePolicy",
   createRolePolicy |-> "attachRolePolicy", attachRolePolicy |-> "conf"]

\* The order of the commands in the block of the certificate.
Following ==
  [certificate |-> "createThingPolicy", createThingPolicy |-> "attachThingPolicy",
   attachThingPolicy |-> "attachPrincipal", attachPrincipal |-> "createRolePolicy",
   createRolePolicy |-> "attachRolePolicy", attachRolePolicy |-> "conf"]

NoCertificate ==
  /\ At("certificate") /\ ~CertificateWanted
  /\ step' = "conf"
  /\ UNCHANGED <<account, files, checkout, CERTIFICATE_ARN, history>>

\* The answer may be lost after the service made the certificate.
Certificate ==
  /\ At("certificate") /\ CertificateWanted
  /\ \/ \E x \in Certificates \ objects :
          /\ objects' = objects \cup {x}
          /\ \/ /\ device_cert' = [device_cert EXCEPT ![checkout] = x]
                /\ CERTIFICATE_ARN' = x /\ UNCHANGED disturbed
             \/ Disturb /\ UNCHANGED <<device_cert, CERTIFICATE_ARN>>
     \/ Disturb /\ UNCHANGED <<objects, device_cert, CERTIFICATE_ARN>>
  /\ step' = Following["certificate"]
  /\ UNCHANGED <<links, similarGroup, root_cert, local_conf, checkout, runs>>

CreatePolicy(s, p) ==
  /\ At(s)
  /\ Create(p)
  /\ step' = Following[s] /\ Local

\* Mutant: the policies are attached to the thing.
TargetThing == "thing"

Target == CERTIFICATE_ARN

Attach(s, p) ==
  /\ At(s)
  /\ Link(p, Target)
  /\ step' = Following[s] /\ Local

AttachPrincipal ==
  /\ At("attachPrincipal")
  /\ Link("thing", CERTIFICATE_ARN)
  /\ step' = Following["attachPrincipal"] /\ Local

\* The last command of the script.
Conf ==
  /\ At("conf")
  /\ local_conf' = [local_conf EXCEPT ![checkout] = TRUE]
  /\ checkout' = None
  /\ UNCHANGED <<account, root_cert, device_cert, step, CERTIFICATE_ARN, history>>

\* The script is killed; curl may have begun to write its file.
Kill ==
  /\ checkout # None
  /\ Disturb /\ checkout' = None
  /\ \/ UNCHANGED root_cert
     \/ /\ step = "rootCA" /\ root_cert[checkout] = "none"
        /\ root_cert' = [root_cert EXCEPT ![checkout] = "broken"]
  /\ UNCHANGED <<account, device_cert, local_conf, step, CERTIFICATE_ARN, runs>>

-------------------------------------------------------------------------------
Next ==
  \/ \E k \in Checkouts : Start(k)
  \/ Group \/ Thing \/ Join \/ RootCA
  \/ NoCertificate \/ Certificate
  \/ CreatePolicy("createThingPolicy", "thingPolicy")
  \/ Attach("attachThingPolicy", "thingPolicy")
  \/ AttachPrincipal
  \/ CreatePolicy("createRolePolicy", "roleAliasPolicy")
  \/ Attach("attachRolePolicy", "roleAliasPolicy")
  \/ Conf \/ Kill

Spec == Init /\ [][Next]_vars

-------------------------------------------------------------------------------
(***************************************************************************)
(* Properties.                                                             *)
(***************************************************************************)

\* The certificate of checkout k is known to AWS IoT as one of the thing's, with
\* both policies.
Complete(k) ==
  /\ root_cert[k] = "good"
  /\ \A x \in Policies \cup {"thing"} : <<x, device_cert[k]>> \in links

\* A checkout in which nothing ever failed has a complete device once local.conf
\* is written, whatever failed in the others (gg-env-setup.sh:45-142).
CompleteUnlessDisturbed ==
  \A k \in Checkouts : local_conf[k] /\ k \notin disturbed => Complete(k)

\* The thing is in its group, unless a run failed anywhere: the run that creates
\* the thing is the only one that adds it (gg-env-setup.sh:20-38).
InGroupUnlessDisturbed ==
  disturbed = {} /\ ~similarGroup /\ (\E k \in Checkouts : local_conf[k]) =>
    <<"thing", "group">> \in links

\* No certificate is left behind in the account without a checkout that has it,
\* and no two checkouts have the same, unless a run failed (gg-env-setup.sh:50).
NoOrphanCertificate ==
  /\ disturbed = {} =>
       \A x \in Certificates \cap objects : \E k \in Checkouts : device_cert[k] = x
  /\ \A k, l \in Checkouts :
       device_cert[k] = device_cert[l] /\ device_cert[k] # None => k = l

\* What a run left incomplete no later run completes, in the same checkout or in
\* another, nor gives it another certificate: the file of the certificate, once
\* written, makes the script skip all that links it (gg-env-setup.sh:50-137).
NeverRepaired ==
  [][\A k \in Checkouts :
       /\ device_cert[k] # None /\ ~Complete(k)
       /\ checkout = k => CERTIFICATE_ARN # device_cert[k]
       => device_cert'[k] = device_cert[k] /\ ~Complete(k)']_vars
===============================================================================
