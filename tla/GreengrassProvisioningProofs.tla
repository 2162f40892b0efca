---------------------- MODULE GreengrassProvisioningProofs ---------------------
(***************************************************************************)
(* The device of a checkout where nothing failed is complete, for any      *)
(* checkouts and any number of runs that fail in the others.               *)
(***************************************************************************)
EXTENDS GreengrassProvisioning, TLAPS

\* The device of checkout k is complete, or nobody ever came to its certificate.
Settled(k) ==
  \/ Complete(k) /\ device_cert[k] # None
  \/ device_cert[k] = None /\ ~local_conf[k] /\ root_cert[k] # "broken"

\* What the run in its block of the certificate has done so far.
Progress(k) ==
  LET x == device_cert[k]
  IN  /\ root_cert[k] = "good" /\ ~local_conf[k]
      /\ x # None /\ x = CERTIFICATE_ARN /\ {x, "thing"} \subseteq objects
      /\ step = "attachThingPolicy" => "thingPolicy" \in objects
      /\ step \in {"attachPrincipal", "createRolePolicy", "attachRolePolicy"} =>
           <<"thingPolicy", x>> \in links
      /\ step \in {"createRolePolicy", "attachRolePolicy"} => <<"thing", x>> \in links
      /\ step = "attachRolePolicy" => "roleAliasPolicy" \in objects

\* A checkout where nothing failed.
Undisturbed(k) ==
  /\ checkout # k => Settled(k)
  /\ checkout = k =>
       /\ step \in {"group", "thing", "join", "rootCA", "certificate"} => Settled(k)
       /\ step \in {"join", "rootCA", "certificate"} => "thing" \in objects
       /\ step = "certificate" => root_cert[k] = "good"
       /\ step \in {"createThingPolicy", "attachThingPolicy", "attachPrincipal",
                   "createRolePolicy", "attachRolePolicy"} => Progress(k)
       /\ step = "conf" => Complete(k) /\ device_cert[k] # None

IInv == TypeOK /\ \A k \in Checkouts : k \notin disturbed => Undisturbed(k)

-------------------------------------------------------------------------------
(***************************************************************************)
(* Types.                                                                  *)
(***************************************************************************)

\* The script is started in an account without the thing.
LEMMA ProvisioningTypeInit == Init => TypeOK
  BY ProvisioningAssumption DEF Init, TypeOK, Steps

\* The steps in the block of the certificate, one by one.
LEMMA FollowingSteps ==
  /\ Following["certificate"] = "createThingPolicy"
  /\ Following["createThingPolicy"] = "attachThingPolicy"
  /\ Following["attachThingPolicy"] = "attachPrincipal"
  /\ Following["attachPrincipal"] = "createRolePolicy"
  /\ Following["createRolePolicy"] = "attachRolePolicy"
  /\ Following["attachRolePolicy"] = "conf"
  BY DEF Following

\* A link is one of those the types allow, if its second end is what it should be.
LEMMA LinkType ==
  ASSUME TypeOK, NEW x, NEW y, Link(x, y), checkout \in Checkouts,
         \/ x = "thing" /\ y = "group"
         \/ x \in Policies \cup {"thing"} /\ y \in Certificates \cup {None}
  PROVE  /\ UNCHANGED <<objects, similarGroup>>
         /\ links' \subseteq {<<"thing", "group">>} \cup (Policies \cup {"thing"}) \X Certificates
         /\ disturbed' \subseteq Checkouts
<1>1. CASE Disturb /\ UNCHANGED account
  BY <1>1 DEF Disturb, account, TypeOK
<1>2. CASE links' = links \cup (IF {x, y} \subseteq objects THEN {<<x, y>>} ELSE {})
           /\ UNCHANGED <<objects, similarGroup, disturbed>>
  <2>1. CASE {x, y} \subseteq objects
    <3>1. y = "group" \/ y \in Certificates \/ y \in {"thing"} \cup Policies
      BY <2>1 DEF TypeOK
    <3>2. y = None => y \notin objects
      BY ProvisioningAssumption DEF TypeOK, Policies
    <3> QED
      BY <1>2, <2>1, <3>2 DEF TypeOK
  <2>2. CASE ~({x, y} \subseteq objects)
    BY <1>2, <2>2 DEF TypeOK
  <2> QED
    BY <2>1, <2>2
<1> QED
  BY <1>1, <1>2 DEF Link

\* Every step keeps the types.
LEMMA ProvisioningTypeStep == TypeOK /\ [Next]_vars => TypeOK'
<1> SUFFICES ASSUME TypeOK, [Next]_vars
             PROVE  TypeOK'
  OBVIOUS
<1> USE ProvisioningAssumption
    DEF TypeOK, Steps, Policies, At, Local, Disturb, Target,
        files, account, AfterNewThing
<1>1. ASSUME NEW k \in Checkouts, Start(k)
      PROVE  TypeOK'
  BY <1>1 DEF Start
<1>2. CASE Group
  BY <1>2 DEF Group, Create
<1>3. CASE Thing
  BY <1>3 DEF Thing, Create
<1>4. CASE Join
  <2>1. checkout \in Checkouts
    BY <1>4 DEF Join
  <2> QED
    BY <1>4, <2>1, LinkType DEF Join
<1>5. CASE RootCA
  BY <1>5 DEF RootCA
<1>6. CASE NoCertificate
  BY <1>6 DEF NoCertificate, history
<1>7. CASE Certificate
  <2>1. checkout \in Checkouts /\ step' \in Steps /\ disturbed' \subseteq Checkouts
    BY <1>7, FollowingSteps DEF Certificate
  <2>2. PICK x : \/ objects' = objects
                 \/ x \in Certificates /\ objects' = objects \cup {x}
    BY <1>7 DEF Certificate
  <2>3. /\ device_cert' \in [Checkouts -> Certificates \cup {None}]
        /\ CERTIFICATE_ARN' \in Certificates \cup {None}
    BY <1>7, <2>1 DEF Certificate
  <2> QED
    BY <1>7, <2>1, <2>2, <2>3 DEF Certificate
<1>8. ASSUME NEW s \in Steps, NEW p \in Policies, CreatePolicy(s, p),
             s \in {"createThingPolicy", "createRolePolicy"}
      PROVE  TypeOK'
  BY <1>8, FollowingSteps DEF CreatePolicy, Create
<1>9. ASSUME NEW s \in Steps, NEW p \in Policies, Attach(s, p),
             s \in {"attachThingPolicy", "attachRolePolicy"}
      PROVE  TypeOK'
  <2>1. checkout \in Checkouts
    BY <1>9 DEF Attach
  <2> QED
    BY <1>9, <2>1, LinkType, FollowingSteps DEF Attach
<1>10. CASE AttachPrincipal
  <2>1. checkout \in Checkouts
    BY <1>10 DEF AttachPrincipal
  <2> QED
    BY <1>10, <2>1, LinkType, FollowingSteps DEF AttachPrincipal
<1>11. CASE Conf
  BY <1>11 DEF Conf, history
<1>12. CASE Kill
  BY <1>12 DEF Kill
<1>13. CASE UNCHANGED vars
  BY <1>13 DEF vars, script, history
<1> QED
  BY <1>1, <1>2, <1>3, <1>4, <1>5, <1>6, <1>7, <1>8, <1>9, <1>10, <1>11, <1>12, <1>13
     DEF Next

\* The types hold in every state.
THEOREM ProvisioningTypeCorrect == Spec => []TypeOK
  BY ProvisioningTypeInit, ProvisioningTypeStep, PTL DEF Spec

-------------------------------------------------------------------------------
(***************************************************************************)
(* The device of a checkout.                                               *)
(***************************************************************************)

\* Nothing is deleted in the account, no failure is forgotten.
LEMMA Grow ==
  ASSUME [Next]_vars
  PROVE  objects \subseteq objects' /\ links \subseteq links' /\ disturbed \subseteq disturbed'
  BY DEF Next, vars, account, files, script, history, Start, Group, Thing, Join, RootCA,
         NoCertificate, Certificate, CreatePolicy, Attach, AttachPrincipal, Conf, Kill,
         Create, Link, Disturb, Local

\* The script changes the files of the checkout it runs in.
LEMMA FilesOfOthers ==
  ASSUME TypeOK, [Next]_vars, NEW k \in Checkouts, checkout # k
  PROVE  /\ root_cert'[k] = root_cert[k] /\ device_cert'[k] = device_cert[k]
         /\ local_conf'[k] = local_conf[k]
  BY DEF TypeOK, Next, vars, account, files, script, history, Start, Group, Thing, Join,
         RootCA, NoCertificate, Certificate, CreatePolicy, Attach, AttachPrincipal, Conf,
         Kill, Local

\* At the start no checkout has any file.
LEMMA DeviceInit == Init => IInv
  BY ProvisioningTypeInit, ProvisioningAssumption DEF Init, IInv, Undisturbed, Settled

\* A step of the script in checkout k, if nothing fails.
LEMMA OwnStep ==
  ASSUME IInv, Next, NEW k \in Checkouts, checkout = k, k \notin disturbed'
  PROVE  Undisturbed(k)'
<1>1. k \notin disturbed /\ Undisturbed(k) /\ TypeOK /\ k # None
  BY Grow, ProvisioningAssumption DEF IInv
<1>2. objects \subseteq objects' /\ links \subseteq links'
  BY Grow
<1>3. ~Disturb
  BY DEF Disturb
<1>4. CASE Group
  <2>1. UNCHANGED <<files, checkout>> /\ step = "group" /\ step' = "thing"
    BY <1>4 DEF Group, Local, At
  <2> QED
    BY <1>1, <1>2, <2>1 DEF Undisturbed, Settled, Complete, files
<1>5. CASE Thing
  <2>1. /\ UNCHANGED <<files, checkout>> /\ step = "thing" /\ step' \in {"join", "rootCA"}
        /\ "thing" \in objects'
    BY <1>3, <1>5 DEF Thing, Local, At, Create, AfterNewThing, account
  <2> QED
    BY <1>1, <1>2, <2>1 DEF Undisturbed, Settled, Complete, files
<1>6. CASE Join
  <2>1. UNCHANGED <<files, checkout>> /\ step = "join" /\ step' = "rootCA"
    BY <1>6 DEF Join, Local, At
  <2> QED
    BY <1>1, <1>2, <2>1 DEF Undisturbed, Settled, Complete, files
<1>7. CASE RootCA
  <2>1. /\ UNCHANGED <<device_cert, local_conf, checkout>>
        /\ step = "rootCA" /\ step' = "certificate"
        /\ root_cert[k] # "none" => root_cert'[k] = root_cert[k]
        /\ root_cert[k] = "none" => root_cert'[k] = "good"
    BY <1>1, <1>3, <1>7 DEF RootCA, At, TypeOK
  <2> QED
    BY <1>1, <1>2, <2>1 DEF Undisturbed, Settled, Complete, TypeOK
<1>8. CASE NoCertificate
  <2>1. /\ UNCHANGED <<files, checkout>> /\ step = "certificate" /\ step' = "conf"
        /\ device_cert[k] # None
    BY <1>8 DEF NoCertificate, At, CertificateWanted
  <2>2. Complete(k)
    BY <1>1, <2>1 DEF Undisturbed, Settled
  <2> QED
    BY <1>2, <2>1, <2>2 DEF Undisturbed, Complete, files
<1> DEFINE x == device_cert[k]
<1>9. CASE Certificate
  <2>1. /\ UNCHANGED <<root_cert, local_conf, checkout>>
        /\ step = "certificate" /\ step' = "createThingPolicy"
        /\ device_cert'[k] # None /\ device_cert'[k] = CERTIFICATE_ARN'
        /\ device_cert'[k] \in objects' /\ device_cert[k] = None
    BY <1>1, <1>3, <1>9, ProvisioningAssumption, FollowingSteps
       DEF Certificate, CertificateWanted, At, TypeOK
  <2> QED
    BY <1>1, <1>2, <2>1 DEF Undisturbed, Settled, Progress
<1>10. CASE CreatePolicy("createThingPolicy", "thingPolicy")
  <2>1. /\ UNCHANGED <<files, checkout, CERTIFICATE_ARN>> /\ "thingPolicy" \in objects'
        /\ step = "createThingPolicy" /\ step' = "attachThingPolicy"
    BY <1>3, <1>10, FollowingSteps DEF CreatePolicy, Create, At, Local
  <2> QED
    BY <1>1, <1>2, <2>1 DEF Undisturbed, Progress, files
<1>11. CASE Attach("attachThingPolicy", "thingPolicy")
  <2>1. /\ UNCHANGED <<files, checkout, CERTIFICATE_ARN>>
        /\ step = "attachThingPolicy" /\ step' = "attachPrincipal"
    BY <1>11, FollowingSteps DEF Attach, At, Local
  <2>2. <<"thingPolicy", x>> \in links'
    BY <1>1, <1>3, <1>11, <2>1 DEF Attach, Link, Target, Undisturbed, Progress
  <2> QED
    BY <1>1, <1>2, <2>1, <2>2 DEF Undisturbed, Progress, files
<1>12. CASE AttachPrincipal
  <2>1. /\ UNCHANGED <<files, checkout, CERTIFICATE_ARN>>
        /\ step = "attachPrincipal" /\ step' = "createRolePolicy"
    BY <1>12, FollowingSteps DEF AttachPrincipal, At, Local
  <2>2. <<"thing", x>> \in links'
    BY <1>1, <1>3, <1>12, <2>1 DEF AttachPrincipal, Link, Undisturbed, Progress
  <2> QED
    BY <1>1, <1>2, <2>1, <2>2 DEF Undisturbed, Progress, files
<1>13. CASE CreatePolicy("createRolePolicy", "roleAliasPolicy")
  <2>1. /\ UNCHANGED <<files, checkout, CERTIFICATE_ARN>> /\ "roleAliasPolicy" \in objects'
        /\ step = "createRolePolicy" /\ step' = "attachRolePolicy"
    BY <1>3, <1>13, FollowingSteps DEF CreatePolicy, Create, At, Local
  <2> QED
    BY <1>1, <1>2, <2>1 DEF Undisturbed, Progress, files
<1>14. CASE Attach("attachRolePolicy", "roleAliasPolicy")
  <2>1. /\ UNCHANGED <<files, checkout, CERTIFICATE_ARN>>
        /\ step = "attachRolePolicy" /\ step' = "conf"
    BY <1>14, FollowingSteps DEF Attach, At, Local
  <2>2. <<"roleAliasPolicy", x>> \in links'
    BY <1>1, <1>3, <1>14, <2>1 DEF Attach, Link, Target, Undisturbed, Progress
  <2> QED
    BY <1>1, <1>2, <2>1, <2>2 DEF Undisturbed, Progress, Complete, Policies, files
<1>15. CASE Conf
  <2>1. /\ UNCHANGED <<root_cert, device_cert>> /\ step = "conf" /\ checkout' # k
    BY <1>1, <1>15 DEF Conf, At
  <2> QED
    BY <1>1, <1>2, <2>1 DEF Undisturbed, Settled, Complete
<1>16. CASE Kill
  BY <1>3, <1>16 DEF Kill
<1>17. ~\E c \in Checkouts : Start(c)
  BY <1>1 DEF Start
<1> QED
  BY <1>4, <1>5, <1>6, <1>7, <1>8, <1>9, <1>10, <1>11, <1>12, <1>13, <1>14, <1>15,
     <1>16, <1>17 DEF Next

\* Every step keeps what is known of the checkouts where nothing failed.
LEMMA DeviceStep == IInv /\ [Next]_vars => IInv'
<1> SUFFICES ASSUME IInv, [Next]_vars, NEW k \in Checkouts, k \notin disturbed'
             PROVE  Undisturbed(k)'
  BY ProvisioningTypeStep DEF IInv
<1>1. k \notin disturbed /\ Undisturbed(k) /\ TypeOK
  BY Grow DEF IInv
<1>2. CASE UNCHANGED vars
  BY <1>1, <1>2 DEF vars, account, files, script, Undisturbed, Settled, Complete, Progress
<1>3. CASE Next /\ checkout = k
  BY <1>3, OwnStep
<1>4. CASE Next /\ checkout # k
  <2>1. /\ root_cert'[k] = root_cert[k] /\ device_cert'[k] = device_cert[k]
        /\ local_conf'[k] = local_conf[k] /\ links \subseteq links'
    BY <1>1, <1>4, FilesOfOthers, Grow
  <2>2. checkout' = k => step' = "group"
    BY <1>4, ProvisioningAssumption
    DEF Next, Start, Group, Thing, Join, RootCA, NoCertificate, Certificate,
        CreatePolicy, Attach, AttachPrincipal, Conf, Kill, Local, files
  <2> QED
    BY <1>1, <1>4, <2>1, <2>2 DEF Undisturbed, Settled, Complete
<1> QED
  BY <1>2, <1>3, <1>4

\* Whatever fails in other checkouts, one in which nothing ever failed has a
\* complete device once its local.conf is written (gg-env-setup.sh:45-142).
THEOREM DeviceComplete == Spec => []CompleteUnlessDisturbed
<1>1. IInv => CompleteUnlessDisturbed
  <2> SUFFICES ASSUME IInv, NEW k \in Checkouts, local_conf[k], k \notin disturbed
               PROVE  Complete(k)
    BY DEF CompleteUnlessDisturbed
  <2>1. Undisturbed(k) /\ step \in Steps
    BY DEF IInv, TypeOK
  <2> QED
    BY <2>1 DEF Undisturbed, Settled, Progress, Steps
<1> QED
  BY <1>1, DeviceInit, DeviceStep, PTL DEF Spec

-------------------------------------------------------------------------------
(***************************************************************************)
(* The thing and its group.                                                *)
(***************************************************************************)

\* Why the thing is in its group: until something fails, the run that made the
\* thing is still to add it, or has added it.
GroupInv ==
  disturbed = {} /\ ~similarGroup =>
    /\ "thing" \in objects =>
         <<"thing", "group">> \in links \/ (checkout # None /\ step = "join")
    /\ checkout # None /\ step # "group" => "group" \in objects
    /\ checkout # None /\ step \notin {"group", "thing"} => "thing" \in objects
    /\ \A k \in Checkouts : local_conf[k] => <<"thing", "group">> \in links

\* The block of the certificate and the end of the script create and link
\* nothing but certificates and policies.
LEMMA LaterSteps ==
  ASSUME TypeOK, Next, ~Disturb,
         ~\E k \in Checkouts : Start(k), ~Group, ~Thing, ~Join
  PROVE  /\ checkout # None /\ step \notin {"group", "thing", "join"}
         /\ step' \notin {"group", "thing", "join"}
         /\ disturbed' = disturbed /\ similarGroup' = similarGroup
         /\ "thing" \in objects' => "thing" \in objects
<1> USE ProvisioningAssumption
    DEF At, Local, files, account, history, TypeOK, Policies
<1>1. CASE RootCA
  BY <1>1 DEF RootCA
<1>2. CASE NoCertificate
  BY <1>2 DEF NoCertificate
<1>3. CASE Certificate
  BY <1>3, FollowingSteps DEF Certificate
<1>4. ASSUME NEW s \in Steps, NEW p \in Policies, CreatePolicy(s, p),
             s \in {"createThingPolicy", "createRolePolicy"}
      PROVE  /\ checkout # None /\ step \notin {"group", "thing", "join"}
             /\ step' \notin {"group", "thing", "join"}
             /\ disturbed' = disturbed /\ similarGroup' = similarGroup
             /\ "thing" \in objects' => "thing" \in objects
  BY <1>4, FollowingSteps DEF CreatePolicy, Create
<1>5. ASSUME NEW s \in Steps, NEW p \in Policies, Attach(s, p),
             s \in {"attachThingPolicy", "attachRolePolicy"}
      PROVE  /\ checkout # None /\ step \notin {"group", "thing", "join"}
             /\ step' \notin {"group", "thing", "join"}
             /\ disturbed' = disturbed /\ similarGroup' = similarGroup
             /\ "thing" \in objects' => "thing" \in objects
  BY <1>5, FollowingSteps DEF Attach, Link
<1>6. CASE AttachPrincipal
  BY <1>6, FollowingSteps DEF AttachPrincipal, Link
<1>7. CASE Conf
  BY <1>7 DEF Conf
<1>8. CASE Kill
  BY <1>8 DEF Kill
<1> QED
  BY <1>1, <1>2, <1>3, <1>4, <1>5, <1>6, <1>7, <1>8 DEF Next, Steps

\* Every step keeps what is known of the group, if nothing fails in it.
LEMMA GroupStep ==
  ASSUME TypeOK, GroupInv, [Next]_vars
  PROVE  GroupInv'
<1> SUFFICES ASSUME disturbed' = {}, ~similarGroup'
             PROVE  GroupInv'
  BY DEF GroupInv
<1>1. (disturbed = {} /\ ~Disturb) \/ UNCHANGED vars
  BY Grow DEF Disturb
<1>2. objects \subseteq objects' /\ links \subseteq links'
  BY Grow
<1> USE ProvisioningAssumption DEF At, Local, files, account, TypeOK
<1>3. CASE UNCHANGED vars
  BY <1>3 DEF vars, script, history, GroupInv
<1>4. CASE ~Disturb /\ \E k \in Checkouts : Start(k)
  BY <1>4 DEF Start, GroupInv
<1>5. CASE ~Disturb /\ Group
  BY <1>5 DEF Group, Create, GroupInv
<1>6. CASE ~Disturb /\ Thing
  BY <1>1, <1>6 DEF Thing, Create, AfterNewThing, GroupInv
<1>7. CASE ~Disturb /\ Join
  BY <1>1, <1>7 DEF Join, Link, GroupInv
<1>8. CASE Next /\ ~Disturb /\ ~(\E k \in Checkouts : Start(k)) /\ ~Group /\ ~Thing /\ ~Join
  <2>1. /\ checkout # None /\ step \notin {"group", "thing", "join"}
        /\ step' \notin {"group", "thing", "join"}
        /\ disturbed = {} /\ ~similarGroup
        /\ "thing" \in objects' => "thing" \in objects
    BY <1>8, LaterSteps
  <2> QED
    BY <1>2, <2>1 DEF GroupInv
<1> QED
  BY <1>1, <1>3, <1>4, <1>5, <1>6, <1>7, <1>8

\* The thing is in its group unless something failed, or a group of a longer
\* name hid that there was none (gg-env-setup.sh:20-38).
THEOREM ThingInGroup == Spec => []InGroupUnlessDisturbed
<1>1. Init => GroupInv
  BY DEF Init, GroupInv
<1>2. GroupInv => InGroupUnlessDisturbed
  BY DEF GroupInv, InGroupUnlessDisturbed
<1> QED
  BY <1>1, <1>2, GroupStep, ProvisioningTypeCorrect, PTL DEF Spec

-------------------------------------------------------------------------------
(***************************************************************************)
(* The certificates.                                                       *)
(***************************************************************************)

\* The certificate of a checkout exists and is no other's, and the variable of
\* the script names that of the checkout it runs in, or none.
CertificateInv ==
  /\ \A k \in Checkouts :
       device_cert[k] # None => device_cert[k] \in objects /\ root_cert[k] # "none"
  /\ \A k, l \in Checkouts :
       device_cert[k] = device_cert[l] /\ device_cert[k] # None => k = l
  /\ checkout # None /\ CERTIFICATE_ARN # None =>
       CERTIFICATE_ARN = device_cert[checkout]
  /\ checkout # None /\ step = "certificate" => root_cert[checkout] # "none"

\* Until something fails each certificate belongs to a checkout.
OwnedInv ==
  disturbed = {} =>
    \A x \in Certificates \cap objects : \E k \in Checkouts : device_cert[k] = x

\* Only one step makes certificates, or changes whose they are.
LEMMA CertificateUnchanged ==
  ASSUME TypeOK, [Next]_vars, ~Certificate
  PROVE  /\ UNCHANGED device_cert
         /\ Certificates \cap objects' = Certificates \cap objects
         /\ CERTIFICATE_ARN' \in {CERTIFICATE_ARN, None}
         /\ checkout' # checkout => checkout' = None \/ CERTIFICATE_ARN' = None
         /\ \A k \in Checkouts : root_cert[k] # "none" => root_cert'[k] = root_cert[k]
  BY ProvisioningAssumption
  DEF Next, vars, account, files, script, history, TypeOK, Policies, Start, Group, Thing,
      Join, RootCA, NoCertificate, CreatePolicy, Attach, AttachPrincipal, Conf, Kill,
      Create, Link, Local, Disturb, At

\* The script comes to the certificate after the root CA.
LEMMA RootFirst ==
  ASSUME TypeOK, [Next]_vars, checkout' # None, step' = "certificate",
         checkout # None /\ step = "certificate" => root_cert[checkout] # "none"
  PROVE  root_cert'[checkout'] # "none"
<1> USE ProvisioningAssumption
    DEF At, Local, files, account, history, script, TypeOK
<1>1. ASSUME NEW k \in Checkouts, Start(k)
      PROVE  FALSE
  BY <1>1 DEF Start
<1>2. CASE Group \/ Thing \/ Join
  BY <1>2 DEF Group, Thing, Join, AfterNewThing
<1>3. CASE RootCA
  BY <1>3 DEF RootCA
<1>4. CASE NoCertificate \/ Certificate \/ AttachPrincipal
  BY <1>4, FollowingSteps DEF NoCertificate, Certificate, AttachPrincipal
<1>5. CASE CreatePolicy("createThingPolicy", "thingPolicy")
           \/ CreatePolicy("createRolePolicy", "roleAliasPolicy")
  BY <1>5, FollowingSteps DEF CreatePolicy
<1>6. CASE Attach("attachThingPolicy", "thingPolicy")
           \/ Attach("attachRolePolicy", "roleAliasPolicy")
  BY <1>6, FollowingSteps DEF Attach
<1>7. CASE Conf \/ Kill
  BY <1>7 DEF Conf, Kill
<1>8. CASE UNCHANGED vars
  BY <1>8 DEF vars
<1> QED
  BY <1>1, <1>2, <1>3, <1>4, <1>5, <1>6, <1>7, <1>8 DEF Next

\* The new certificate is one that did not exist, for a checkout that had none.
LEMMA NewCertificate ==
  ASSUME TypeOK, Certificate
  PROVE  /\ checkout \in Checkouts /\ UNCHANGED <<checkout, root_cert>>
         /\ device_cert[checkout] = None /\ step = "certificate"
         /\ step' = "createThingPolicy"
         /\ \/ UNCHANGED <<device_cert, CERTIFICATE_ARN>> /\ Disturb
            \/ \E x \in Certificates \ objects :
                 /\ objects' = objects \cup {x}
                 /\ device_cert' = [device_cert EXCEPT ![checkout] = x]
                 /\ CERTIFICATE_ARN' = x
  BY FollowingSteps DEF Certificate, CertificateWanted, At, TypeOK

\* Every step keeps the certificates apart.
LEMMA CertificateStep ==
  ASSUME TypeOK, CertificateInv, [Next]_vars
  PROVE  CertificateInv'
<1>1. objects \subseteq objects'
  BY Grow
<1>2. (checkout # None /\ step = "certificate" => root_cert[checkout] # "none")'
  BY RootFirst DEF CertificateInv
<1>3. CASE ~Certificate
  <2>1. checkout' # None /\ CERTIFICATE_ARN' # None =>
          checkout' = checkout /\ CERTIFICATE_ARN' = CERTIFICATE_ARN
    BY <1>3, CertificateUnchanged
  <2> QED
    BY <1>1, <1>2, <1>3, <2>1, CertificateUnchanged DEF CertificateInv
<1>4. CASE Certificate
  <2>1. CASE UNCHANGED <<device_cert, CERTIFICATE_ARN>>
    BY <1>1, <1>2, <1>4, <2>1, NewCertificate DEF CertificateInv
  <2>2. ASSUME NEW x \in Certificates \ objects,
               objects' = objects \cup {x},
               device_cert' = [device_cert EXCEPT ![checkout] = x],
               CERTIFICATE_ARN' = x
        PROVE  CertificateInv'
    <3>1. /\ checkout \in Checkouts /\ UNCHANGED <<checkout, root_cert>>
          /\ root_cert[checkout] # "none"
      BY <1>4, NewCertificate, ProvisioningAssumption DEF CertificateInv
    <3>2. \A k \in Checkouts :
            device_cert'[k] = IF k = checkout THEN x ELSE device_cert[k]
      BY <2>2, <3>1 DEF TypeOK
    <3>3. \A k \in Checkouts : device_cert[k] # x
      BY <2>2, ProvisioningAssumption DEF CertificateInv
    <3> QED
      BY <1>1, <1>2, <2>2, <3>1, <3>2, <3>3 DEF CertificateInv
  <2> QED
    BY <1>4, <2>1, <2>2, NewCertificate
<1> QED
  BY <1>3, <1>4

\* A certificate that is made is written to the checkout, if nothing fails.
LEMMA OwnedStep ==
  ASSUME TypeOK, OwnedInv, [Next]_vars
  PROVE  OwnedInv'
<1> SUFFICES ASSUME disturbed' = {}, NEW x \in Certificates \cap objects'
             PROVE  \E k \in Checkouts : device_cert'[k] = x
  BY DEF OwnedInv
<1>1. disturbed = {}
  BY Grow
<1>2. CASE ~Certificate
  BY <1>1, <1>2, CertificateUnchanged DEF OwnedInv
<1>3. CASE Certificate
  <2>1. ~Disturb
    BY DEF Disturb
  <2>2. PICK y \in Certificates \ objects :
          /\ objects' = objects \cup {y}
          /\ device_cert' = [device_cert EXCEPT ![checkout] = y]
    BY <1>3, <2>1, NewCertificate
  <2>3. checkout \in Checkouts /\ device_cert[checkout] = None
    BY <1>3, NewCertificate
  <2>4. \A k \in Checkouts :
          device_cert'[k] = IF k = checkout THEN y ELSE device_cert[k]
    BY <2>2, <2>3 DEF TypeOK
  <2>5. CASE x = y
    BY <2>3, <2>4, <2>5
  <2>6. CASE x # y
    <3>1. PICK k \in Checkouts : device_cert[k] = x
      BY <1>1, <2>2, <2>6 DEF OwnedInv
    <3>2. k # checkout
      BY <2>3, <3>1, ProvisioningAssumption
    <3> QED
      BY <2>4, <3>1, <3>2
  <2> QED
    BY <2>5, <2>6
<1> QED
  BY <1>2, <1>3

\* CertificateInv is an invariant.
LEMMA CertificateInvariance == Spec => []CertificateInv
<1>1. Init => CertificateInv
  BY DEF Init, CertificateInv
<1> QED
  BY <1>1, CertificateStep, ProvisioningTypeCorrect, PTL DEF Spec

\* Each certificate in the account is that of a checkout unless something failed,
\* and never that of two (gg-env-setup.sh:50).
THEOREM CertificatesOwned == Spec => []NoOrphanCertificate
<1>1. Init => OwnedInv
  BY ProvisioningAssumption DEF Init, OwnedInv
<1>2. Spec => []OwnedInv
  BY <1>1, OwnedStep, ProvisioningTypeCorrect, PTL DEF Spec
<1>3. OwnedInv /\ CertificateInv => NoOrphanCertificate
  BY DEF OwnedInv, CertificateInv, NoOrphanCertificate
<1> QED
  BY <1>2, <1>3, CertificateInvariance, PTL

\* A new link to a certificate is one to that of the running script.
LEMMA NewLinks ==
  ASSUME TypeOK, [Next]_vars, NEW x, NEW y \in Certificates,
         <<x, y>> \in links', <<x, y>> \notin links
  PROVE  y = CERTIFICATE_ARN /\ checkout # None
<1> USE ProvisioningAssumption
    DEF TypeOK, Policies, account, files, script, history, Local, At
<1>1. CASE Join
  BY <1>1 DEF Join, Link
<1>2. CASE Attach("attachThingPolicy", "thingPolicy")
           \/ Attach("attachRolePolicy", "roleAliasPolicy")
  BY <1>2 DEF Attach, Link, Target
<1>3. CASE AttachPrincipal
  BY <1>3 DEF AttachPrincipal, Link
<1>4. ASSUME UNCHANGED links
      PROVE  FALSE
  BY <1>4
<1> QED
  BY <1>1, <1>2, <1>3, <1>4
  DEF Next, vars, Start, Group, Thing, RootCA, NoCertificate, Certificate, CreatePolicy,
      Create, Conf, Kill

\* A step completes no device but that of the run that made its certificate.
LEMMA RepairStep ==
  ASSUME TypeOK, CertificateInv, [Next]_vars, NEW k \in Checkouts,
         device_cert[k] # None, ~Complete(k),
         checkout = k => CERTIFICATE_ARN # device_cert[k]
  PROVE  device_cert'[k] = device_cert[k] /\ ~Complete(k)'
<1>1. root_cert[k] # "none"
  BY DEF CertificateInv
<1>2. device_cert'[k] = device_cert[k] /\ root_cert'[k] = root_cert[k]
  <2>1. CASE ~Certificate
    BY <1>1, <2>1, CertificateUnchanged
  <2>2. CASE Certificate
    BY <2>2, NewCertificate DEF TypeOK
  <2> QED
    BY <2>1, <2>2
<1>3. CASE root_cert[k] # "good"
  BY <1>2, <1>3 DEF Complete
<1>4. CASE root_cert[k] = "good"
  <2>1. PICK x \in Policies \cup {"thing"} : <<x, device_cert[k]>> \notin links
    BY <1>4 DEF Complete
  <2>2. device_cert[k] \in Certificates
    BY DEF TypeOK
  <2>3. ~(checkout # None /\ device_cert[k] = CERTIFICATE_ARN)
    <3> SUFFICES ASSUME checkout # None, device_cert[k] = CERTIFICATE_ARN
                 PROVE  FALSE
      OBVIOUS
    <3>1. checkout \in Checkouts /\ CERTIFICATE_ARN = device_cert[checkout]
      BY DEF CertificateInv, TypeOK
    <3> QED
      BY <3>1 DEF CertificateInv
  <2>4. <<x, device_cert[k]>> \notin links'
    BY <2>1, <2>2, <2>3, NewLinks
  <2> QED
    BY <1>2, <2>1, <2>4 DEF Complete
<1> QED
  BY <1>3, <1>4

\* What a run left incomplete stays so, whatever runs after it in whichever
\* checkout (gg-env-setup.sh:50-137).
THEOREM NothingRepaired == Spec => NeverRepaired
<1>1. TypeOK /\ CertificateInv /\ [Next]_vars =>
        [\A k \in Checkouts :
           /\ device_cert[k] # None /\ ~Complete(k)
           /\ checkout = k => CERTIFICATE_ARN # device_cert[k]
           => device_cert'[k] = device_cert[k] /\ ~Complete(k)']_vars
  BY RepairStep
<1> QED
  BY <1>1, CertificateInvariance, ProvisioningTypeCorrect, PTL DEF Spec, NeverRepaired
===============================================================================
