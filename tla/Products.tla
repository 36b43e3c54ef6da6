------------------------------- MODULE Products ------------------------------
(***************************************************************************)
(* Detection of JBoss EAP, Fuse and Web Server from the raw facts of one      *)
(* system.  A raw fact is abstracted to what the detection draws from it:     *)
(* the presence it speaks for and the kinds of versions it names.            *)
(***************************************************************************)
EXTENDS Integers, Sequences, SequencesExt

Order == [unknown |-> 0, absent |-> 1, potential |-> 2, present |-> 3]

(* presence_ge *)
PresenceGe(a, b) == Order[a] >= Order[b]

-----------------------------------------------------------------------------
(* FACTS, one for each way of drawing a conclusion from a fact. *)
EapFacts ==
    <<"jboss_processes", "jboss_eap_packages", "jboss_eap_jar_ver", "eap_home_version_txt", "eap_home_readme_txt",
      "eap_home_modules_manifest", "eap5_home_run_jar_manifest", "subman_consumed">>

Speaks(p, v) == [presence |-> p, versions |-> v]

(* What a fact may speak for when it has a value: literal presences, and the  *)
(* functions any_value_true, is_eap_manifest_version, versions_eap_presence   *)
(* and find_eap_entitlement with the versions that go with them.  No release  *)
(* of EAP_CLASSIFICATIONS starts with "EAP", so that versions_eap_presence     *)
(* never finds one.  "EAP" stands for a release number.                      *)
EapOutcomes ==
    [jboss_processes |-> {Speaks("potential", {})},
     jboss_eap_packages |-> {Speaks("present", {})},
     jboss_eap_jar_ver |-> {Speaks("present", {v}) : v \in {"EAP", "WildFly", "Unknown-Release"}},
     eap_home_version_txt |-> {Speaks("present", {"EAP"}), Speaks("absent", {})},
     eap_home_readme_txt |-> {Speaks("absent", {})},
     eap_home_modules_manifest |->
        {Speaks("present", {"EAP"}), Speaks("absent", {"WildFly"}), Speaks("absent", {})},
     eap5_home_run_jar_manifest |->
        {Speaks("unknown", {v}) : v \in {"EAP", "WildFly", "Unknown-Release"}},
     subman_consumed |-> {Speaks("potential", {}), Speaks("unknown", {})}]

EapUndecided == [presence |-> "absent", versions |-> {}, raw_facts |-> {}]

EapFactLatest(facts, acc, f) ==
    LET new == facts[f]
    IN  [presence |-> new.presence,
         raw_facts |-> IF ~PresenceGe(acc.presence, new.presence) THEN {f}
                       ELSE acc.raw_facts \union {g \in {f} : acc.presence = new.presence},
         versions |-> acc.versions \union new.versions]

(* One turn of the loop of detect_jboss_eap. *)
EapFact(facts, acc, f) ==
    LET new == facts[f]
    IN  [presence |-> IF PresenceGe(acc.presence, new.presence) THEN acc.presence ELSE new.presence,
         raw_facts |-> IF ~PresenceGe(acc.presence, new.presence) THEN {f}
                       ELSE acc.raw_facts \union {g \in {f} : acc.presence = new.presence},
         versions |-> acc.versions \union new.versions]

(* facts is a function on the facts that have a value.  A system on which only *)
(* WildFly or JBossAS versions were found has no EAP.                        *)
DetectEap(facts) ==
    LET given == SelectSeq(EapFacts, LAMBDA f : f \in DOMAIN facts)
        found == FoldLeft(LAMBDA acc, f : EapFact(facts, acc, f), EapUndecided, given)
    IN  IF found.versions = {"WildFly"} THEN [found EXCEPT !.presence = "absent"] ELSE found

-----------------------------------------------------------------------------
FuseFacts ==
    {"eap_home_bin", "karaf_home_bin_fuse", "activemq", "camel", "cxf",
     "systemctl_files", "subman_consumed", "entitlements"}

(* detect_jboss_fuse, for the set of facts with a value that speaks for it. *)
DetectFuse(facts) ==
    LET home == facts \intersect {"eap_home_bin", "karaf_home_bin_fuse"} # {}
        fuse_versions == IF {"activemq", "camel", "cxf"} \subseteq facts \/ home
                         THEN facts \intersect {"activemq", "camel", "cxf"} ELSE {}
    IN  IF home \/ fuse_versions # {} THEN "present"
        ELSE IF facts \intersect {"systemctl_files", "subman_consumed", "entitlements"} # {}
             THEN "potential" ELSE "absent"

-----------------------------------------------------------------------------
JwsFacts == {"subman_consumed", "has_eula_txt_file", "installed_with_rpm", "has_cert"}

(* get_version: what no classification and no pattern matches is dropped. *)
GetVersion(raw_versions) == SelectSeq(raw_versions, LAMBDA v : v \in {"EWS", "JWS"})

(* detect_jboss_ws: later facts overrule earlier ones; of the versions, the    *)
(* first decides.                                                          *)
DetectJws(facts, raw_versions) ==
    LET version == GetVersion(raw_versions)
    IN  IF facts \intersect {"installed_with_rpm", "has_cert"} # {} THEN "present"
        ELSE IF version # <<>> THEN IF Head(version) = "JWS" THEN "present" ELSE "potential"
        ELSE IF facts # {} THEN "potential" ELSE "absent"

(* _add_products_to_fingerprint *)
AddProducts(e) ==
    [eap |-> DetectEap(e.eap).presence,
     fuse |-> DetectFuse(e.fuse),
     jws |-> DetectJws(e.jws, e.jws_version)]

=============================================================================
