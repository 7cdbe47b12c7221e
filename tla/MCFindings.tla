----------------------------- MODULE MCFindings -----------------------------
(* Four checks as the registry describes them, three stubs that share an   *)
(* identity, one that does not, and two findings of other checks, one of   *)
(* them with related locations.                                            *)
EXTENDS Findings, TLC

Row(id, rule, group, stable, calibration, syntax, runner) ==
  [id |-> id, rule |-> rule, group |-> group, scope |-> "package",
   stable |-> stable, calibration |-> calibration, syntax |-> syntax,
   surfaces |-> {"cli", "plugin"}, runner |-> runner]

MCRegistry ==
  <<Row("fat-interface", "SOLID-I", "isp-package", TRUE, FALSE, "equivalent", TRUE),
    Row("unused-dependency", "SOLID-I", "isp-package", FALSE, TRUE, "unavailable", FALSE),
    Row("stub", "SOLID-I", "isp-package", TRUE, FALSE, "unavailable", FALSE),
    Row("concrete-dependency", "SOLID-D", "dip-package", TRUE, FALSE, "conservative", TRUE)>>

MCSmells == {"stub1", "stub2", "stub3", "other", "unused",
             "concrete"}
MCCheckOf == [s \in MCSmells |->
  IF s = "unused" THEN "unused-dependency"
  ELSE IF s = "concrete" THEN "concrete-dependency" ELSE "stub"]
MCIdentityOf == [s \in MCSmells |-> IF s = "other" THEN "other" ELSE MCCheckOf[s]]
MCEvidenceOf == [s \in MCSmells |-> 
  IF s = "other" THEN 3 ELSE IF s = "stub3" THEN 2 ELSE 1]

Setting(profile, rules, enabled, disabled, mode) ==
  [profile |-> profile, enabledRules |-> rules, enabledChecks |-> enabled,
   disabledChecks |-> disabled, mode |-> mode, surface |-> "cli"]
MCSettings ==
  {Setting("stable", {}, {}, {}, "auto"),
   Setting("all", {}, {}, {}, "types"),
   Setting("all", {}, {}, {"fat-interface"}, "syntax"),
   Setting("calibration", {"SOLID-I"}, {"stub", "concrete-dependency"}, {}, "auto"),
   Setting("stable", {}, {"stub"}, {"stub"}, "auto")}

None == [kind |-> "none", id |-> ""]
Ignore(id) == [kind |-> "line", id |-> id]
IgnoreFile(id) == [kind |-> "file", id |-> id]
Code(part, smells) == [part |-> part, receiver |-> "", smells |-> smells,
                       anchors |-> {}, note |-> None]
Method(receiver, smells) == [Code("func", smells) EXCEPT !.receiver = receiver]
Comment(note) == [Code("none", {}) EXCEPT !.note = note]
Prose == Comment([kind |-> "prose", id |-> ""])

MCSources ==
  {<< <<Method("T", {"stub1"}), Code("body", {}), Method("U", {"stub2"})>>, <<>> >>,
   << <<Code("func", {"stub1"}), Prose, Method("", {"stub2"}), Code("body", {"stub3"})>>,
      <<>> >>,
   << <<Code("func", {}), [Code("param", {}) EXCEPT !.anchors = {"unused"}],
        Code("param", {"concrete"}), Code("body", {"stub1"})>>,
      <<Code("type", {}), Code("body", {"unused"})>> >>,
   << <<Method("T", {"stub1", "stub2"})>>,
      <<Code("type", {"concrete"}), Code("body", {}),
        [Code("body", {}) EXCEPT !.anchors = {"unused"}], Method("T", {"unused"})>> >>,
   << <<Code("type", {}), [Code("body", {}) EXCEPT !.note = Ignore("stub")],
        Prose, Comment(Ignore("stub")), Method("T", {"stub1"}), Code("param", {"stub2"}),
        Code("body", {"stub3"})>>, <<>> >>,
   << <<Comment(IgnoreFile("SOLID-I")), Method("U", {"stub1"}), Method("U", {"stub2"})>>,
      <<Comment(Ignore("unused-dependency")), [Code("type", {}) EXCEPT !.anchors = {"unused"}],
        Code("body", {"concrete"}), Code("func", {"unused"}), Code("body", {"stub3"})>> >>,
   << <<Method("U", {"stub1"}), Code("body", {"stub2"}), Method("T", {"stub3"})>>,
      <<Code("func", {}), [Code("param", {"concrete"}) EXCEPT !.note = Ignore("SOLID-D")],
        Code("body", {}), Code("func", {"unused"})>> >>,
   << <<Prose, Code("group", {}), Code("spec", {}),
        [Code("body", {"unused"}) EXCEPT !.note = Ignore("SOLID-D")],
        Code("spec", {"concrete"}), Prose, Code("spec", {}), Method("T", {"stub1"})>>,
      <<>> >>}

MCNewLines ==
  {Code("none", {}), Prose, Comment([kind |-> "bad", id |-> ""]),
   Comment(Ignore("stub")), Comment(Ignore("SOLID-I")),
   Comment(IgnoreFile("unused-dependency")),
   Method("T", {"stub3"}), Code("body", {"stub1"}), Code("func", {"other"}),
   [Code("param", {}) EXCEPT !.note = Ignore("concrete-dependency")],
   [Code("body", {}) EXCEPT !.note = Ignore("SOLID-D")],
   [Code("spec", {}) EXCEPT !.note = Ignore("unused-dependency")]}
=============================================================================
