-------------------------- MODULE MCPolicyExtraction --------------------------
(***************************************************************************)
(* Small instances of PolicyExtraction for TLC.                            *)
(***************************************************************************)
EXTENDS PolicyExtraction

MCPaths == {"a", "a.1", "a.2", "a.3", "a.1.1", "b", "b.1", "b.2", "d", "d.1", "d.2",
            "d/x", "d/x.1"}
MCNames == MCPaths \cup {p \o "/" : p \in MCPaths} \cup {"./" \o p : p \in MCPaths}
MCParent == [p \in MCPaths |-> IF p \in {"d/x", "d/x.1"} THEN "d" ELSE Root]
MCRenames == [p \in MCPaths |->
    CASE p = "a" -> <<"a.1", "a.2", "a.3">> [] p = "b" -> <<"b.1", "b.2">>
      [] p = "d" -> <<"d.1", "d.2">> [] p = "d/x" -> <<"d/x.1">>
      [] p = "a.1" -> <<"a.1.1">> [] OTHER -> <<"b.1", "b.2">>]

File(p, n) == [name |-> p, target |-> p, kind |-> "file", typed |-> FALSE, size |-> n,
               chunks |-> [k \in 1 .. n |-> 1], end |-> "ok", to |-> Root,
               findings |-> {}]
Ends(p, n, how) == [File(p, n) EXCEPT !.chunks = <<1>>, !.end = how]
Dir(p) == [File(p, 0) EXCEPT !.name = p \o "/", !.kind = "dir"]
Alias(m) == [m EXCEPT !.name = "./" \o @]
Link(p, q) == [File(p, 0) EXCEPT !.kind = "symlink", !.to = q]
Special(p, k) == [File(p, 0) EXCEPT !.kind = k]
Typed(p, n) == [File(p, n) EXCEPT !.typed = TRUE]
Bad(p, f) == [File(p, 1) EXCEPT !.findings = f]

MCArchives ==
    { <<File("a", 2), File("b", 1), File("a", 1)>>,
      <<File("a", 1), Alias(File("a", 1)), File("a.1", 1)>>,
      <<File("a.1", 1), File("a", 2), File("a", 1)>>,
      <<File("a", 2), Ends("b", 3, "bad"), File("d/x", 2)>>,
      <<Ends("a", 2, "raw"), File("b", 1)>>,
      <<Bad("a", {"parent_traversal"}), File("a", 2), Bad("b", {"compression_ratio"})>>,
      <<Dir("d"), File("d/x", 1), File("d", 1)>>,
      <<File("d/x", 1), Dir("d"), Dir("a")>>,
      <<File("d", 1), File("d/x", 1)>>,
      <<Link("a", "b"), File("a", 1), File("b", 2)>>,
      <<[Link("b", "a") EXCEPT !.end = "bad"], Link("a", Root),
        [Link("a", "b") EXCEPT !.end = "raw"]>>,
      <<Special("a", "fifo"), File("a", 1), Special("b", "device")>>,
      <<Typed("a", 2), File("b", 2), Typed("b", 1)>> }

Default == [legacy |-> FALSE, preview |-> FALSE, on |-> "error",
            overwrite |-> "error", allowOverwrite |-> FALSE,
            rejectDuplicates |-> TRUE, allowLinks |-> FALSE,
            allowSpecial |-> FALSE, maxEntries |-> 2, maxMember |-> 2,
            maxTotal |-> 3]
Open == [Default EXCEPT !.maxEntries = Unlimited, !.maxMember = Unlimited,
                        !.maxTotal = Unlimited, !.allowLinks = TRUE,
                        !.allowSpecial = TRUE, !.rejectDuplicates = FALSE]

MCPolicies ==
    { Default,
      [Default EXCEPT !.preview = TRUE],
      [Default EXCEPT !.on = "skip", !.overwrite = "skip"],
      [Default EXCEPT !.on = "warn", !.overwrite = "replace"],
      [Default EXCEPT !.on = "warn", !.overwrite = "rename"],
      [Open EXCEPT !.overwrite = "rename"],
      [Open EXCEPT !.overwrite = "replace", !.allowOverwrite = TRUE],
      [Open EXCEPT !.overwrite = "skip"],
      [Open EXCEPT !.legacy = TRUE] }

Empty == [p \in MCPaths |-> Absent]
MCInitial ==
    { Empty,
      [Empty EXCEPT !["a"] = SomeFile, !["a.1"] = SomeFile],
      [Empty EXCEPT !["d"] = Directory, !["d/x"] = SomeFile],
      [Empty EXCEPT !["a"] = [Absent EXCEPT !.kind = "link", !.to = "b"]],
      [Empty EXCEPT !["b"] = [Absent EXCEPT !.kind = "link", !.to = Root]] }

MCFaults == {"disk", "crash"}
MCOthers == {"a", "a.1", "d", "d/x"}
=============================================================================
