---------------------------- MODULE MCEditConfig ----------------------------
(* An instance of EditConfig for TLC: drafts with at most two differences.  *)
EXTENDS EditConfig

CONSTANTS ob, proxy, tool, other

MCNames     == {ob, proxy, tool, other}
MCInstalled == {ob, proxy, tool}
MCDescribed == {ob, proxy}
MCDepends   == {<<proxy, ob>>}

Plain == [comps |-> MCInstalled, changes |-> {}, items |-> [c \in MCNames |-> "UNCHNAGE"],
          errors |-> FALSE]

\* A draft with one more difference.  Every limited parameter and every
\* read-only one is a parameter of ob that differs as well.
More(d) ==
    {[d EXCEPT !.comps = s] :
        s \in {{}, {proxy, tool}, {ob, tool}, {ob, proxy}, MCNames, {ob, proxy, other}}}
    \cup {[d EXCEPT !.changes = @ \cup {k}] : k \in Changes \ {"limits", "read_only"}}
    \cup {[d EXCEPT !.changes = @ \cup {k}, !.items[ob] = "NEED_RELOAD"] : k \in {"limits", "read_only"}}
    \cup {[d EXCEPT !.items[ob] = e] : e \in Effect}

\* And one that goes with each of them.
Also(d) ==
    {d, [d EXCEPT !.comps = @ \cup {other}], [d EXCEPT !.errors = TRUE],
     [d EXCEPT !.items[tool] = "NEED_RELOAD"]}
    \cup {[d EXCEPT !.items[proxy] = e] : e \in Effect}

MCDrafts == UNION {Also(d) : d \in More(Plain)}
=============================================================================
