------------------------------ MODULE MCSchedule ------------------------------
(* Instances of Schedule for TLC. *)
EXTENDS Schedule

CONSTANTS z1, z2, z3

MCZoneNames == {z1, z2, z3}
MCKinds == {configserver, oceanbase, obproxy, prometheus, alertmanager, express, obbinlog}

\* Only the listed components declare something, each at most `most` of `names`.
Declarations(list, names, most) ==
    {[c \in MCKinds |-> IF c \in DOMAIN f THEN f[c] ELSE {}] :
        f \in [ToSet(list) -> {S \in SUBSET names : Cardinality(S) <= most}]}

MCPlansOf(list, names, most, zoneList) ==
    [order : {list}, declared : Declarations(list, names, most), zones : {zoneList}]

\* What example/all-components.yaml declares, in an order in which nothing is ripe at first.
MCExample ==
    [order |-> <<obbinlog, express, obproxy, oceanbase, configserver>>,
     declared |-> [c \in MCKinds |->
         CASE c = oceanbase -> {configserver}
           [] c = obproxy   -> {oceanbase, configserver}
           [] c = express   -> {oceanbase, obproxy}
           [] c = obbinlog  -> {oceanbase, obproxy}
           [] OTHER         -> {}],
     zones |-> <<z1, z2, z3>>]

\* A binlog service for a database that obd did not deploy.
MCAlone ==
    [order |-> <<obbinlog, configserver>>, declared |-> [c \in MCKinds |-> {}], zones |-> <<z1>>]

\* Two dependencies each; one each, with circles of two and of three and a name that is no
\* component of the deployment; the monitoring components; the example; no database.
MCPlans ==
    MCPlansOf(<<obbinlog, obproxy, oceanbase>>, {obbinlog, obproxy, oceanbase}, 2, <<z1, z2>>)
    \cup MCPlansOf(<<oceanbase, obproxy, configserver>>,
                   {oceanbase, obproxy, configserver, prometheus}, 1, <<z1, z2, z3>>)
    \cup MCPlansOf(<<alertmanager, express, prometheus, oceanbase>>,
                   {oceanbase, prometheus}, 1, <<z1, z2>>)
    \cup {MCExample, MCAlone}

\* The database alone, in three zones.
MCRolling ==
    [order : {<<oceanbase>>}, declared : {[c \in MCKinds |-> {}]}, zones : {<<z1, z2, z3>>}]
=============================================================================
