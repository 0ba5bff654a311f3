----------------------------- MODULE MCHarness -----------------------------
(***************************************************************************)
(* Instances of Harness for TLC.                                           *)
(***************************************************************************)
EXTENDS Harness, TLC

CONSTANTS d1, d2, k1, e1, e2, deploy, report

\* Two servers expose the tool "ship"; deploys need an approval, reports pass.
RowsThree ==
  {[server |-> "ops", tool |-> "ship", recipe |-> "release", valid |-> TRUE],
   [server |-> "lab", tool |-> "ship", recipe |-> "lab", valid |-> TRUE],
   [server |-> "ops", tool |-> "note", recipe |-> "notes", valid |-> FALSE]}

ToolOfTwo == [a \in Actions |-> [server |-> IF a = deploy THEN "ops" ELSE "lab",
                                 tool |-> "ship"]]

KindOf == [p \in {"release", "lab", "notes"} |->
             IF p = "release" THEN "approval" ELSE IF p = "lab" THEN "open" ELSE "closed"]

Definition(match, recipe, byModel, tools, attributed) ==
  [match |-> match, recipe |-> recipe, byModel |-> byModel, tools |-> tools,
   attributed |-> attributed]

Alarm == [type |-> "alarm"]
AnyShip == [server |-> AnyServer, tool |-> "ship"]

\* The first map trusts attributed alarms with a release; the second, which is
\* shorter, gives an alarm the ship tools of every server.
MapOne == <<Definition(<<>>, "lab", FALSE, {}, FALSE),
            Definition(Alarm, "release", FALSE, {}, TRUE)>>
MapTwo == <<Definition(Alarm, "release", TRUE, {AnyShip}, FALSE)>>

DraftTwo == [e \in Editors |-> IF e = e1 THEN MapTwo ELSE MapOne]
SizeOf   == [m \in {MapOne, MapTwo} |-> IF m = MapOne THEN 2 ELSE 1]

PlansTwo == [r \in Runs |-> IF r = k1 THEN {<<deploy>>} ELSE {<<deploy, report>>}]

BodiesThree ==
  {[shaped |-> TRUE, signed |-> TRUE, event |-> Alarm],
   [shaped |-> TRUE, signed |-> FALSE, event |-> Alarm],
   [shaped |-> FALSE, signed |-> TRUE, event |-> Alarm]}

ProposalsThree ==
  {[recipe |-> "lab", confidence |-> "high"],
   [recipe |-> "release", confidence |-> "low"],
   [recipe |-> "notes", confidence |-> "high"]}

BodiesFor ==
  [r \in Runs |-> IF r \in Consoles
                  THEN {[shaped |-> TRUE, signed |-> FALSE, event |-> Alarm]}
                  ELSE BodiesThree]

=============================================================================
