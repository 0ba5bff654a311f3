----------------------------- MODULE FrontDoor -----------------------------
(***************************************************************************)
(* The front door of harness-serve: webhook deliveries and console         *)
(* requests are resolved against the event map file, which operators may   *)
(* be saving at that moment (POST /api/event-map truncates the file, then  *)
(* writes it).  A delivery that is dispatched launches a run in the        *)
(* background and is then recorded in the ingress log.                     *)
(*                                                                         *)
(* A step is a stretch of a handler with one access to the map file or the *)
(* ingress log.                                                            *)
(***************************************************************************)
EXTENDS Dispatch, FiniteSets

CONSTANTS
  Deliveries,  \* the webhook requests sources ever send
  Consoles,    \* the dispatch requests operators ever send
  Editors,     \* the saves of the event map operators ever make
  Bodies,      \* Bodies[r]: the bodies looked at: [shaped, signed, event]
  FirstMap,    \* the event map on file at the start, <<>> if there is none
  Draft,       \* Draft[e]: the map that save e submits
  Size,        \* Size[m]: the length of the text of map m
  Rows,        \* the routes stag-serve lists
  Proposals,   \* what the dispatch model may propose: [recipe, confidence]
  HasSecret,   \* is the HMAC secret configured?
  FilesFail,   \* may a write of the map file fail?
  LogFails     \* may an append to the ingress log fail?

Runs == Deliveries \cup Consoles

\* The maps that may ever be on file.
Maps == {<<>>, FirstMap} \cup {Draft[e] : e \in Editors}

ASSUME FrontDoorAssumption ==
  /\ Deliveries \cap Consoles = {}
  /\ \A m \in Maps : Len(m) \in Nat
  /\ \A e \in Editors : Size[Draft[e]] \in Nat \ {0}
  /\ Size[FirstMap] \in Nat
  /\ HasSecret \in BOOLEAN
  /\ FilesFail \in BOOLEAN
  /\ LogFails \in BOOLEAN

VARIABLES
  body,      \* body[r]: what was sent; never changes
  mapFile,   \* the event map file: does it parse, its definitions, its length
  saved,     \* history: the maps that were on file or submitted
  epc,       \* epc[e]: where the save e is
  dpc,       \* dpc[r]: where the handler of r is
  disposition, \* disposition[d]: what the delivery was found to be
  decision,  \* decision[r]: the run that was launched for r, or Nowhere
  ingress    \* the ingress log: a sequence of leaves

doorVars == <<body, mapFile, saved, epc, dpc, disposition, decision, ingress>>

\* The recipes anybody may name.
RecipeNames ==
  {NoRecipe} \cup {r.recipe : r \in Rows} \cup {p.recipe : p \in Proposals}
             \cup UNION {{m[i].recipe : i \in 1..Len(m)} : m \in Maps}

BodyChoices == {b \in [Runs -> UNION {Bodies[r] : r \in Runs}] :
                  \A r \in Runs : b[r] \in Bodies[r]}

Dispositions == {"none", "shape", "unattributed", "no-route", "dispatched", "unreadable"}

DoorTypeOK ==
  /\ body \in BodyChoices
  /\ mapFile \in [parses : BOOLEAN, defs : Maps, size : Nat]
  /\ epc \in [Editors -> {"idle", "writing", "done"}]
  /\ dpc \in [Runs -> {"idle", "resolved", "answered", "lost"}]
  /\ disposition \in [Deliveries -> Dispositions]
  /\ DOMAIN decision = Runs
  /\ \A r \in Runs : /\ decision[r].mode \in {"none", "deterministic", "model"}
                     /\ decision[r].recipe \in RecipeNames
  /\ ingress \in Seq([of : Deliveries, disposition : Dispositions, recipe : RecipeNames])

Empty == [parses |-> TRUE, defs |-> <<>>, size |-> 0]

DoorInit ==
  /\ body \in BodyChoices
  /\ mapFile = [parses |-> TRUE, defs |-> FirstMap, size |-> Size[FirstMap]]
  /\ saved = {FirstMap}
  /\ epc = [e \in Editors |-> "idle"]
  /\ dpc = [r \in Runs |-> "idle"]
  /\ disposition = [d \in Deliveries |-> "none"]
  /\ decision = [r \in Runs |-> Nowhere]
  /\ ingress = <<>>

-----------------------------------------------------------------------------
(* putEventMap: os.WriteFile opens the file with O_TRUNC and writes it.    *)

Truncate(e) ==
  /\ epc[e] = "idle"
  /\ epc' = [epc EXCEPT ![e] = "writing"]
  /\ mapFile' = Empty
  /\ saved' = saved \cup {Draft[e]}
  /\ UNCHANGED <<body, dpc, disposition, decision, ingress>>

\* The text of m over what the file holds: if that is longer, because another
\* save wrote it in between, its tail stays and the file does not parse.
Written(m) ==
  IF mapFile.size <= Size[m]
  THEN [parses |-> TRUE, defs |-> m, size |-> Size[m]]
  ELSE [mapFile EXCEPT !.parses = FALSE]

Write(e) ==
  /\ epc[e] = "writing"
  /\ epc' = [epc EXCEPT ![e] = "done"]
  /\ \/ mapFile' = Written(Draft[e])
     \/ FilesFail /\ mapFile' = [mapFile EXCEPT !.parses = FALSE, !.size = @ + 1]
  /\ UNCHANGED <<body, saved, dpc, disposition, decision, ingress>>

-----------------------------------------------------------------------------
(* webhook.                                                                *)

Answer(r) == dpc' = [dpc EXCEPT ![r] = "answered"]

\* egress.Chain.Append, whose error every caller here drops.
Recorded(d, what, recipe) ==
  \E kept \in {TRUE} \cup (IF LogFails THEN {FALSE} ELSE {}) :
    LET leaf == [of |-> d, disposition |-> what, recipe |-> recipe]
    IN  ingress' = IF kept THEN Append(ingress, leaf) ELSE ingress

\* Accept fails: recorded as a shape failure, and refused.
RefuseShape(d) ==
  /\ dpc[d] = "idle" /\ ~body[d].shaped
  /\ Recorded(d, "shape", NoRecipe)
  /\ disposition' = [disposition EXCEPT ![d] = "shape"]
  /\ Answer(d)
  /\ UNCHANGED <<body, mapFile, saved, epc, decision>>

\* LoadEventMap fails: answered at once, and nothing is recorded.
RefuseUnreadable(d) ==
  /\ dpc[d] = "idle" /\ body[d].shaped /\ ~mapFile.parses
  /\ disposition' = [disposition EXCEPT ![d] = "unreadable"]
  /\ Answer(d)
  /\ UNCHANGED <<body, mapFile, saved, epc, decision, ingress>>

\* A bad or absent signature, or no secret, is an unattributed event.
Attributed(d) == HasSecret /\ body[d].signed

\* Deviation: the attribution of the delivery is not looked at.
Disposition_TrustsUnsigned(d) ==
  IF Matching(mapFile.defs, body[d].event) = {} THEN "no-route" ELSE "dispatched"

Disposition(d) ==
  LET I == Matching(mapFile.defs, body[d].event)
  IN  IF I = {} THEN "no-route"
      ELSE IF mapFile.defs[FirstOf(I)].attributed /\ ~Attributed(d) THEN "unattributed"
      ELSE "dispatched"

\* Deviation: the run is launched before the attribution is looked at.
Launched_Early(d) ==
  LET I == Matching(mapFile.defs, body[d].event)
  IN  IF I # {} THEN Follow(mapFile.defs[FirstOf(I)]) ELSE Nowhere

\* The definition is followed even if it leaves the recipe to a model.
Launched(d) ==
  IF Disposition(d) = "dispatched"
  THEN Follow(mapFile.defs[FirstOf(Matching(mapFile.defs, body[d].event))])
  ELSE Nowhere

\* The event is resolved by the map as it is now; a run is launched in the
\* background before the arrival is recorded.
Resolve(d) ==
  /\ dpc[d] = "idle" /\ body[d].shaped /\ mapFile.parses
  /\ disposition' = [disposition EXCEPT ![d] = Disposition(d)]
  /\ decision' = [decision EXCEPT ![d] = Launched(d)]
  /\ dpc' = [dpc EXCEPT ![d] = "resolved"]
  /\ UNCHANGED <<body, mapFile, saved, epc, ingress>>

RecordArrival(d) ==
  /\ dpc[d] = "resolved"
  /\ Recorded(d, disposition[d], decision[d].recipe)
  /\ Answer(d)
  /\ UNCHANGED <<body, mapFile, saved, epc, disposition, decision>>

HandleDelivery(d) ==
  RefuseShape(d) \/ RefuseUnreadable(d) \/ Resolve(d) \/ RecordArrival(d)

-----------------------------------------------------------------------------
(* dispatch: the console's own request.                                    *)

\* The event map, then the dispatch model if one was selected; on an error
\* and when nothing routes, no run is launched.
ResolveConsole(k) ==
  /\ dpc[k] = "idle"
  /\ \/ /\ body[k].shaped /\ mapFile.parses
        /\ \E asked \in BOOLEAN, p \in Proposals :
             decision' = [decision EXCEPT
               ![k] = DispatchEvent(mapFile.defs, body[k].event, asked, p, Rows)]
     \/ UNCHANGED decision
  /\ Answer(k)
  /\ UNCHANGED <<body, mapFile, saved, epc, disposition, ingress>>

=============================================================================
