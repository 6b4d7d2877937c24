--------------------------- MODULE TemplateChoice ---------------------------
(***************************************************************************)
(* The dialog that makes a project from a template                         *)
(* (components/workspace/TemplateDialog.tsx) and the projects the          *)
(* templates build (types/template.ts).  Names and the alert threshold     *)
(* are left out.                                                           *)
(***************************************************************************)
EXTENDS Naturals, Sequences

CONSTANT MaxNodeCount   \* the 8 of the slider
ASSUME NodeCountAssumption == MaxNodeCount \in Nat \ {0, 1}

VARIABLES
  tplOpen,         \* the dialog is shown
  tplSelected, tplParams, tplMode,
  tplConfirmed     \* what onConfirm was called with last

tplVars == <<tplOpen, tplSelected, tplParams, tplMode, tplConfirmed>>

Templates == {"single", "physical", "logical"}
Kinds == {"collector", "analyzer", "storage"}

defaultParams(t) ==
  [nodeCount |-> IF t = "single" THEN 1 ELSE 2,
   create |-> CASE t = "single"   -> {"collector"}
                [] t = "physical" -> {"collector", "analyzer"}
                [] OTHER          -> Kinds]
MinNodes(t) == IF t = "single" THEN 1 ELSE 2

(* What a template builds: one cluster, its first node the source, and the *)
(* components that were asked for, linked to it.                           *)
buildComponents(create) == {[type |-> k, links |-> {1}] : k \in create}
buildProject(t, p) ==
  LET n == IF t = "single" THEN 1 ELSE p.nodeCount
      first == IF t = "logical" THEN "publisher" ELSE "primary"
      other == IF t = "logical" THEN "subscriber" ELSE "standby"
  IN  [kind |-> IF t = "logical" THEN "logical" ELSE "physical",
       roles |-> [i \in 1..n |-> IF i = 1 THEN first ELSE other],
       components |-> buildComponents(p.create)]

Nothing == [template |-> "none", params |-> defaultParams("physical"), mode |-> "create"]

TplInit ==
  /\ tplOpen = FALSE /\ tplSelected = "physical" /\ tplParams = defaultParams("physical")
  /\ tplMode = "create" /\ tplConfirmed = Nothing

-----------------------------------------------------------------------------
(* The dialog is mounted anew each time, with the physical template.       *)
openTemplateDialog ==
  /\ ~tplOpen /\ tplOpen' = TRUE
  /\ tplSelected' = "physical" /\ tplParams' = defaultParams("physical")
  /\ tplMode' = "create" /\ UNCHANGED tplConfirmed
handleSelect(t) ==
  /\ tplOpen /\ tplSelected' = t /\ tplParams' = defaultParams(t)
  /\ UNCHANGED <<tplOpen, tplMode, tplConfirmed>>
setNodeCount(n) ==
  /\ tplOpen /\ n \in MinNodes(tplSelected)..MaxNodeCount
  /\ tplParams' = [tplParams EXCEPT !.nodeCount = n]
  /\ UNCHANGED <<tplOpen, tplSelected, tplMode, tplConfirmed>>
toggleCreate(k) ==
  /\ tplOpen
  /\ tplParams' = [tplParams EXCEPT !.create = IF k \in @ THEN @ \ {k} ELSE @ \cup {k}]
  /\ UNCHANGED <<tplOpen, tplSelected, tplMode, tplConfirmed>>
setMode(m) ==
  tplOpen /\ tplMode' = m /\ UNCHANGED <<tplOpen, tplSelected, tplParams, tplConfirmed>>
onCancel ==
  tplOpen /\ tplOpen' = FALSE /\ UNCHANGED <<tplSelected, tplParams, tplMode, tplConfirmed>>
onConfirm ==
  /\ tplOpen /\ tplOpen' = FALSE
  /\ tplConfirmed' = [template |-> tplSelected, params |-> tplParams, mode |-> tplMode]
  /\ UNCHANGED <<tplSelected, tplParams, tplMode>>

TplNext ==
  \/ openTemplateDialog \/ onCancel \/ onConfirm
  \/ \E t \in Templates : handleSelect(t)
  \/ \E n \in 1..MaxNodeCount : setNodeCount(n)
  \/ \E k \in Kinds : toggleCreate(k)
  \/ \E m \in {"preview", "create"} : setMode(m)
TplSpec == TplInit /\ [][TplNext]_tplVars

-----------------------------------------------------------------------------
(* What is confirmed fits its template, however often another one was      *)
(* chosen meanwhile: a replicated cluster is never asked for with a count  *)
(* of nodes that was set for a single one.                                 *)
ParamsFit ==
  tplConfirmed # Nothing =>
    tplConfirmed.params.nodeCount \in MinNodes(tplConfirmed.template)..MaxNodeCount

(* A project built from what the dialog confirmed has exactly one source,  *)
(* of the kind its cluster has, and a replica when it is replicated.       *)
BuiltHasSource ==
  tplConfirmed # Nothing =>
    LET p == buildProject(tplConfirmed.template, tplConfirmed.params)
        source == IF p.kind = "logical" THEN "publisher" ELSE "primary"
    IN  /\ \E i \in 1..Len(p.roles) : p.roles[i] = source
                                      /\ \A j \in 1..Len(p.roles) : p.roles[j] = source => j = i
        /\ tplConfirmed.template # "single" => Len(p.roles) > 1
        /\ {c.type : c \in p.components} = tplConfirmed.params.create
=============================================================================
