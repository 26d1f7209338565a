------------------------------- MODULE Saving -------------------------------
(* How the file of the configuration is edited (apps/runtime                 *)
(* config/editor.ts, channel-editor.ts, file-edits.ts).                      *)
(*                                                                         *)
(* A value is a tree of objects, lists and leaves.  Saves of the settings    *)
(* page and of channels go through one queue of the file, each in several    *)
(* steps; somebody outside may write the file too.                           *)
EXTENDS Integers, Sequences, SequencesExt

CONSTANTS Saves,            \* requests to change the file
          SaveOf,           \* what each asks: [kind, path, value]
          InitialDocument,  \* the file as it is found
          MaxOutside,       \* bound: writes by others
          HoldsMask(_)      \* does a value hold what the form shows for a secret?

Leaf(v) == [kind |-> "leaf", value |-> v]
Object(fields) == [kind |-> "object", fields |-> fields]
Items(seq) == [kind |-> "list", items |-> seq]
Missing == [kind |-> "none"]
Empty == Object(<<>>)
Field(tree, k) == IF tree.kind = "object" /\ k \in DOMAIN tree.fields THEN tree.fields[k] ELSE Missing
FieldsOf(tree) == IF tree.kind = "object" THEN tree.fields ELSE <<>>
With(fields, k, v) == [x \in DOMAIN fields \cup {k} |-> IF x = k THEN v ELSE fields[x]]
Without(fields, k) == [x \in DOMAIN fields \ {k} |-> fields[x]]
Upon(fields, old) == [k \in DOMAIN fields \cup DOMAIN old |-> IF k \in DOMAIN fields THEN fields[k] ELSE old[k]]

\* the nodes on a path through objects, and the one it ends at
NodesOn(tree, path) ==
  LET node[n \in 0..Len(path)] == IF n = 0 THEN tree ELSE Field(node[n - 1], path[n])
  IN  node
At(tree, path) == NodesOn(tree, path)[Len(path)]

(* -------------------------------- editing ------------------------------- *)

UnsafeKeys == {"__proto__", "prototype", "constructor"}

\* the place in a list a key names, 0 where it names none
Place(key) == IF key \in {"0", "1", "2"} THEN CHOOSE n \in 1..3 : <<"0", "1", "2">>[n] = key ELSE 0

\* what the loop of applyChange goes through: an object is made where there is none
Child(node, key, value) ==
  LET held == IF node.kind # "list" THEN Field(node, key)
              ELSE IF Place(key) \in DOMAIN node.items THEN node.items[Place(key)] ELSE Missing
  IN  IF held = Missing /\ node.kind = "object" /\ value # Missing THEN Empty ELSE held
NodesMade(raw, path, value) ==
  LET node[n \in 0..Len(path)] == IF n = 0 THEN raw ELSE Child(node[n - 1], path[n], value)
  IN  node

\* one key set, or removed where the value is Missing; Missing: refused
PutKey(node, key, value) ==
  IF node.kind = "object"
    THEN Object(IF value = Missing THEN Without(node.fields, key) ELSE With(node.fields, key, value))
  ELSE IF node.kind # "list" \/ Place(key) \notin 1..Len(node.items) + (IF value = Missing THEN 0 ELSE 1)
    THEN Missing
  ELSE Items(IF value = Missing THEN RemoveAt(node.items, Place(key))
             ELSE IF Place(key) > Len(node.items) THEN Append(node.items, value)
             ELSE ReplaceAt(node.items, Place(key), value))

\* the trees the change makes of these nodes, from the last to the whole
Remade(raw, path, value) ==
  LET node == NodesMade(raw, path, value)
      above(n) == Len(path) - n
      tree[n \in 0..Len(path)] ==
        IF n = 0 THEN value
        ELSE IF n > 1 /\ tree[n - 1] = Missing THEN Missing
        ELSE PutKey(node[above(n)], path[above(n) + 1], tree[n - 1])
  IN  tree

\* a masked value is never written back; Missing: the request is refused
Edited(raw, path, value) ==
  IF path = <<>> \/ (\E n \in 1..Len(path) : path[n] \in UnsafeKeys) \/ HoldsMask(value)
    THEN Missing ELSE Remade(raw, path, value)[Len(path)]

\* persistChannel: a new channel, or fields of one that exists
WithChannel(raw, id, value, add) ==
  LET channels == Field(raw, "channels")
      held == Field(channels, id)
      channel == IF add THEN value ELSE Object(Upon(value.fields, FieldsOf(held)))
  IN  IF raw.kind # "object" \/ channels.kind \notin {"none", "object"} \/ id \in UnsafeKeys
           \/ add = (held # Missing)
        THEN Missing
      ELSE Object(With(raw.fields, "channels", Object(With(FieldsOf(channels), id, channel))))

(* --------------------------- saving the file ---------------------------- *)

IsForm(e) == SaveOf[e].kind = "form"

\* what a request puts where: a form one value, a channel each of its fields
Targets(e) ==
  IF IsForm(e) THEN {[path |-> SaveOf[e].path, value |-> SaveOf[e].value]}
  ELSE {[path |-> Append(SaveOf[e].path, k), value |-> SaveOf[e].value.fields[k]] : k \in DOMAIN SaveOf[e].value.fields}

Apart(p, q) == \E n \in DOMAIN p \cap DOMAIN q : p[n] # q[n]
OutsideValue(n) == Leaf(<<"outside", n>>)

\* The requests touch different parts of the file, none of them inside a list.
ASSUME SavesAssumption ==
  /\ MaxOutside \in Nat
  /\ InitialDocument.kind = "object" /\ Field(InitialDocument, "memory") = OutsideValue(0)
  /\ \A e \in Saves :
       /\ SaveOf[e].path \in Seq(STRING) /\ SaveOf[e].path # <<>>
       /\ IF IsForm(e) THEN SaveOf[e].value # Missing /\ \A n \in 1..Len(SaveOf[e].path) : Place(SaveOf[e].path[n]) = 0
          ELSE /\ Len(SaveOf[e].path) = 2 /\ SaveOf[e].path[1] = "channels"
               /\ SaveOf[e].value.kind = "object" /\ DOMAIN SaveOf[e].value.fields # {}
               /\ DOMAIN SaveOf[e].value.fields \subseteq STRING
               /\ \A k \in DOMAIN SaveOf[e].value.fields : SaveOf[e].value.fields[k] # Missing
       /\ \A a \in Targets(e) : a.path[1] # "memory"
       /\ \A f \in Saves \ {e} : \A a \in Targets(e), b \in Targets(f) : Apart(a.path, b.path)

VARIABLES
  document,   \* the configuration file
  saving,     \* each save: how far it is, the revision its form was read at
              \* (base) and what it will write (next)
  filing,     \* the queue of the file: saves that have not ended
  outside,    \* writes by others so far
  overtaken   \* somebody wrote between the last look of a save and its write

settingsVars == <<document, saving, filing, outside, overtaken>>

SettingsTypeOK ==
  /\ \A e \in Saves : saving[e].at \in {"idle", "open", "queued", "validating", "writing", "saved", "refused"}
  /\ filing \in Seq(Saves) /\ outside \in 0..MaxOutside /\ overtaken \in BOOLEAN

SettingsInit ==
  /\ document = InitialDocument
  /\ saving = [e \in Saves |-> [at |-> "idle", base |-> Missing, next |-> Missing]]
  /\ filing = <<>> /\ outside = 0 /\ overtaken = FALSE

\* what a writer that does not wait for the queue would do
WrongInTurn(e) == \E n \in DOMAIN filing : filing[n] = e
InTurn(e) == filing # <<>> /\ Head(filing) = e

\* only the save in turn ends
SaveEnds(e, how) ==
  /\ saving' = [saving EXCEPT ![e].at = how]
  /\ filing' = Tail(filing)

\* readConfigEditor: the form shows the file and its revision
OpenForm(e) ==
  /\ IsForm(e) /\ saving[e].at = "idle"
  /\ saving' = [saving EXCEPT ![e].at = "open", ![e].base = document]
  /\ UNCHANGED <<document, filing, outside, overtaken>>

\* enqueueConfigFileEdit
SubmitSave(e) ==
  /\ saving[e].at = (IF IsForm(e) THEN "open" ELSE "idle")
  /\ saving' = [saving EXCEPT ![e].at = "queued"]
  /\ filing' = Append(filing, e)
  /\ UNCHANGED <<document, outside, overtaken>>

\* what a save makes of the file as it reads it
Applied(e) ==
  LET asked == SaveOf[e]
  IN  IF ~IsForm(e) THEN WithChannel(document, asked.path[2], asked.value, asked.kind = "add")
      ELSE IF saving[e].base # document THEN Missing
      ELSE Edited(document, asked.path, asked.value)

\* a form is validated with the other sources, which takes time; a channel at once
BeginSave(e) ==
  /\ InTurn(e) /\ saving[e].at = "queued"
  /\ IF Applied(e) = Missing THEN SaveEnds(e, "refused")
     ELSE /\ saving' = [saving EXCEPT ![e].at = IF IsForm(e) THEN "validating" ELSE "writing",
                                      ![e].next = Applied(e)]
          /\ UNCHANGED filing
  /\ UNCHANGED <<document, outside, overtaken>>

\* the file is read again after the validation
CheckSave(e) ==
  /\ saving[e].at = "validating"
  /\ IF saving[e].base # document THEN SaveEnds(e, "refused")
     ELSE saving' = [saving EXCEPT ![e].at = "writing"] /\ UNCHANGED filing
  /\ UNCHANGED <<document, outside, overtaken>>

\* the file cannot be read, the result is invalid, or it cannot be written
SaveFails(e) ==
  /\ saving[e].at \in {"validating", "writing"} \/ (saving[e].at = "queued" /\ InTurn(e))
  /\ SaveEnds(e, "refused")
  /\ UNCHANGED <<document, outside, overtaken>>

\* writeRawConfigFile replaces the file as a whole
WriteSave(e) ==
  /\ saving[e].at = "writing"
  /\ document' = saving[e].next
  /\ SaveEnds(e, "saved")
  /\ UNCHANGED <<outside, overtaken>>

EditOutside ==
  /\ outside < MaxOutside
  /\ outside' = outside + 1
  /\ document' = PutKey(document, "memory", OutsideValue(outside + 1))
  /\ overtaken' = (overtaken \/ \E e \in Saves : saving[e].at = "writing")
  /\ UNCHANGED <<saving, filing>>

SettingsNext ==
  \/ \E e \in Saves : \/ OpenForm(e) \/ SubmitSave(e) \/ BeginSave(e)
                      \/ CheckSave(e) \/ SaveFails(e) \/ WriteSave(e)
  \/ EditOutside

SettingsSpec == SettingsInit /\ [][SettingsNext]_settingsVars

Holds(tree, e) == \A a \in Targets(e) : At(tree, a.path) = a.value

\* What was saved stays in the file, whichever saves overlap, and so does what
\* others wrote, unless they wrote in the instant between the last look of a
\* save and its write (editor.ts 75-93, channel-editor.ts 45-66, file-edits.ts).
EditsKept ==
  /\ \A e \in Saves : saving[e].at = "saved" => Holds(document, e)
  /\ ~overtaken => Field(document, "memory") = OutsideValue(outside)
=============================================================================
