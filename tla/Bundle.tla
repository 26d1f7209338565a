------------------------------- MODULE Bundle -------------------------------
(* From prompts, recipes and skills to what one model call is given          *)
(* (runtime-resources/src/bundle.ts, prompt.ts, skill.ts), and which files a *)
(* skill may consist of (skill-directory.ts, skill-archive.ts).              *)
(*                                                                         *)
(* A bundle is a record of functions from ids; a result that the code throws *)
(* for is Refused(reason).                                                  *)
EXTENDS Integers, Sequences, FiniteSets, SequencesExt

NoGroup == "none"
RefusedCall(reason) == [refused |-> reason]
Slots == <<"runtime", "behavior", "capability", "scene", "skill", "workspace", "output">>
Stages == {"reasoning", "internal", "presentation"}

(* ------------------------------ validation ------------------------------ *)

\* PromptDefinitionSchema, renderPrompt: only declared variables, all of them given
Renderable(prompt, values) == prompt.used \subseteq prompt.variables /\ prompt.variables \subseteq values

\* the prompts a recipe may draw on
DrawnBy(recipe) ==
  Range(recipe.base) \union
    UNION {UNION {Range(recipe.dimensions[d][v]) : v \in DOMAIN recipe.dimensions[d]} :
             d \in DOMAIN recipe.dimensions}

\* a prompt outside the runtime's own skills may not speak with its authority
Authorised(skill, prompt) ==
  skill.trust = "runtime" \/ prompt.slot \notin {"runtime", "behavior", "capability", "output"}

\* the constructor: unique purposes, #validateReferences, enabled prompts rendered
ValidBundle(b, values) ==
  /\ \A p \in DOMAIN b.recipes : \A id \in DrawnBy(b.recipes[p]) :
       /\ id \in DOMAIN b.prompts /\ b.prompts[id].enabled
       /\ b.recipes[p].stage \in Stages => b.prompts[id].stage = b.recipes[p].stage
  /\ \A s \in DOMAIN b.skills : \A id \in Range(b.skills[s].prompts) :
       id \in DOMAIN b.prompts /\ b.prompts[id].enabled /\ Authorised(b.skills[s], b.prompts[id])
  /\ \A id \in DOMAIN b.prompts : b.prompts[id].enabled => Renderable(b.prompts[id], values)

(* ------------------------------ compilation ----------------------------- *)

\* requested skills that are not directories of the workspace
Requested(input) == input.requested \ DOMAIN input.directories

InScene(skill, input) ==
  \A d \in DOMAIN skill.dimensions :
    d \in DOMAIN input.dimensions /\ input.dimensions[d] \in skill.dimensions[d]

\* #activateSkills: what may be asked for, and what is active
Requestable(b, input, s) ==
  s \in DOMAIN b.skills /\ input.purpose \in b.skills[s].purposes /\ b.skills[s].mode # "scene"

ActiveSkills(b, input) ==
  {s \in DOMAIN b.skills :
     /\ input.purpose \in b.skills[s].purposes
     /\ \/ b.skills[s].mode # "scene" /\ s \in Requested(input)
        \/ b.skills[s].mode # "explicit" /\ InScene(b.skills[s], input)}

\* #validateSkillConflicts
InConflict(b, active) ==
  \E s, t \in active : \/ t \in b.skills[s].conflicts
                       \/ s # t /\ b.skills[s].group # NoGroup /\ b.skills[s].group = b.skills[t].group

\* #resolveTools: skills take tools away, none of them adds one
EffectiveTools(b, input, active) ==
  {t \in input.tools : \A s \in active : b.skills[s].limited => t \in b.skills[s].allowed}

MissingTools(b, input, active) == UNION {b.skills[s].required : s \in active} \ input.tools

\* the variant of each dimension of the recipe: the value, else the default
VariantOf(recipe, d, input) ==
  LET value == IF d \in DOMAIN input.dimensions THEN input.dimensions[d] ELSE "default"
      variants == recipe.dimensions[d]
  IN  IF value \in DOMAIN variants THEN variants[value]
      ELSE IF "default" \in DOMAIN variants THEN variants["default"] ELSE <<"none">>

\* each prompt once, where it occurs first
Once(ids) ==
  SelectSeq([i \in DOMAIN ids |-> IF \E j \in 1..i - 1 : ids[j] = ids[i] THEN "again" ELSE ids[i]],
            LAMBDA id : id # "again")

\* base, variants, skills by priority; those whose tools are not there are
\* left out, the rest is put in the order of the slots
PromptsOf(b, input, active, tools) ==
  LET recipe == b.recipes[input.purpose]
      dims == SetToSeq(DOMAIN recipe.dimensions)
      ranked == SetToSortSeq(active, LAMBDA s, t : b.skills[s].priority > b.skills[t].priority)
      ids == Once(recipe.base
                   \o FlattenSeq([i \in DOMAIN dims |-> VariantOf(recipe, dims[i], input)])
                   \o FlattenSeq([i \in DOMAIN ranked |-> b.skills[ranked[i]].prompts]))
      wanted == SelectSeq(ids, LAMBDA id : b.prompts[id].whenTools = {}
                                           \/ b.prompts[id].whenTools \intersect tools # {})
  IN  FlattenSeq([i \in DOMAIN Slots |-> SelectSeq(wanted, LAMBDA id : b.prompts[id].slot = Slots[i])])

\* the catalog of the workspace's own skills, and the text of those asked for
DirectoryBlocks(input, tools) ==
  (IF DOMAIN input.directories # {} /\ "skill.read" \in tools THEN <<"workspace.skill-catalog">> ELSE <<>>)
    \o SetToSeq({input.directories[s] : s \in input.requested \intersect DOMAIN input.directories})

\* compile
Compiled(b, input) ==
  LET active == ActiveSkills(b, input)
      tools == EffectiveTools(b, input, active)
      recipe == b.recipes[input.purpose]
  IN  IF input.purpose \notin DOMAIN b.recipes THEN RefusedCall("recipe")
      ELSE IF \E s \in Requested(input) : ~Requestable(b, input, s) THEN RefusedCall("skill")
      ELSE IF InConflict(b, active) THEN RefusedCall("conflict")
      ELSE IF MissingTools(b, input, active) # {} THEN RefusedCall("tool")
      ELSE IF \E d \in DOMAIN recipe.dimensions : VariantOf(recipe, d, input) = <<"none">>
        THEN RefusedCall("variant")
      ELSE [prompts |-> PromptsOf(b, input, active, tools) \o DirectoryBlocks(input, tools),
            tools |-> tools, skills |-> active \union (input.requested \intersect DOMAIN input.directories)]

(* --------------------------------- files -------------------------------- *)

\* validateSkillPath: a path is its parts, "." and ".." and hidden ones included
SkillPath(path) == path # <<>> /\ \A i \in DOMAIN path : path[i] \notin {"", ".", "..", ".gitignore", "a:b"}

\* SkillDirectoryLoader: plain files of one root, no links, bounded in number and size
SkillDirectory(files, maxFiles, maxFile, maxTotal) ==
  /\ \A f \in files : SkillPath(f.path) /\ f.kind = "file" /\ f.links = 1 /\ f.size <= maxFile
  /\ Cardinality(files) <= maxFiles
  /\ MapThenSumSet(LAMBDA f : f.size, files) <= maxTotal
  /\ \E f \in files : f.path = <<"SKILL.md">> /\ f.text # ""

\* extractSkillArchive: where a file of the archive goes; the root of an archive
\* of a repository is left out, with the files only the repository needs
Stripped(name, strip) == IF strip THEN Tail(name) ELSE name
Target(e, strip, directory) ==
  LET path == Stripped(e.name, strip) IN SubSeq(path, Len(directory) + 1, Len(path))

Extracted(entries, strip, directory) ==
  {e \in entries :
     /\ ~e.folder
     /\ IsStrictPrefix(directory, Stripped(e.name, strip))
     /\ strip => ".gitignore" \notin Range(Target(e, strip, directory))}

ArchiveAccepted(entries, strip, directory, maxFiles, maxFile, maxTotal) ==
  LET taken == Extracted(entries, strip, directory)
  IN  /\ \A e \in entries : e.name # <<>> /\ ".." \notin Range(e.name) /\ ~e.link /\ ~e.encrypted
      /\ \A e, f \in entries : e.name = f.name => e = f
      /\ strip => Cardinality({Head(e.name) : e \in entries}) = 1
      /\ \A e \in taken : SkillPath(Target(e, strip, directory)) /\ e.size <= maxFile
      /\ taken # {} /\ Cardinality(taken) <= maxFiles
      /\ MapThenSumSet(LAMBDA e : e.size, taken) <= maxTotal
=============================================================================
