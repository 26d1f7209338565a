------------------------------ MODULE MCStored ------------------------------
(* Small instances of what is stored and read again, for TLC: an interactive *)
(* event with the records it is resumed from, the refs of the context graph, *)
(* assets, the journal a page follows, and files that containers make.  They *)
(* share nothing: a behaviour picks one of them and leaves the others where  *)
(* they begin.                                                             *)
EXTENDS Interaction, ContextGraph, Assets, Watching, Artifacts

VARIABLE focus   \* the component the behaviour is about

GraphSizeOf == <<1, 2, 1, 1>>

storedVars == <<interaction, contextVars, assetVars, watchVars, artifactVars>>

StoredInit ==
  /\ focus \in {"interaction", "context", "assets", "watching", "artifacts"}
  /\ InteractionInit
  /\ ContextInit
  /\ AssetInit
  /\ WatchInit
  /\ ArtifactsInit
  \* no action knows a name from another, and where it is not the focus one
  \* room or setting is as good as the other
  /\ refs["main"].version = 1
  /\ focus = "assets" \/ room = 2
  /\ focus = "interaction" \/ ~(setting.durable \/ setting.command)

\* every part that is not the focus stays where it is
Only(part) ==
  /\ focus = part /\ UNCHANGED focus
  /\ part /= "interaction" => UNCHANGED interaction
  /\ part /= "context" => UNCHANGED contextVars
  /\ part /= "assets" => UNCHANGED assetVars
  /\ part /= "watching" => UNCHANGED watchVars
  /\ part /= "artifacts" => UNCHANGED artifactVars

StoredNext ==
  \/ Only("interaction") /\ InteractionNext
  \/ Only("context") /\ ContextNext
  \/ Only("assets") /\ AssetNext
  \/ Only("watching") /\ WatchNext
  \/ Only("artifacts") /\ ArtifactsNext

StoredSpec == StoredInit /\ [][StoredNext]_<<focus, storedVars>>
=============================================================================
