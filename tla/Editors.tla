------------------------------ MODULE Editors ------------------------------
(***************************************************************************)
(* Clients that edit: they get a hosted cluster, change what they got and  *)
(* put it back.  What a client has got is a version, as metadata of a      *)
(* hosted cluster that it sends back tell which it was (resourceVersion);  *)
(* Update decodes them (handlers.go:345) and compares nothing with them:   *)
(* the version under which it replaces the ApplyDesire is the one it reads *)
(* itself (ClusterAPI).  So what a client edited is known here only to it. *)
(***************************************************************************)
EXTENDS Pipeline

VARIABLE edited             \* the version the client of each Update has edited

editorVars == <<pipelineVars, edited>>

EditorsInit ==
  /\ PipelineInit
  /\ edited = [r \in Requests |-> NoDoc]

\* The client takes what reader g was answered, to send it back changed.
TakeUp(r, g) ==
  /\ op[r] = "Update" /\ pc[r] = "start"
  /\ rpc[g] = "answered" /\ rkey[g] = key[r] /\ reply[g].code = 200
  /\ edited' = [edited EXCEPT ![r] = reply[g].content]
  /\ UNCHANGED pipelineVars

EditorsNext ==
  \/ PipelineNext /\ UNCHANGED edited
  \/ \E r \in Requests, g \in Readers : TakeUp(r, g)

EditorsSpec == EditorsInit /\ [][EditorsNext]_editorVars

-----------------------------------------------------------------------------
(* What a document says and the handlers do not provide *)

\* The README: PUT "requires `resourceVersion`", for optimistic concurrency
\* (spec.yaml): of the Updates that clients made of one version they got, only
\* one is answered 200, and none undoes another that its client did not see.
NoStaleUpdate ==
  \A r, s \in Requests :
    /\ r # s /\ op[r] = "Update" /\ op[s] = "Update"
    /\ code[r] = 200 /\ code[s] = 200
    /\ edited[r] # NoDoc
    => edited[r] # edited[s]
=============================================================================
