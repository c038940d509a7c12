----------------------------- MODULE CedarStore -----------------------------
(***************************************************************************)
(* Role attachments and the reverse index from users to projects, kept by  *)
(* internal/cedar/store.go: CreateAttachment and DeleteAttachment.         *)
(*                                                                         *)
(* The attachments of a project are one document that a request reads,     *)
(* edits in memory and writes back whole, unconditionally; the projects of *)
(* a user are another document, edited in a transaction of its own.        *)
(*                                                                         *)
(* An attachment is the request that created it: its ID is random, and     *)
(* that two may be equal in its eight digits is left out.                  *)
(* Not here: what makes a role valid, and what policies it stands for.     *)
(***************************************************************************)
CONSTANTS Projects, Users,
          Requests,         \* the requests, as attachments of their making
          MayFail,          \* whether a request may end between two calls
          NoTarget

ASSUME CedarAssumption ==
  /\ MayFail \in BOOLEAN
  /\ NoTarget \notin Requests

VARIABLES attachments,      \* the document of each project, as a set
          userProjects,     \* the document of each user, absent when empty
          op, project,      \* what each request does, and where
          user,             \* whom a CreateAttachment is for
          pc,               \* the call a request makes next
          list,             \* the attachments it has read
          target,           \* the attachment a DeleteAttachment removes
          unseen,           \* history: who saved between its read and its save
          late              \* history: ... and between its save and its index

stores == <<attachments, userProjects>>
input == <<op, project, user>>
history == <<unseen, late>>
vars == <<stores, input, pc, list, target, history>>

Active(r) == pc[r] \in {"save", "index"}

\* Answered with success; with an error, nothing written; with an error after
\* the first of the two writes.
Ends == {"done", "refused", "half_done"}

\* The steps after the first write.
Saved == {"index", "done", "half_done"}

\* Every variable has its type, and a DeleteAttachment past its read removes an
\* attachment that it found in the list, whose principal it then looks up.
TypeOK ==
  /\ attachments \in [Projects -> SUBSET Requests]
  /\ userProjects \in [Users -> SUBSET Projects]
  /\ op \in [Requests -> {"CreateAttachment", "DeleteAttachment"}]
  /\ project \in [Requests -> Projects]
  /\ user \in [Requests -> Users]
  /\ pc \in [Requests -> {"start", "save", "index"} \cup Ends]
  /\ list \in [Requests -> SUBSET Requests]
  /\ target \in [Requests -> Requests \cup {NoTarget}]
  /\ unseen \in [Requests -> SUBSET Requests]
  /\ late \in [Requests -> SUBSET Requests]
  /\ \A r \in Requests :
       Active(r) /\ op[r] = "DeleteAttachment" => target[r] \in list[r]

Init ==
  /\ attachments = [p \in Projects |-> {}]
  /\ userProjects = [u \in Users |-> {}]
  /\ op \in [Requests -> {"CreateAttachment", "DeleteAttachment"}]
  /\ project \in [Requests -> Projects]
  /\ user \in [Requests -> Users]
  /\ pc = [r \in Requests |-> "start"]
  /\ list = [r \in Requests |-> {}]
  /\ target = [r \in Requests |-> NoTarget]
  /\ unseen = [r \in Requests |-> {}]
  /\ late = [r \in Requests |-> {}]

-----------------------------------------------------------------------------

Goto(r, step) == pc' = [pc EXCEPT ![r] = step]

getAttachments(r) == list' = [list EXCEPT ![r] = attachments[project[r]]]

saveAttachments(r, edited) ==
  attachments' = [attachments EXCEPT ![project[r]] = edited]

\* r saves: the others on its project that are at this step have missed it.
Missed(r, step, by) ==
  [s \in Requests |->
     IF s # r /\ project[s] = project[r] /\ pc[s] = step
     THEN by[s] \cup {r} ELSE by[s]]

NoteSave(r) ==
  unseen' = Missed(r, "save", unseen) /\ late' = Missed(r, "index", late)

\* Both find the project listed, or not, inside the transaction that edits.
addUserProject(u, p) ==
  userProjects' = [userProjects EXCEPT ![u] = @ \cup {p}]

\* The document is deleted whatever else it lists.
removeUserProjectFault(u, p) ==
  userProjects' = [userProjects EXCEPT ![u] = {}]

removeUserProject(u, p) ==
  userProjects' = [userProjects EXCEPT ![u] = @ \ {p}]

\* There is no such role, or no attachment with the ID the client sent, or the
\* request ended before its first write.
Refused(r) ==
  /\ pc[r] = "start"
  /\ Goto(r, "refused")
  /\ UNCHANGED <<stores, input, list, target, history>>

-----------------------------------------------------------------------------
(* CreateAttachment *)

CreateRead(r) ==
  /\ pc[r] = "start" /\ op[r] = "CreateAttachment"
  /\ getAttachments(r)
  /\ Goto(r, "save")
  /\ UNCHANGED <<stores, input, target, history>>

\* The new attachment replaces the list.
CreateSaveFault(r) ==
  /\ pc[r] = "save" /\ op[r] = "CreateAttachment"
  /\ saveAttachments(r, {r})
  /\ NoteSave(r)
  /\ Goto(r, "index")
  /\ UNCHANGED <<userProjects, input, list, target>>

CreateSave(r) ==
  /\ pc[r] = "save" /\ op[r] = "CreateAttachment"
  /\ saveAttachments(r, list[r] \cup {r})
  /\ NoteSave(r)
  /\ Goto(r, "index")
  /\ UNCHANGED <<userProjects, input, list, target>>

CreateIndex(r) ==
  /\ pc[r] = "index" /\ op[r] = "CreateAttachment"
  /\ addUserProject(user[r], project[r])
  /\ Goto(r, "done")
  /\ UNCHANGED <<attachments, input, list, target, history>>

-----------------------------------------------------------------------------
(* DeleteAttachment *)

\* The attachment is not looked for.
DeleteReadFault(r, t) ==
  /\ pc[r] = "start" /\ op[r] = "DeleteAttachment"
  /\ getAttachments(r)
  /\ target' = [target EXCEPT ![r] = t]
  /\ Goto(r, "save")
  /\ UNCHANGED <<stores, input, history>>

\* t is the attachment whose ID the client sent.
DeleteRead(r, t) ==
  /\ pc[r] = "start" /\ op[r] = "DeleteAttachment"
  /\ t \in attachments[project[r]]
  /\ getAttachments(r)
  /\ target' = [target EXCEPT ![r] = t]
  /\ Goto(r, "save")
  /\ UNCHANGED <<stores, input, history>>

\* The list is written back unfiltered.
DeleteSaveFault(r) ==
  /\ pc[r] = "save" /\ op[r] = "DeleteAttachment"
  /\ saveAttachments(r, list[r])
  /\ NoteSave(r)
  /\ Goto(r, "index")
  /\ UNCHANGED <<userProjects, input, list, target>>

DeleteSave(r) ==
  /\ pc[r] = "save" /\ op[r] = "DeleteAttachment"
  /\ saveAttachments(r, list[r] \ {target[r]})
  /\ NoteSave(r)
  /\ Goto(r, "index")
  /\ UNCHANGED <<userProjects, input, list, target>>

HasRemaining(r) ==
  \E a \in list[r] \ {target[r]} : user[a] = user[target[r]]

\* The rest of the list is the one read at the beginning.
DeleteIndex(r) ==
  /\ pc[r] = "index" /\ op[r] = "DeleteAttachment"
  /\ IF HasRemaining(r) THEN UNCHANGED userProjects
     ELSE removeUserProject(user[target[r]], project[r])
  /\ Goto(r, "done")
  /\ UNCHANGED <<attachments, input, list, target, history>>

-----------------------------------------------------------------------------

\* An error of Firestore, a cancelled request or a crash of the server.
Fail(r) ==
  /\ MayFail
  /\ \/ pc[r] = "save" /\ Goto(r, "refused")
     \/ pc[r] = "index" /\ Goto(r, "half_done")
  /\ UNCHANGED <<stores, input, list, target, history>>

Step(r) ==
  \/ Refused(r)
  \/ CreateRead(r) \/ CreateSave(r) \/ CreateIndex(r)
  \/ \E t \in Requests : DeleteRead(r, t)
  \/ DeleteSave(r) \/ DeleteIndex(r)

AllAnswered == \A r \in Requests : pc[r] \in Ends

Next ==
  \/ \E r \in Requests : Step(r) \/ Fail(r)
  \/ AllAnswered /\ UNCHANGED vars

Spec == Init /\ [][Next]_vars

-----------------------------------------------------------------------------
(* What the code keeps to, whatever runs together *)

\* Whose attachment a request makes or removes, once it has read the list.
About(r) ==
  IF op[r] = "CreateAttachment" THEN user[r] ELSE user[target[r]]

\* No request on p that was saved had missed one about u: neither was the list
\* it wrote read before that one wrote, nor did that one write, also about u,
\* before its index.
Undisturbed(p, u) ==
  \A s \in Requests : project[s] = p /\ pc[s] \in Saved =>
    /\ \A r \in unseen[s] : About(r) # u
    /\ About(s) = u => \A r \in late[s] : About(r) # u

\* The index lists a project for exactly the users that have an attachment in
\* it, except where a request about the user is between its two writes or ended
\* there, or one overtook another; requests on other projects edit the document
\* of the same user meanwhile, and others on this project the same list.
IndexFollows ==
  \A p \in Projects, u \in Users :
    /\ Undisturbed(p, u)
    /\ \A r \in Requests : project[r] = p /\ pc[r] \in {"index", "half_done"} =>
         About(r) # u
    => (p \in userProjects[u] <=> \E a \in attachments[p] : user[a] = u)

\* Somebody wrote a list back that was read before r wrote its own.
Overwritten(r) == \E s \in Requests : r \in unseen[s] /\ pc[s] \in Saved

\* A role that was granted stays granted until a request removes it, or one
\* writes back the list from before.
GrantsKept ==
  \A r \in Requests :
    op[r] = "CreateAttachment" /\ pc[r] = "done" =>
      \/ r \in attachments[project[r]]
      \/ \E d \in Requests : target[d] = r /\ pc[d] \in Saved
      \/ Overwritten(r)

\* A role that was removed comes back only if a request writes back the list
\* from before: no other order of the calls, and no failure, does it.
RevocationsKept ==
  \A d \in Requests :
    op[d] = "DeleteAttachment" /\ pc[d] = "done" =>
      target[d] \notin attachments[project[d]] \/ Overwritten(d)

-----------------------------------------------------------------------------
(* What a document says of it *)

\* When no request on a project is under way, the index lists it for exactly the
\* users that have an attachment in it.
IndexAgrees ==
  \A p \in Projects :
    (\A r \in Requests : project[r] = p => ~Active(r)) =>
      \A u \in Users :
        p \in userProjects[u] <=> \E a \in attachments[p] : user[a] = u
=============================================================================
