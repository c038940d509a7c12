---------------------------- MODULE CedarProofs ----------------------------
(***************************************************************************)
(* Proofs about CedarStore, for all projects, users and requests, in any   *)
(* interleaving and with or without failures between two calls: its types, *)
(* and what remains true although a list that was read is written back     *)
(* over what others have written since.                                    *)
(*                                                                         *)
(* Nothing is assumed of which requests run together.  What a request has  *)
(* missed is recorded (unseen, late), and the invariant says of each list  *)
(* that is about to be written that it differs from what is stored by no   *)
(* more than that: an attachment that was granted is in it (GrantInv), one *)
(* that was removed is not (RevokeInv), and of a user about whom nothing   *)
(* was missed it holds what is stored (Follows).  The writes then add and  *)
(* take away no more than their own attachment and what was missed.        *)
(***************************************************************************)
EXTENDS CedarStore, TLAPS

\* The requests on a project.
On(p) == {r \in Requests : project[r] = p}

\* The attachments of a project that were ever written.
Made(p) == {r \in On(p) : op[r] = "CreateAttachment" /\ pc[r] \in Saved}

\* What is stored, listed or removed was written by its own Create; a request
\* has missed only others on its project, that have written.
MadeInv ==
  /\ \A p \in Projects : attachments[p] \subseteq Made(p)
  /\ \A r \in Requests :
       /\ list[r] \subseteq Made(project[r])
       /\ unseen[r] \cup late[r] \subseteq {s \in On(project[r]) :
            pc[s] \in Saved}
       /\ pc[r] = "start" => target[r] = NoTarget
       /\ pc[r] \in Saved /\ op[r] = "DeleteAttachment" => target[r] \in list[r]

\* A Delete of r has written, or somebody else over it.
Excused(r) ==
  \/ \E d \in Requests : target[d] = r /\ pc[d] \in Saved
  \/ Overwritten(r)

\* What was written is still there, or it is excused; and so it is in any list
\* that is about to be written, unless that was read before.
GrantInv ==
  \A r \in Requests : op[r] = "CreateAttachment" /\ pc[r] \in Saved =>
    /\ r \in attachments[project[r]] \/ Excused(r)
    /\ \A s \in On(project[r]) : pc[s] = "save" =>
         r \in list[s] \/ r \in unseen[s] \/ Excused(r)

\* What a Delete has removed is not there, or somebody has written over it; and
\* it is in no list that is about to be written, unless that was read before.
RevokeInv ==
  \A d \in Requests : op[d] = "DeleteAttachment" /\ pc[d] \in Saved =>
    /\ target[d] \notin attachments[project[d]] \/ Overwritten(d)
    /\ \A s \in On(project[d]) : pc[s] = "save" =>
         target[d] \notin list[s] \/ d \in unseen[s] \/ Overwritten(d)

\* A request about u ended between its two writes.
HalfDone(p, u) == \E r \in On(p) : pc[r] = "half_done" /\ About(r) = u

\* What a request writes.
Edited(r) ==
  IF op[r] = "CreateAttachment" THEN list[r] \cup {r} ELSE list[r] \ {target[r]}

\* They hold the same attachments of u.
Same(u, these, those) == \A a \in Requests : user[a] = u =>
  (a \in these <=> a \in those)

Indexing(p, u) == {r \in On(p) : pc[r] = "index" /\ About(r) = u}

\* The index lists the project for the user of these attachments.
Lists(p, u, documents) ==
  p \in userProjects[u] <=> \E a \in documents : user[a] = u

\* Every list that is about to be written holds of u what is stored, unless it
\* has missed some; a single request about u is between its writes, and the
\* index follows what is stored, one edit behind meanwhile.
Follows(p, u) ==
  /\ \A s \in On(p) :
       pc[s] = "save" /\ (\A r \in unseen[s] : About(r) # u) =>
         Same(u, list[s], attachments[p])
  /\ \A s \in Indexing(p, u) :
       /\ Indexing(p, u) = {s}
       /\ Same(u, Edited(s), attachments[p])
       /\ Lists(p, u, list[s])
  /\ Indexing(p, u) = {} => Lists(p, u, attachments[p])

\* That holds while nobody about u overtakes another or ends half way.
IndexInv ==
  \A p \in Projects, u \in Users :
    Undisturbed(p, u) /\ ~HalfDone(p, u) => Follows(p, u)

\* What is never taken back.
Lasts ==
  /\ UNCHANGED input
  /\ \A s \in Requests :
       /\ pc[s] \in Saved => pc[s]' \in Saved /\ target[s]' = target[s]
       /\ unseen[s] \subseteq unseen[s]' /\ late[s] \subseteq late[s]'

USE CedarAssumption

\* Every step keeps the types.
LEMMA TypeStep ==
  ASSUME TypeOK, NEW r \in Requests, Step(r) \/ Fail(r)
  PROVE  TypeOK'
<1> USE DEF TypeOK, Goto, stores, input, history, Ends, Active, Saved
<1>1. CASE Refused(r)
  BY <1>1 DEF Refused
<1>2. CASE CreateRead(r)
  BY <1>2 DEF CreateRead, getAttachments
<1>3. CASE CreateSave(r)
  BY <1>3 DEF CreateSave, saveAttachments, NoteSave, Missed
<1>4. CASE CreateIndex(r)
  BY <1>4 DEF CreateIndex, addUserProject
<1>5. ASSUME NEW t \in Requests, DeleteRead(r, t) PROVE TypeOK'
  BY <1>5 DEF DeleteRead, getAttachments
<1>6. CASE DeleteSave(r)
  BY <1>6 DEF DeleteSave, saveAttachments, NoteSave, Missed
<1>7. CASE DeleteIndex(r)
  BY <1>7 DEF DeleteIndex, removeUserProject
<1>8. CASE Fail(r)
  BY <1>8 DEF Fail
<1> QED
  BY <1>1, <1>2, <1>3, <1>4, <1>5, <1>6, <1>7, <1>8 DEF Step

\* Who has saved has, and what was missed was.
LEMMA Lasting ==
  ASSUME TypeOK, NEW r \in Requests, Step(r) \/ Fail(r)
  PROVE  Lasts
<1> USE DEF TypeOK, Goto, stores, input, history, Ends, Saved, Lasts
<1>1. CASE Refused(r)
  BY <1>1 DEF Refused
<1>2. CASE CreateRead(r)
  BY <1>2 DEF CreateRead, getAttachments
<1>3. CASE CreateSave(r)
  BY <1>3 DEF CreateSave, saveAttachments, NoteSave, Missed
<1>4. CASE CreateIndex(r)
  BY <1>4 DEF CreateIndex, addUserProject
<1>5. ASSUME NEW t \in Requests, DeleteRead(r, t) PROVE Lasts
  BY <1>5 DEF DeleteRead, getAttachments
<1>6. CASE DeleteSave(r)
  BY <1>6 DEF DeleteSave, saveAttachments, NoteSave, Missed
<1>7. CASE DeleteIndex(r)
  BY <1>7 DEF DeleteIndex, removeUserProject
<1>8. CASE Fail(r)
  BY <1>8 DEF Fail
<1> QED
  BY <1>1, <1>2, <1>3, <1>4, <1>5, <1>6, <1>7, <1>8 DEF Step

\* Nobody has an attachment in the beginning.
LEMMA InitInv == Init => TypeOK /\ MadeInv /\ GrantInv /\ RevokeInv
BY DEF Init, TypeOK, MadeInv, Made, On, GrantInv, RevokeInv, Saved, Active, Ends

\* CreateSave writes the request's own attachment, DeleteSave nothing new; a
\* Delete removes what it found in the list.
LEMMA MadeStep ==
  ASSUME TypeOK, MadeInv, NEW r \in Requests, Step(r) \/ Fail(r)
  PROVE  MadeInv'
<1> USE DEF TypeOK, Goto, stores, input, history, Ends, Active, MadeInv, Made,
          On, Saved
<1>1. CASE Refused(r)
  BY <1>1 DEF Refused
<1>2. CASE CreateRead(r)
  BY <1>2 DEF CreateRead, getAttachments
<1>3. CASE CreateSave(r)
  BY <1>3 DEF CreateSave, saveAttachments, NoteSave, Missed
<1>4. CASE CreateIndex(r)
  BY <1>4 DEF CreateIndex, addUserProject
<1>5. ASSUME NEW t \in Requests, DeleteRead(r, t) PROVE MadeInv'
  BY <1>5 DEF DeleteRead, getAttachments
<1>6. CASE DeleteSave(r)
  BY <1>6 DEF DeleteSave, saveAttachments, NoteSave, Missed
<1>7. CASE DeleteIndex(r)
  BY <1>7 DEF DeleteIndex, removeUserProject
<1>8. CASE Fail(r)
  BY <1>8 DEF Fail
<1> QED
  BY <1>1, <1>2, <1>3, <1>4, <1>5, <1>6, <1>7, <1>8 DEF Step

\* What is excused stays so.
LEMMA ExcusedStays ==
  ASSUME TypeOK, NEW r \in Requests, Step(r) \/ Fail(r)
  PROVE  \A d \in Requests :
           /\ Overwritten(d) => Overwritten(d)'
           /\ Excused(d) => Excused(d)'
BY Lasting DEF Lasts, Overwritten, Excused

\* What both kinds of save do to others: what was stored is replaced by the
\* list that was read and edited, and whoever has read and not saved yet has
\* missed it.
Saves(r, edited) ==
  /\ pc[r] = "save" /\ pc' = [pc EXCEPT ![r] = "index"]
  /\ attachments' = [attachments EXCEPT ![project[r]] = edited]
  /\ \A s \in On(project[r]) : s # r /\ pc[s] = "save" => r \in unseen'[s]
  /\ \A s \in Requests : s # r /\ project[s] = project[r] /\ pc[s] = "index" =>
       r \in late'[s]
  /\ unseen'[r] = unseen[r] /\ late'[r] = late[r]
  /\ UNCHANGED <<userProjects, input, list, target>>

LEMMA SavesAre ==
  ASSUME TypeOK, NEW r \in Requests
  PROVE  /\ CreateSave(r) => Saves(r, list[r] \cup {r})
         /\ DeleteSave(r) => Saves(r, list[r] \ {target[r]})
BY DEF TypeOK, CreateSave, DeleteSave, Saves, saveAttachments, NoteSave,
   Missed, Goto, On, input

\* A list that is written back lacks only what it has missed or removes.
LEMMA GrantSave ==
  ASSUME TypeOK, MadeInv, GrantInv, NEW r \in Requests, NEW edited,
         Saves(r, edited), Step(r),
         list[r] \ {target[r]} \subseteq edited,
         op[r] = "CreateAttachment" => r \in edited
  PROVE  GrantInv'
<1> USE DEF TypeOK, MadeInv, Saves, On, Saved, input
<1>1. \A g \in Requests : Excused(g) => Excused(g)'
  BY ExcusedStays
<1>2. r \in Requests /\ pc'[r] = "index" /\ \A s \in Requests : s # r =>
        pc'[s] = pc[s]
  OBVIOUS
<1>3. ASSUME NEW g \in Requests, op[g] = "CreateAttachment", pc'[g] \in Saved
      PROVE  g \in attachments'[project[g]] \/ Excused(g)'
  <2>1. CASE g = r
    BY <1>2, <1>3, <2>1
  <2>2. CASE g # r /\ project[g] # project[r]
    BY <1>1, <1>2, <1>3, <2>2 DEF GrantInv
  <2>3. CASE g # r /\ project[g] = project[r]
    <3>1. pc[g] \in Saved
      BY <1>2, <1>3, <2>3
    <3>2. g \in list[r] \/ g \in unseen[r] \/ Excused(g)
      BY <1>3, <2>3, <3>1 DEF GrantInv
    <3>3. g \in unseen[r] => Excused(g)'
      BY <1>2 DEF Excused, Overwritten
    <3>4. g = target[r] => Excused(g)'
      BY <1>2 DEF Excused
    <3> QED
      BY <1>1, <2>3, <3>2, <3>3, <3>4
  <2> QED
    BY <2>1, <2>2, <2>3
<1>4. ASSUME NEW g \in Requests, op[g] = "CreateAttachment", pc'[g] \in Saved,
             NEW s \in On(project[g]), pc'[s] = "save"
      PROVE  g \in list[s] \/ g \in unseen'[s] \/ Excused(g)'
  <2>1. s # r /\ pc[s] = "save"
    BY <1>2, <1>4
  <2>2. CASE g = r
    BY <1>4, <2>1, <2>2
  <2>3. CASE g # r
    <3>1. g \in list[s] \/ g \in unseen[s] \/ Excused(g)
      BY <1>2, <1>4, <2>1, <2>3 DEF GrantInv
    <3>2. unseen[s] \subseteq unseen'[s]
      BY Lasting DEF Lasts
    <3> QED
      BY <1>1, <3>1, <3>2
  <2> QED
    BY <2>2, <2>3
<1> QED
  BY <1>3, <1>4 DEF GrantInv

\* ... and brings back only what was removed meanwhile.
LEMMA RevokeSave ==
  ASSUME TypeOK, MadeInv, RevokeInv, NEW r \in Requests, NEW edited,
         Saves(r, edited), Step(r),
         op[r] = "CreateAttachment" => edited \subseteq list[r] \cup {r},
         op[r] = "DeleteAttachment" => edited \subseteq list[r] \ {target[r]}
  PROVE  RevokeInv'
<1> USE DEF TypeOK, MadeInv, Saves, On, Saved, input
<1>1. \A d \in Requests : Overwritten(d) => Overwritten(d)'
  BY ExcusedStays
<1>2. r \in Requests /\ pc'[r] = "index" /\ \A s \in Requests : s # r =>
        pc'[s] = pc[s]
  OBVIOUS
<1>3. ASSUME NEW d \in Requests, op[d] = "DeleteAttachment", pc'[d] \in Saved
      PROVE  target[d] \notin attachments'[project[d]] \/ Overwritten(d)'
  <2>1. CASE d = r
    BY <1>2, <1>3, <2>1
  <2>2. CASE d # r /\ project[d] # project[r]
    BY <1>1, <1>2, <1>3, <2>2 DEF RevokeInv
  <2>3. CASE d # r /\ project[d] = project[r]
    <3>1. pc[d] \in Saved
      BY <1>2, <1>3, <2>3
    <3>2. target[d] \notin list[r] \/ d \in unseen[r] \/ Overwritten(d)
      BY <1>3, <2>3, <3>1 DEF RevokeInv
    <3>3. d \in unseen[r] => Overwritten(d)'
      BY <1>2 DEF Overwritten
    <3>4. target[d] # r
      BY <1>3, <3>1 DEF Made
    <3> QED
      BY <1>1, <2>3, <3>2, <3>3, <3>4
  <2> QED
    BY <2>1, <2>2, <2>3
<1>4. ASSUME NEW d \in Requests, op[d] = "DeleteAttachment", pc'[d] \in Saved,
             NEW s \in On(project[d]), pc'[s] = "save"
      PROVE  target[d] \notin list[s] \/ d \in unseen'[s] \/ Overwritten(d)'
  <2>1. s # r /\ pc[s] = "save"
    BY <1>2, <1>4
  <2>2. CASE d = r
    BY <1>4, <2>1, <2>2
  <2>3. CASE d # r
    <3>1. target[d] \notin list[s] \/ d \in unseen[s] \/ Overwritten(d)
      BY <1>2, <1>4, <2>1, <2>3 DEF RevokeInv
    <3>2. unseen[s] \subseteq unseen'[s]
      BY Lasting DEF Lasts
    <3> QED
      BY <1>1, <3>1, <3>2
  <2> QED
    BY <2>2, <2>3
<1> QED
  BY <1>3, <1>4 DEF RevokeInv

\* A list that is written back lacks only what it has missed.
LEMMA GrantStep ==
  ASSUME TypeOK, MadeInv, GrantInv, NEW r \in Requests, Step(r) \/ Fail(r)
  PROVE  GrantInv'
<1> USE DEF TypeOK, Goto, stores, input, history, Ends, Active, GrantInv,
          MadeInv, Made, On, Saved
<1>1. CASE Refused(r)
  BY ExcusedStays, <1>1 DEF Refused
<1>2. CASE CreateRead(r)
  BY ExcusedStays, <1>2 DEF CreateRead, getAttachments
<1>3. CASE CreateSave(r)
  BY <1>3, SavesAre, GrantSave DEF Step, CreateSave
<1>4. CASE CreateIndex(r)
  BY ExcusedStays, <1>4 DEF CreateIndex, addUserProject
<1>5. ASSUME NEW t \in Requests, DeleteRead(r, t) PROVE GrantInv'
  BY ExcusedStays, <1>5 DEF DeleteRead, getAttachments
<1>6. CASE DeleteSave(r)
  BY <1>6, SavesAre, GrantSave DEF Step, DeleteSave
<1>7. CASE DeleteIndex(r)
  BY ExcusedStays, <1>7 DEF DeleteIndex, removeUserProject
<1>8. CASE Fail(r)
  BY ExcusedStays, <1>8 DEF Fail
<1> QED
  BY <1>1, <1>2, <1>3, <1>4, <1>5, <1>6, <1>7, <1>8 DEF Step

\* Nobody adds an attachment again that was removed but from a list that
\* missed its removal.
LEMMA RevokeStep ==
  ASSUME TypeOK, MadeInv, RevokeInv, NEW r \in Requests, Step(r) \/ Fail(r)
  PROVE  RevokeInv'
<1> USE DEF TypeOK, Goto, stores, input, history, Ends, Active, RevokeInv,
          MadeInv, Made, On, Saved
<1>1. CASE Refused(r)
  BY ExcusedStays, <1>1 DEF Refused
<1>2. CASE CreateRead(r)
  BY ExcusedStays, <1>2 DEF CreateRead, getAttachments
<1>3. CASE CreateSave(r)
  BY <1>3, SavesAre, RevokeSave DEF Step, CreateSave
<1>4. CASE CreateIndex(r)
  BY ExcusedStays, <1>4 DEF CreateIndex, addUserProject
<1>5. ASSUME NEW t \in Requests, DeleteRead(r, t) PROVE RevokeInv'
  BY ExcusedStays, <1>5 DEF DeleteRead, getAttachments
<1>6. CASE DeleteSave(r)
  <2>1. Saves(r, list[r] \ {target[r]}) /\ op[r] = "DeleteAttachment" /\ Step(r)
    BY <1>6, SavesAre DEF Step, DeleteSave
  <2> QED
    BY <2>1, RevokeSave
<1>7. CASE DeleteIndex(r)
  BY ExcusedStays, <1>7 DEF DeleteIndex, removeUserProject
<1>8. CASE Fail(r)
  BY ExcusedStays, <1>8 DEF Fail
<1> QED
  BY <1>1, <1>2, <1>3, <1>4, <1>5, <1>6, <1>7, <1>8 DEF Step

\* Whom a request is about does not change, nor that one was disturbed.
LEMMA DisturbedStays ==
  ASSUME TypeOK, MadeInv, NEW r \in Requests, Step(r) \/ Fail(r)
  PROVE  /\ \A s \in Requests : pc[s] # "start" =>
              About(s)' = About(s) /\ pc'[s] # "start" /\ target'[s] = target[s]
         /\ \A p \in Projects, u \in Users :
              /\ Undisturbed(p, u)' => Undisturbed(p, u)
              /\ HalfDone(p, u) => HalfDone(p, u)'
<1>1. \A s \in Requests : pc[s] # "start" =>
        target'[s] = target[s] /\ pc'[s] # "start"
        /\ (pc[s] = "half_done" => pc'[s] = "half_done")
  BY DEF TypeOK, Step, Fail, Refused, CreateRead, CreateSave, CreateIndex,
     DeleteRead, DeleteSave, DeleteIndex, Goto
<1>2. UNCHANGED input
  BY Lasting DEF Lasts
<1>3. \A s \in Requests : pc[s] # "start" => About(s)' = About(s)
  BY <1>1, <1>2 DEF About, input
<1>4. \A s \in Requests : pc[s] \in Saved =>
        pc'[s] \in Saved /\ unseen[s] \subseteq unseen'[s] /\
          late[s] \subseteq late'[s]
  BY Lasting DEF Lasts
<1>5. ASSUME NEW p \in Projects, NEW u \in Users, Undisturbed(p, u)'
      PROVE  Undisturbed(p, u)
  <2>1. ASSUME NEW s \in Requests, project[s] = p, pc[s] \in Saved
        PROVE  /\ \A t \in unseen[s] : About(t) # u
               /\ About(s) = u => \A t \in late[s] : About(t) # u
    <3>1. project'[s] = p /\ pc'[s] \in Saved /\ About(s)' = About(s)
      BY <1>2, <1>3, <1>4, <2>1 DEF input, Saved
    <3>2. \A t \in unseen[s] \cup late[s] : t \in Requests /\
            About(t)' = About(t)
      BY <1>3, <2>1 DEF MadeInv, On, Saved
    <3>3. /\ \A t \in unseen'[s] : About(t)' # u
          /\ About(s)' = u => \A t \in late'[s] : About(t)' # u
      BY <1>5, <3>1 DEF Undisturbed
    <3> QED
      BY <1>4, <2>1, <3>1, <3>2, <3>3
  <2> QED
    BY <2>1 DEF Undisturbed
<1>6. ASSUME NEW p \in Projects, NEW u \in Users, HalfDone(p, u)
      PROVE  HalfDone(p, u)'
  BY <1>1, <1>2, <1>3, <1>6 DEF HalfDone, On, input
<1> QED
  BY <1>1, <1>3, <1>5, <1>6

\* A save about v leaves what there is of others, and one about u that nobody
\* about u overtakes writes what it read and edited.
LEMMA IndexSave ==
  ASSUME TypeOK, MadeInv, NEW r \in Requests, NEW p \in Projects,
         NEW u \in Users,
         Follows(p, u), Undisturbed(p, u)', Saves(r, Edited(r)), Step(r),
         op[r] = "DeleteAttachment" => target[r] \in list[r]
  PROVE  Follows(p, u)'
<1> USE DEF TypeOK, MadeInv, On, Saved, input
<1>1. /\ pc[r] = "save" /\ pc'[r] = "index" /\ \A s \in Requests : s # r =>
           pc'[s] = pc[s]
      /\ UNCHANGED <<op, project, user, list, target, userProjects>>
      /\ \A s \in Requests : About(s)' = About(s) /\ Edited(s)' = Edited(s)
  BY DEF Saves, About, Edited
<1>2. unseen'[r] = unseen[r] /\ \A s \in Requests :
        unseen[s] \subseteq unseen'[s]
  BY Lasting DEF Lasts, Saves
<1>3. CASE project[r] # p
  <2>1. attachments'[p] = attachments[p] /\ Indexing(p, u)' = Indexing(p, u)
    BY <1>1, <1>3 DEF Saves, Indexing
  <2> QED
    BY <1>1, <1>2, <1>3, <2>1 DEF Follows, Same, Lists, Indexing
<1>4. CASE project[r] = p
  <2>1. attachments'[p] = Edited(r)
    BY <1>4 DEF Saves
  <2>2. \A t \in unseen[r] : About(t) # u
    BY <1>1, <1>2, <1>4 DEF Undisturbed
  <2>3. Same(u, list[r], attachments[p])
    BY <1>1, <1>4, <2>2 DEF Follows
  <2>4. CASE About(r) # u
    <3>1. Same(u, attachments[p], attachments'[p])
      BY <2>1, <2>3, <2>4 DEF Same, Edited, About
    <3>2. Indexing(p, u)' = Indexing(p, u)
      BY <1>1, <2>4 DEF Indexing
    <3>3. ASSUME NEW s \in On(p), pc'[s] = "save", \A t \in unseen'[s] :
                 About(t)' # u
          PROVE  Same(u, list[s], attachments'[p])
      <4>1. pc[s] = "save" /\ \A t \in unseen[s] : t \in Requests /\
              About(t) # u
        BY <1>1, <1>2, <3>3
      <4>2. Same(u, list[s], attachments[p])
        BY <4>1 DEF Follows
      <4> QED
        BY <3>1, <4>2 DEF Same
    <3>4. ASSUME NEW s \in Indexing(p, u)
          PROVE  /\ Indexing(p, u) = {s}
                 /\ Same(u, Edited(s), attachments'[p])
                 /\ Lists(p, u, list[s])
      BY <3>1, <3>4 DEF Follows, Same
    <3>5. Lists(p, u, attachments[p]) => Lists(p, u, attachments'[p])
      BY <3>1, <1>4 DEF Lists, Same, Saves, Edited
    <3> QED
      BY <1>1, <3>2, <3>3, <3>4, <3>5 DEF Follows, Indexing, Lists, Same
  <2>5. CASE About(r) = u
    <3>1. Indexing(p, u) = {}
      <4>1. SUFFICES ASSUME NEW s \in Indexing(p, u) PROVE FALSE
        OBVIOUS
      <4>2. s # r /\ r \in late'[s] /\ pc'[s] \in Saved
        BY <1>1, <1>4, <4>1 DEF Indexing, Saves
      <4> QED
        BY <1>1, <2>5, <4>1, <4>2 DEF Undisturbed, Indexing
    <3>2. Indexing(p, u)' = {r}
      BY <1>1, <1>4, <2>5, <3>1 DEF Indexing
    <3>3. Lists(p, u, list[r])
      BY <2>3, <3>1 DEF Follows, Lists, Same
    <3>4. ASSUME NEW s \in On(p), pc'[s] = "save" PROVE r \in unseen'[s]
      BY <1>1, <1>4, <3>4 DEF Saves
    <3>5. Same(u, Edited(r), attachments'[p])
      BY <2>1 DEF Same
    <3> QED
      BY <1>1, <2>5, <3>2, <3>3, <3>4, <3>5 DEF Follows, Lists, Same
  <2> QED
    BY <2>4, <2>5
<1> QED
  BY <1>3, <1>4

\* What a request writes is made of what it has read.
LEMMA EditedStays ==
  ASSUME NEW s, list'[s] = list[s], UNCHANGED <<op, target>>
  PROVE  Edited(s)' = Edited(s)
BY DEF Edited

\* CreateIndex lists the project for the user of the new attachment, and
\* DeleteIndex unlists it only if that user has no other in the list.
LEMMA FollowsStep ==
  ASSUME TypeOK, MadeInv, NEW p \in Projects, NEW u \in Users,
         Follows(p, u), Undisturbed(p, u)', ~HalfDone(p, u)',
         NEW r \in Requests, Step(r) \/ Fail(r)
  PROVE  Follows(p, u)'
<1> USE DEF TypeOK, MadeInv, Goto, stores, input, history, Ends, Active, Saved,
          On, Follows, Same, Lists, Indexing, Edited, About
<1>1. CASE Refused(r)
  BY <1>1 DEF Refused
<1>2. CASE CreateRead(r)
  <2>1. /\ pc[r] = "start" /\ pc' = [pc EXCEPT ![r] = "save"]
        /\ list' = [list EXCEPT ![r] = attachments[project[r]]]
        /\ UNCHANGED <<stores, op, project, user, target, unseen, late>>
    BY <1>2 DEF CreateRead, getAttachments
  <2>2. \A s \in Indexing(p, u) : list'[s] = list[s] /\ Edited(s)' = Edited(s)
    <3>1. \A s \in Indexing(p, u) : s \in Requests /\ s # r
      BY <2>1
    <3>2. \A s \in Requests : s # r => list'[s] = list[s]
      BY <2>1
    <3>3. \A s : list'[s] = list[s] => Edited(s)' = Edited(s)
      BY <2>1, EditedStays
    <3> HIDE DEF TypeOK, Indexing, Edited
    <3> QED
      BY <3>1, <3>2, <3>3
  <2>3. Indexing(p, u)' = Indexing(p, u) /\ On(p)' = On(p)
    <3>1. \A s \in On(p) : About(s)' = About(s)
      BY <2>1
    <3>2. \A s \in On(p) : pc'[s] = "index" <=> pc[s] = "index"
      BY <2>1
    <3>3. On(p)' = On(p)
      BY <2>1
    <3> HIDE DEF About, On, TypeOK, MadeInv
    <3> QED
      BY <3>1, <3>2, <3>3
  <2>4. \A s : About(s)' = About(s)
    BY <2>1
  <2>5. \A s \in On(p) : pc'[s] = "save" /\ s # r =>
          pc[s] = "save" /\ list'[s] = list[s]
    BY <2>1
  <2>6. r \in On(p) => list'[r] = attachments[p]
    BY <2>1
  <2> HIDE DEF Edited, About, Indexing, On
  <2> QED
    BY <2>1, <2>2, <2>3, <2>4, <2>5, <2>6
<1>3. CASE CreateSave(r)
  <2>1. /\ Saves(r, list[r] \cup {r}) /\ op[r] = "CreateAttachment" /\ Step(r)
        /\ Edited(r) = list[r] \cup {r}
    BY <1>3, SavesAre DEF Step, CreateSave
  <2> HIDE DEF TypeOK, MadeInv, Follows, Edited
  <2> QED
    BY <2>1, IndexSave
<1>4. CASE CreateIndex(r)
  BY <1>4 DEF CreateIndex, addUserProject
<1>5. ASSUME NEW t \in Requests, DeleteRead(r, t) PROVE Follows(p, u)'
  BY <1>5 DEF DeleteRead, getAttachments
<1>6. CASE DeleteSave(r)
  <2>1. /\ Saves(r, list[r] \ {target[r]}) /\ op[r] = "DeleteAttachment" /\
             Step(r)
        /\ Edited(r) = list[r] \ {target[r]} /\ target[r] \in list[r]
    BY <1>6, SavesAre DEF Step, DeleteSave
  <2> HIDE DEF TypeOK, MadeInv, Follows, Edited
  <2> QED
    BY <2>1, IndexSave
<1>7. CASE DeleteIndex(r)
  <2>1. /\ pc[r] = "index" /\ op[r] = "DeleteAttachment" /\
             target[r] \in list[r]
        /\ pc' = [pc EXCEPT ![r] = "done"]
        /\ UNCHANGED <<attachments, op, project, user, list, target, unseen,
             late>>
    BY <1>7 DEF DeleteIndex
  <2>2. CASE project[r] # p \/ user[target[r]] # u
    <3>1. Lists(p, u, attachments[p])' <=> Lists(p, u, attachments[p])
      BY <1>7, <2>1, <2>2 DEF DeleteIndex, removeUserProject
    <3>2. \A s \in On(p) : Lists(p, u, list[s])' <=> Lists(p, u, list[s])
      BY <1>7, <2>1, <2>2 DEF DeleteIndex, removeUserProject
    <3>3. Indexing(p, u)' = Indexing(p, u)
      BY <2>1, <2>2
    <3> HIDE DEF Lists, Indexing
    <3>4. \A s : Edited(s)' = Edited(s) /\ About(s)' = About(s)
      BY <2>1
    <3> HIDE DEF Edited, About
    <3>5. \A s \in On(p) : pc'[s] = "save" => pc[s] = "save"
      BY <2>1
    <3>6. Indexing(p, u) \subseteq On(p) /\ On(p)' = On(p)
      BY <2>1 DEF Indexing
    <3> QED
      BY <2>1, <3>1, <3>2, <3>3, <3>4, <3>5, <3>6
  <2>3. CASE project[r] = p /\ user[target[r]] = u
    <3>1. r \in Indexing(p, u)
      BY <2>1, <2>3
    <3>2. /\ Indexing(p, u) = {r} /\
               Same(u, list[r] \ {target[r]}, attachments[p])
          /\ Lists(p, u, list[r])
      BY <2>1, <3>1
    <3>3. Indexing(p, u)' = {}
      BY <2>1, <3>2
    <3>4. Lists(p, u, attachments[p])'
      BY <1>7, <2>1, <2>3, <3>2 DEF DeleteIndex, removeUserProject, HasRemaining
    <3>5. \A s \in On(p) : pc'[s] = "save" => pc[s] = "save" /\ s # r
      BY <2>1
    <3> HIDE DEF Lists, Indexing
    <3> QED
      BY <2>1, <3>3, <3>4, <3>5
  <2> QED
    BY <2>2, <2>3
<1>8. CASE Fail(r)
  BY <1>8 DEF Fail, HalfDone
<1> QED
  BY <1>1, <1>2, <1>3, <1>4, <1>5, <1>6, <1>7, <1>8 DEF Step

-----------------------------------------------------------------------------

\* The inductive invariant.
IInv == TypeOK /\ MadeInv /\ GrantInv /\ RevokeInv /\ IndexInv

\* In the beginning nobody has an attachment and no user a project.
LEMMA InitIInv == Init => IInv
<1>1. Init => IndexInv
  BY DEF Init, IndexInv, Follows, Same, Lists, Indexing, On
<1> QED
  BY <1>1, InitInv DEF IInv

\* Each part of the invariant is preserved.
LEMMA IInvNext == IInv /\ [Next]_vars => IInv'
<1>1. ASSUME IInv, NEW r \in Requests, Step(r) \/ Fail(r) PROVE IInv'
  <2>1. TypeOK' /\ MadeInv' /\ GrantInv' /\ RevokeInv'
    BY <1>1, TypeStep, MadeStep, GrantStep, RevokeStep DEF IInv
  <2>2. ASSUME NEW p \in Projects, NEW u \in Users,
               Undisturbed(p, u)', ~HalfDone(p, u)'
        PROVE  Follows(p, u)'
    <3>1. Follows(p, u)
      BY <1>1, <2>2, DisturbedStays DEF IInv, IndexInv
    <3> QED
      BY <1>1, <2>2, <3>1, FollowsStep DEF IInv
  <2> QED
    BY <2>1, <2>2 DEF IInv, IndexInv
<1>2. ASSUME IInv, UNCHANGED vars PROVE IInv'
  <2>1. UNCHANGED <<attachments, userProjects, op, project, user, pc, list,
                    target, unseen, late>>
    BY <1>2 DEF vars, stores, input, history
  <2>2. TypeOK' /\ MadeInv'
    BY <1>2, <2>1 DEF IInv, TypeOK, Active, MadeInv, Made, On
  <2>3. GrantInv' /\ RevokeInv'
    BY <1>2, <2>1 DEF IInv, GrantInv, RevokeInv, Excused, Overwritten, On
  <2>4. \A p \in Projects, u \in Users :
          /\ Follows(p, u)' <=> Follows(p, u)
          /\ Undisturbed(p, u)' <=> Undisturbed(p, u)
          /\ HalfDone(p, u)' <=> HalfDone(p, u)
    BY <2>1 DEF Follows, Undisturbed, HalfDone, Same, Lists, Indexing, Edited,
                About, On
  <2> QED
    BY <1>2, <2>2, <2>3, <2>4 DEF IInv, IndexInv
<1> QED
  BY <1>1, <1>2 DEF Next

\* It holds in every reachable state.
LEMMA Inductive == Spec => []IInv
BY InitIInv, IInvNext, PTL DEF Spec

\* For all projects, users, requests and interleavings, with or without
\* failures: the variables have their types.
THEOREM TypeCorrect == Spec => []TypeOK
BY Inductive, PTL DEF IInv

\* For all projects, users, requests, interleavings and failures between two
\* calls: the index that addUserProject and removeUserProject keep lists a
\* project for exactly the users with an attachment in it, except where a
\* request about the user is between its two writes or ended there, or one
\* about the user overtook another on the project.
THEOREM IndexAgreement == Spec => []IndexFollows
<1>1. ASSUME IInv, NEW p \in Projects, NEW u \in Users, Undisturbed(p, u),
             \A r \in Requests : project[r] = p /\
               pc[r] \in {"index", "half_done"} =>
               About(r) # u
      PROVE  p \in userProjects[u] <=> \E a \in attachments[p] : user[a] = u
  <2>1. Indexing(p, u) = {} /\ ~HalfDone(p, u)
    BY <1>1 DEF Indexing, HalfDone, On
  <2> QED
    BY <1>1, <2>1 DEF IInv, IndexInv, Follows, Lists
<1>2. IInv => IndexFollows
  BY <1>1 DEF IndexFollows
<1> QED
  BY <1>2, Inductive, PTL

\* For all requests, interleavings and failures: an attachment whose Create was
\* answered with success is stored until a Delete of it writes, or a request
\* writes back a list that was read before the Create wrote.
THEOREM GrantsStay == Spec => []GrantsKept
<1>1. IInv => GrantsKept
  BY DEF IInv, GrantInv, GrantsKept, Excused, Saved
<1> QED
  BY <1>1, Inductive, PTL

\* For all requests, interleavings and failures: an attachment whose Delete was
\* answered with success comes back only if a request writes back a list that
\* was read before the Delete wrote.
THEOREM RevocationsStay == Spec => []RevocationsKept
<1>1. IInv => RevocationsKept
  BY DEF IInv, RevokeInv, RevocationsKept, Saved
<1> QED
  BY <1>1, Inductive, PTL
=============================================================================
