------------------------------ MODULE UiCommands_proofs ------------------------------
(***************************************************************************)
(* The window of the user interface for any fields, any number of calls in *)
(* flight, edits and saves, and any faults: one mining command at a time,  *)
(* unsaved changes are marked, and a start uses what was shown.  The last  *)
(* rests on two ideas: a save on its way carries what its caller holds     *)
(* (PutsWait), and saves are numbered as they are sent, so that what the   *)
(* backend has said of itself stays Known whatever arrives later.          *)
(***************************************************************************)
EXTENDS UiCommands, FiniteSetTheorems, TLAPS

\* A slot is in a command exactly while the buttons of the commands are disabled.
Exclusive ==
    /\ \A r, s \in InCommand : r = s
    /\ commandBusy <=> InCommand # {}
    /\ busy => \E s \in Slots : call[s] # Free

\* A save whose caller still waits carries what the caller holds.
PutsWait ==
    \A p \in puts : p.from # Nobody =>
        call[p.from] # Free /\ call[p.from].phase = "saving" /\ call[p.from].shown = p.save

\* A start whose caller still waits is its only one.
OrdersWait ==
    /\ \A o \in orders : o.from # Nobody => call[o.from].kind = "start" /\ call[o.from].phase = "sent"
    /\ \A o, q \in orders : o.from = q.from /\ o.from # Nobody => o = q

\* Saves on their way have numbers of their own, and the backend has taken none of them.
Numbered ==
    /\ server.number <= newest
    /\ \A p \in puts : p.save.number <= sent /\ p.save.number # newest
    /\ \A p, q \in puts : p.save.number = q.save.number => p = q

\* The backend has held this, and holds it still, or something later, or something
\* that arrived too late.
KnownTo(version, held, latest) ==
    /\ version.number <= latest
    /\ held = version \/ held.number > version.number \/ held.number < latest

Known(version) == KnownTo(version, server, newest)

AllKnown ==
    /\ Known(base)
    /\ \A c \in loads : Known(c)
    /\ \A o \in orders : Known(o.shown)
    /\ \A s \in Slots : call[s] # Free /\ call[s].phase = "saved" => Known(call[s].shown)

UInv == /\ UiTypeOK /\ Exclusive /\ UnsavedIsMarked
        /\ PutsWait /\ OrdersWait /\ Numbered /\ AllKnown
-----------------------------------------------------------------------------
(* Calls *)

Record(kind, phase, shown) == [kind |-> kind, phase |-> phase, shown |-> shown]

LEMMA NobodyIsNoSlot == Nobody \notin Slots
BY UiAssumption DEF Nobody, Slots

LEMMA CallFields ==
    ASSUME NEW c \in Calls
    PROVE  /\ c # Free
           /\ c.kind \in Commands \cup {"save", "authorize", "download"}
           /\ c.phase \in {"saving", "saved", "sent", "answered"}
           /\ c.phase \in {"saving", "saved"} =>
                c.shown \in Versions /\ c.kind \in {"start", "save", "authorize"}
           /\ c.kind \in {"stop", "download"} => c.phase = "sent"
           /\ c.kind = "download" => c.shown \in Versions
           /\ c = Record(c.kind, c.phase, c.shown)
BY DEF Calls, Free, Commands, Record

LEMMA Records ==
    ASSUME NEW kind, NEW phase, NEW shown
    PROVE  /\ Record(kind, phase, shown).kind = kind
           /\ Record(kind, phase, shown).phase = phase
           /\ Record(kind, phase, shown).shown = shown
BY DEF Record

LEMMA InCall ==
    ASSUME UiTypeOK, NEW s \in Slots, call[s] # Free
    PROVE  call[s] \in Calls
BY DEF UiTypeOK

LEMMA FreeIsNoCall ==
    /\ Free.kind \notin Commands \cup {"save", "authorize", "download"}
BY DEF Free, Commands

\* A slot takes another call; the others keep theirs.
LEMMA OneCall ==
    ASSUME UiTypeOK, NEW s \in Slots, NEW c \in Calls, call' = [call EXCEPT ![s] = c]
    PROVE  /\ call' \in [Slots -> Calls \cup {Free}]
           /\ call'[s] = c /\ call'[s] # Free
           /\ \A r \in Slots : r # s => call'[r] = call[r]
BY CallFields DEF UiTypeOK

LEMMA Ended ==
    ASSUME UiTypeOK, NEW s \in Slots, call' = [call EXCEPT ![s] = Free]
    PROVE  /\ call' \in [Slots -> Calls \cup {Free}]
           /\ call'[s] = Free
           /\ \A r \in Slots : r # s => call'[r] = call[r]
BY DEF UiTypeOK

LEMMA Entered ==
    ASSUME UiTypeOK, NEW s \in Slots, NEW kind, NEW phase, NEW shown,
           Record(kind, phase, shown) \in Calls, Enters(s, kind, phase, shown)
    PROVE  /\ call[s] = Free /\ busy' = TRUE
           /\ call' \in [Slots -> Calls \cup {Free}]
           /\ call'[s] # Free
           /\ call'[s].kind = kind /\ call'[s].phase = phase /\ call'[s].shown = shown
           /\ \A r \in Slots : r # s => call'[r] = call[r]
<1> DEFINE c == Record(kind, phase, shown)
<1>1. call' = [call EXCEPT ![s] = c] /\ c \in Calls
  BY DEF Enters, Record
<1>2. c.kind = kind /\ c.phase = phase /\ c.shown = shown
  BY Records
<1> HIDE DEF c
<1>3. /\ call' \in [Slots -> Calls \cup {Free}] /\ call'[s] = c /\ call'[s] # Free
      /\ \A r \in Slots : r # s => call'[r] = call[r]
  BY <1>1, OneCall
<1> QED  BY <1>2, <1>3 DEF Enters

\* A save that is acknowledged is followed by the request it was for.
LEMMA GoesOn ==
    ASSUME UiTypeOK, NEW s \in Slots, call[s] # Free, call[s].kind \in {"start", "authorize"},
           call' = [call EXCEPT ![s] = [kind |-> @.kind, phase |-> "sent", shown |-> Nothing]]
    PROVE  /\ call' \in [Slots -> Calls \cup {Free}]
           /\ call'[s] # Free
           /\ call'[s].kind = call[s].kind /\ call'[s].phase = "sent"
           /\ \A r \in Slots : r # s => call'[r] = call[r]
<1> DEFINE c == Record(call[s].kind, "sent", Nothing)
<1>2. call' = [call EXCEPT ![s] = c]
  BY DEF UiTypeOK, Record
<1>3. c \in Calls
  BY DEF Calls, Record
<1>4. c.kind = call[s].kind /\ c.phase = "sent"
  BY Records
<1> HIDE DEF c
<1> QED  BY <1>2, <1>3, <1>4, OneCall

\* An answer from the backend changes the phase of the caller, if it still waits.
Answers(from, phase) ==
    call' = [s \in Slots |-> IF s = from THEN [call[s] EXCEPT !.phase = phase] ELSE call[s]]

LEMMA AnswerGoesOn ==
    ASSUME UiTypeOK, NEW s \in Slots, call[s] # Free, NEW phase,
           \/ call[s].phase = "saving" /\ phase = "saved"
           \/ call[s].kind = "start" /\ call[s].phase = "sent" /\ phase = "answered",
           Answers(s, phase)
    PROVE  /\ call' \in [Slots -> Calls \cup {Free}]
           /\ call'[s] # Free /\ call'[s].kind = call[s].kind /\ call'[s].phase = phase
           /\ call'[s].shown = call[s].shown
           /\ \A r \in Slots : r # s => call'[r] = call[r]
<1>1. /\ call[s] = Record(call[s].kind, call[s].phase, call[s].shown)
      /\ call \in [Slots -> Calls \cup {Free}] /\ call[s] \in Calls
  BY InCall, CallFields DEF UiTypeOK
<1> DEFINE c == Record(call[s].kind, phase, call[s].shown)
<1>2. [call[s] EXCEPT !.phase = phase] = c
  BY <1>1 DEF Record
<1>3. call' = [call EXCEPT ![s] = c]
  BY <1>1, <1>2 DEF Answers
<1>4. c \in Calls
  BY <1>1 DEF Calls, Record
<1>5. c.kind = call[s].kind /\ c.phase = phase /\ c.shown = call[s].shown
  BY Records
<1> HIDE DEF c
<1> QED  BY <1>3, <1>4, <1>5, OneCall

LEMMA AnswerToNobody ==
    ASSUME UiTypeOK, NEW phase, Answers(Nobody, phase)
    PROVE  call' = call
BY NobodyIsNoSlot DEF UiTypeOK, Answers
-----------------------------------------------------------------------------
(* What the steps that many actions share do *)

LEMMA ShownTyped ==
    ASSUME UiTypeOK, dirty => sent < MaxSaves
    PROVE  /\ Shown \in Versions /\ Shown.content = draft
           /\ Shown.number = IF dirty THEN sent + 1 ELSE base.number
BY UiAssumption DEF UiTypeOK, Shown, Versions

LEMMA NothingIsNoVersion == Nothing \notin Versions
BY UiAssumption DEF Versions, Documents

\* A save is sent with what is shown, under a new number.
LEMMA SaveSent ==
    ASSUME UiTypeOK, NEW s \in Slots, dirty, Send(s)
    PROVE  /\ sent' = sent + 1 /\ sent' \in 0..MaxSaves
           /\ Shown \in Versions /\ Shown.number = sent + 1
           /\ puts' = puts \cup {[save |-> Shown, from |-> s]}
           /\ puts' \subseteq [save : Versions, from : Slots \cup {Nobody}]
<1>1. sent < MaxSaves /\ Shown = [content |-> draft, number |-> sent + 1]
  BY DEF Send, Shown
<1>2. Shown \in Versions
  BY <1>1, ShownTyped
<1>3. puts' = puts \cup {[save |-> Shown, from |-> s]}
  BY <1>1 DEF Send
<1>4. sent' = sent + 1 /\ sent' \in 0..MaxSaves
  BY <1>1, UiAssumption DEF Send, UiTypeOK
<1> QED  BY <1>1, <1>2, <1>3, <1>4 DEF UiTypeOK

LEMMA PutTyped ==
    ASSUME UiTypeOK, NEW p \in puts
    PROVE  /\ p.save \in Versions /\ p.from \in Slots \cup {Nobody}
           /\ p = [save |-> p.save, from |-> p.from]
BY DEF UiTypeOK

LEMMA OrderTyped ==
    ASSUME UiTypeOK, NEW o \in orders
    PROVE  /\ o.shown \in Versions /\ o.from \in Slots \cup {Nobody}
           /\ o = [shown |-> o.shown, from |-> o.from]
BY DEF UiTypeOK

\* A request that nobody waits for any more.
LeftPut(p, s) == IF p.from = s THEN [p EXCEPT !.from = Nobody] ELSE p
LeftOrder(o, s) == IF o.from = s THEN [o EXCEPT !.from = Nobody] ELSE o

LEMMA PutLeft ==
    ASSUME UiTypeOK, NEW s \in Slots, NEW p \in puts
    PROVE  /\ LeftPut(p, s) \in [save : Versions, from : Slots \cup {Nobody}]
           /\ LeftPut(p, s).save = p.save
           /\ LeftPut(p, s).from = IF p.from = s THEN Nobody ELSE p.from
BY PutTyped DEF LeftPut

LEMMA OrderLeft ==
    ASSUME UiTypeOK, NEW s \in Slots, NEW o \in orders
    PROVE  /\ LeftOrder(o, s) \in [shown : Versions, from : Slots \cup {Nobody}]
           /\ LeftOrder(o, s).shown = o.shown
           /\ LeftOrder(o, s).from = IF o.from = s THEN Nobody ELSE o.from
BY OrderTyped DEF LeftOrder

\* A click that saves first, and one that does not.
LEMMA EntersSaving ==
    ASSUME UiTypeOK, NEW s \in Slots, NEW kind \in {"start", "save", "authorize"}, dirty,
           Enters(s, kind, "saving", Shown), Send(s)
    PROVE  /\ call[s] = Free /\ busy' = TRUE
           /\ call' \in [Slots -> Calls \cup {Free}]
           /\ call'[s] # Free
           /\ call'[s].kind = kind /\ call'[s].phase = "saving" /\ call'[s].shown = Shown
           /\ \A r \in Slots : r # s => call'[r] = call[r]
<1>1. Record(kind, "saving", Shown) \in Calls
  BY SaveSent DEF Record, Calls
<1> QED  BY <1>1, Entered

LEMMA EntersSent ==
    ASSUME UiTypeOK, NEW s \in Slots, NEW kind \in {"start", "stop", "authorize"},
           Enters(s, kind, "sent", Nothing)
    PROVE  /\ call[s] = Free /\ busy' = TRUE
           /\ call' \in [Slots -> Calls \cup {Free}]
           /\ call'[s] # Free /\ call'[s].kind = kind /\ call'[s].phase = "sent"
           /\ \A r \in Slots : r # s => call'[r] = call[r]
<1>1. Record(kind, "sent", Nothing) \in Calls
  BY DEF Record, Calls
<1> QED  BY <1>1, Entered

LEMMA EntersDownload ==
    ASSUME UiTypeOK, NEW s \in Slots, DownloadClicked(s)
    PROVE  /\ call[s] = Free /\ busy' = TRUE
           /\ call' \in [Slots -> Calls \cup {Free}]
           /\ call'[s] # Free /\ call'[s].kind = "download" /\ call'[s].phase = "sent"
           /\ \A r \in Slots : r # s => call'[r] = call[r]
           /\ edits' \in 0..MaxEdits
<1> DEFINE v == [content |-> [draft EXCEPT ![PathField] = edits + 1], number |-> 0]
<1>1. edits + 1 \in 0..MaxEdits /\ edits' \in 0..MaxEdits
  BY UiAssumption DEF DownloadClicked, UiTypeOK
<1>2. [draft EXCEPT ![PathField] = edits + 1] \in Documents
  BY <1>1 DEF UiTypeOK, Documents
<1>3. v \in Versions
  BY <1>2, UiAssumption DEF Versions
<1>4. Enters(s, "download", "sent", v)
  BY DEF DownloadClicked
<1> HIDE DEF v
<1>5. Record("download", "sent", v) \in Calls
  BY <1>3 DEF Record, Calls
<1> QED  BY <1>1, <1>4, <1>5, Entered

\* The call of a save or a start that the backend answers.
LEMMA SaveTaken ==
    ASSUME UiTypeOK, PutsWait, NEW p, TakeSave(p)
    PROVE  /\ call' \in [Slots -> Calls \cup {Free}]
           /\ p.from \in Slots =>
                /\ call[p.from] # Free /\ call[p.from].phase = "saving" /\ call[p.from].shown = p.save
                /\ call'[p.from] # Free /\ call'[p.from].kind = call[p.from].kind
                /\ call'[p.from].phase = "saved" /\ call'[p.from].shown = p.save
           /\ \A r \in Slots : r # p.from => call'[r] = call[r]
<1>1. p \in puts /\ Answers(p.from, "saved") /\ p.from \in Slots \cup {Nobody} /\ Nobody \notin Slots
  BY PutTyped, NobodyIsNoSlot DEF TakeSave, Answers
<1>2. CASE p.from \in Slots
  <2>1. call[p.from] # Free /\ call[p.from].phase = "saving" /\ call[p.from].shown = p.save
    BY <1>1, <1>2 DEF PutsWait
  <2> QED  BY <1>1, <1>2, <2>1, AnswerGoesOn
<1>3. CASE p.from = Nobody
  BY <1>1, <1>3, AnswerToNobody DEF UiTypeOK
<1> QED  BY <1>1, <1>2, <1>3

LEMMA StartExecuted ==
    ASSUME UiTypeOK, OrdersWait, NEW o, ExecuteStart(o)
    PROVE  /\ call' \in [Slots -> Calls \cup {Free}]
           /\ o.from \in Slots =>
                /\ call[o.from] # Free /\ call[o.from].kind = "start" /\ call[o.from].phase = "sent"
                /\ call'[o.from] # Free /\ call'[o.from].kind = "start"
                /\ call'[o.from].phase = "answered"
           /\ \A r \in Slots : r # o.from => call'[r] = call[r]
<1>1. /\ o \in orders /\ Answers(o.from, "answered") /\ o.from \in Slots \cup {Nobody}
      /\ Nobody \notin Slots
  BY OrderTyped, NobodyIsNoSlot DEF ExecuteStart, Answers
<1>2. CASE o.from \in Slots
  <2>1. call[o.from] # Free /\ call[o.from].kind = "start" /\ call[o.from].phase = "sent"
    BY <1>1, <1>2, FreeIsNoCall DEF OrdersWait, Commands
  <2> QED  BY <1>1, <1>2, <2>1, AnswerGoesOn
<1>3. CASE o.from = Nobody
  BY <1>1, <1>3, AnswerToNobody DEF UiTypeOK
<1> QED  BY <1>1, <1>2, <1>3

-----------------------------------------------------------------------------
(* Each part of the invariant is preserved *)

LEMMA TypeStep ==
    ASSUME UiTypeOK, PutsWait, OrdersWait, Numbered, Next
    PROVE  UiTypeOK'
<1> USE UiAssumption
<1>1. ASSUME NEW f \in Fields, Edit(f)
      PROVE  UiTypeOK'
  <2>1. edits' \in 0..MaxEdits /\ edits + 1 \in 0..MaxEdits
    BY <1>1 DEF Edit, UiTypeOK
  <2>2. draft' \in Documents
    BY <1>1, <2>1 DEF Edit, UiTypeOK, Documents
  <2> QED  BY <1>1, <2>1, <2>2 DEF Edit, UiTypeOK, refreshVars, backendVars
<1>2. ASSUME NEW s \in Slots, SaveClicked(s)
      PROVE  UiTypeOK'
  <2>1. dirty /\ Enters(s, "save", "saving", Shown) /\ Send(s)
    BY <1>2 DEF SaveClicked
  <2>2. call' \in [Slots -> Calls \cup {Free}] /\ busy' = TRUE
    BY <2>1, EntersSaving
  <2>3. sent' = sent + 1 /\ sent' \in 0..MaxSaves
        /\ puts' \subseteq [save : Versions, from : Slots \cup {Nobody}]
    BY <2>1, SaveSent
  <2> QED  BY <1>2, <2>2, <2>3 DEF SaveClicked, UiTypeOK, refreshVars
<1>3. ASSUME NEW s \in Slots, StartClicked(s)
      PROVE  UiTypeOK'
  <2>1. CASE dirty
    <3>1. Enters(s, "start", "saving", Shown) /\ Send(s) /\ UNCHANGED orders
      BY <1>3, <2>1 DEF StartClicked
    <3>2. call' \in [Slots -> Calls \cup {Free}] /\ busy' = TRUE
      BY <2>1, <3>1, EntersSaving
    <3>3. sent' = sent + 1 /\ sent' \in 0..MaxSaves
          /\ puts' \subseteq [save : Versions, from : Slots \cup {Nobody}]
      BY <2>1, <3>1, SaveSent
    <3> QED  BY <1>3, <3>1, <3>2, <3>3 DEF StartClicked, UiTypeOK, refreshVars
  <2>2. CASE ~dirty
    <3>1. /\ Enters(s, "start", "sent", Nothing)
          /\ orders' = orders \cup {[shown |-> Shown, from |-> s]} /\ UNCHANGED <<sent, puts>>
      BY <1>3, <2>2 DEF StartClicked
    <3>2. call' \in [Slots -> Calls \cup {Free}] /\ busy' = TRUE
      BY <3>1, EntersSent
    <3>3. Shown \in Versions
      BY <2>2, ShownTyped
    <3> QED  BY <1>3, <3>1, <3>2, <3>3 DEF StartClicked, UiTypeOK, refreshVars
  <2> QED  BY <2>1, <2>2
<1>4. ASSUME NEW s \in Slots, StopClicked(s)
      PROVE  UiTypeOK'
  <2>1. call' \in [Slots -> Calls \cup {Free}] /\ busy' = TRUE
    BY <1>4, EntersSent DEF StopClicked
  <2> QED  BY <1>4, <2>1 DEF StopClicked, UiTypeOK, refreshVars, backendVars
<1>5. ASSUME NEW s \in Slots, AuthorizeClicked(s)
      PROVE  UiTypeOK'
  <2>1. CASE dirty
    <3>1. Enters(s, "authorize", "saving", Shown) /\ Send(s)
      BY <1>5, <2>1 DEF AuthorizeClicked
    <3>2. call' \in [Slots -> Calls \cup {Free}] /\ busy' = TRUE
      BY <2>1, <3>1, EntersSaving
    <3>3. sent' = sent + 1 /\ sent' \in 0..MaxSaves
          /\ puts' \subseteq [save : Versions, from : Slots \cup {Nobody}]
      BY <2>1, <3>1, SaveSent
    <3> QED  BY <1>5, <3>1, <3>2, <3>3 DEF AuthorizeClicked, UiTypeOK, refreshVars
  <2>2. CASE ~dirty
    <3>1. Enters(s, "authorize", "sent", Nothing) /\ UNCHANGED <<sent, puts>>
      BY <1>5, <2>2 DEF AuthorizeClicked
    <3>2. call' \in [Slots -> Calls \cup {Free}] /\ busy' = TRUE
      BY <3>1, EntersSent
    <3> QED  BY <1>5, <3>1, <3>2 DEF AuthorizeClicked, UiTypeOK, refreshVars
  <2> QED  BY <2>1, <2>2
<1>6. ASSUME NEW s \in Slots, DownloadClicked(s)
      PROVE  UiTypeOK'
  <2>1. call' \in [Slots -> Calls \cup {Free}] /\ busy' = TRUE /\ edits' \in 0..MaxEdits
    BY <1>6, EntersDownload
  <2> QED  BY <1>6, <2>1 DEF DownloadClicked, UiTypeOK, refreshVars, backendVars
<1>7. CASE PickClicked \/ Picked \/ BackendAction
  <2>1. CASE PickClicked
    <3>1. edits + 1 \in 0..MaxEdits /\ edits' \in 0..MaxEdits
      BY <2>1 DEF PickClicked, UiTypeOK
    <3>2. picking' \subseteq Documents
      BY <2>1, <3>1 DEF PickClicked, UiTypeOK, Documents
    <3> QED  BY <2>1, <3>1, <3>2 DEF PickClicked, UiTypeOK, windowVars, refreshVars, backendVars
  <2>2. CASE Picked
    BY <2>2 DEF Picked, UiTypeOK, refreshVars, backendVars
  <2>3. CASE BackendAction
    BY <2>3 DEF BackendAction, UiTypeOK, windowVars, backendVars
  <2> QED  BY <1>7, <2>1, <2>2, <2>3
<1>8. ASSUME NEW p \in puts, TakeSave(p)
      PROVE  UiTypeOK'
  <2>1. call' \in [Slots -> Calls \cup {Free}]
    BY <1>8, SaveTaken
  <2>2. p.save \in Versions /\ p.save.number \in 0..MaxSaves
    BY PutTyped DEF Versions
  <2>3. newest' \in 0..sent
    BY <1>8, <2>2 DEF TakeSave, Numbered, UiTypeOK
  <2> QED  BY <1>8, <2>1, <2>2, <2>3 DEF TakeSave, UiTypeOK, refreshVars
<1>9. ASSUME NEW o \in orders, ExecuteStart(o)
      PROVE  UiTypeOK'
  <2>1. call' \in [Slots -> Calls \cup {Free}]
    BY <1>9, StartExecuted
  <2> QED  BY <1>9, <2>1 DEF ExecuteStart, UiTypeOK, refreshVars
<1>10. ASSUME NEW s \in Slots, SaveAcknowledged(s)
       PROVE  UiTypeOK'
  <2>1. /\ call[s] # Free /\ call[s].phase = "saved" /\ call[s].shown \in Versions
        /\ call[s].kind \in {"start", "save", "authorize"} /\ base' = call[s].shown
    BY <1>10, InCall, CallFields DEF SaveAcknowledged
  <2>2. base' \in Versions /\ base'.content[TokenField] \in 0..MaxEdits
    BY <2>1 DEF Versions, Documents
  <2>3. call' \in [Slots -> Calls \cup {Free}] /\ busy' \in BOOLEAN /\ commandBusy' \in BOOLEAN
        /\ orders' \subseteq [shown : Versions, from : Slots \cup {Nobody}]
    <3>1. CASE Ends(s) /\ UNCHANGED orders
      BY <3>1, Ended DEF Ends, UiTypeOK
    <3>2. CASE ~ (Ends(s) /\ UNCHANGED orders)
      BY <1>10, <2>1, <2>2, <3>2, GoesOn DEF SaveAcknowledged, UiTypeOK
    <3> QED  BY <3>1, <3>2
  <2>4. dirty' \in BOOLEAN /\ token' \in 0..MaxEdits /\ reading' \in Nat
    BY <1>10, <2>2 DEF SaveAcknowledged, StillUnsaved, UiTypeOK
  <2>5. UNCHANGED <<draft, loads, reloads, server, puts, newest, sent, edits, picking>>
    BY <1>10 DEF SaveAcknowledged
  <2> QED  BY <2>2, <2>3, <2>4, <2>5 DEF UiTypeOK
<1>11. ASSUME NEW s \in Slots, Answered(s) \/ Downloaded(s) \/ GivesUp(s) \/ Refused(s)
       PROVE  UiTypeOK'
  <2>1. call' \in [Slots -> Calls \cup {Free}] /\ busy' = FALSE /\ commandBusy' \in BOOLEAN
    BY <1>11, Ended DEF Answered, Downloaded, GivesUp, Refused, Ends, UiTypeOK
  <2>2. CASE Answered(s)
    BY <2>1, <2>2 DEF Answered, UiTypeOK, refreshVars, backendVars
  <2>3. CASE Downloaded(s)
    <3>1. call[s] \in Calls /\ call[s].shown \in Versions
      BY <2>3, InCall, CallFields, FreeIsNoCall DEF Downloaded
    <3>2. draft' \in Documents
      BY <2>3, <3>1 DEF Downloaded, Versions
    <3> QED  BY <2>1, <2>3, <3>2 DEF Downloaded, UiTypeOK, refreshVars, backendVars
  <2>4. CASE GivesUp(s)
    <3>1. puts' = {LeftPut(p, s) : p \in puts} /\ orders' = {LeftOrder(o, s) : o \in orders}
      BY <2>4 DEF GivesUp, Abandon, AbandonedOrders, LeftPut, LeftOrder
    <3>2. /\ puts' \subseteq [save : Versions, from : Slots \cup {Nobody}]
          /\ orders' \subseteq [shown : Versions, from : Slots \cup {Nobody}]
      BY <3>1, PutLeft, OrderLeft
    <3> QED  BY <2>1, <2>4, <3>2 DEF GivesUp, Abandon, UiTypeOK, refreshVars
  <2>5. CASE Refused(s)
    BY <2>1, <2>5 DEF Refused, UiTypeOK, refreshVars
  <2> QED  BY <1>11, <2>2, <2>3, <2>4, <2>5
<1>12. CASE RefreshReads \/ RefreshShows
  BY <1>12 DEF RefreshReads, RefreshShows, UiTypeOK, windowVars, backendVars, Versions
<1> QED  BY <1>1, <1>2, <1>3, <1>4, <1>5, <1>6, <1>7, <1>8, <1>9, <1>10, <1>11, <1>12
         DEF Next, Clicks, Continues

\* One command at a time.
LEMMA ExclusiveStep ==
    ASSUME UiTypeOK, Exclusive, PutsWait, OrdersWait, Next
    PROVE  Exclusive'
<1>1. ASSUME NEW s \in Slots, Clicks(s)
      PROVE  Exclusive'
  <2>1. CASE SaveClicked(s) \/ AuthorizeClicked(s) \/ DownloadClicked(s)
    <3>1. /\ call[s] = Free /\ call'[s] # Free /\ call'[s].kind \notin Commands /\ UNCHANGED commandBusy
          /\ \A r \in Slots : r # s => call'[r] = call[r]
      BY <2>1, EntersSaving, EntersSent, EntersDownload
         DEF SaveClicked, AuthorizeClicked, DownloadClicked, Commands
    <3>2. InCommand' = InCommand
      BY <3>1, FreeIsNoCall DEF InCommand
    <3> QED  BY <3>1, <3>2 DEF Exclusive
  <2>2. CASE StartClicked(s) \/ StopClicked(s)
    <3>1. /\ call'[s] # Free /\ call'[s].kind \in Commands /\ commandBusy' = TRUE /\ ~commandBusy
          /\ \A r \in Slots : r # s => call'[r] = call[r]
      BY <2>2, EntersSaving, EntersSent DEF StartClicked, StopClicked, Commands, CommandAllowed
    <3>2. InCommand' = {s}
      BY <3>1 DEF InCommand, Exclusive
    <3> QED  BY <3>1, <3>2 DEF Exclusive
  <2> QED  BY <1>1, <2>1, <2>2 DEF Clicks
<1>2. ASSUME NEW s \in Slots, Ends(s)
      PROVE  Exclusive'
  <2>1. InCommand' = InCommand \ {s} /\ busy' = FALSE
    BY <1>2, Ended, FreeIsNoCall DEF Ends, InCommand
  <2>2. commandBusy' <=> commandBusy /\ s \notin InCommand
    BY <1>2 DEF Ends, InCommand
  <2> QED  BY <2>1, <2>2 DEF Exclusive
<1>3. ASSUME NEW s \in Slots, SaveAcknowledged(s), ~Ends(s)
      PROVE  Exclusive'
  <2>1. call[s] # Free /\ call[s].kind \in {"start", "authorize"}
    BY <1>3, InCall, CallFields DEF SaveAcknowledged
  <2>2. /\ call'[s] # Free /\ call'[s].kind = call[s].kind /\ UNCHANGED <<busy, commandBusy>>
        /\ \A r \in Slots : r # s => call'[r] = call[r]
    BY <1>3, <2>1, GoesOn DEF SaveAcknowledged
  <2>3. InCommand' = InCommand
    BY <2>2 DEF InCommand
  <2> QED  BY <2>2, <2>3 DEF Exclusive
<1>4. CASE (\E p \in puts : TakeSave(p)) \/ (\E o \in orders : ExecuteStart(o))
  <2>1. PICK from : /\ from \in Slots => call[from] # Free /\ call'[from] # Free
                                         /\ call'[from].kind = call[from].kind
                    /\ \A r \in Slots : r # from => call'[r] = call[r]
    BY <1>4, SaveTaken, StartExecuted
  <2>2. InCommand' = InCommand /\ (\E s \in Slots : call[s] # Free) => \E s \in Slots : call'[s] # Free
    BY <2>1 DEF InCommand
  <2> QED  BY <1>4, <2>1, <2>2 DEF Exclusive, TakeSave, ExecuteStart, InCommand
<1>5. CASE \/ (\E f \in Fields : Edit(f)) \/ PickClicked \/ Picked
           \/ BackendAction \/ RefreshReads \/ RefreshShows
  BY <1>5 DEF Edit, PickClicked, Picked, BackendAction, RefreshReads, RefreshShows, windowVars,
              Exclusive, InCommand
<1> QED  BY <1>1, <1>2, <1>3, <1>4, <1>5 DEF Next, Continues, Answered, Downloaded, GivesUp, Refused

\* Unsaved changes are marked.
LEMMA MarkedStep ==
    ASSUME UiTypeOK, UnsavedIsMarked, Next
    PROVE  UnsavedIsMarked'
<1>1. ASSUME NEW s \in Slots, Clicks(s)
      PROVE  UnsavedIsMarked'
  BY <1>1 DEF Clicks, SaveClicked, StartClicked, StopClicked, AuthorizeClicked, DownloadClicked,
              UnsavedIsMarked
<1>2. ASSUME NEW s \in Slots, Continues(s)
      PROVE  UnsavedIsMarked'
  BY <1>2 DEF Continues, SaveAcknowledged, StillUnsaved, Answered, Downloaded, GivesUp, Abandon, Refused,
              UnsavedIsMarked
<1>3. CASE \/ (\E f \in Fields : Edit(f)) \/ PickClicked \/ Picked
           \/ BackendAction \/ RefreshReads \/ RefreshShows
  BY <1>3 DEF Edit, PickClicked, Picked, BackendAction, RefreshReads, RefreshShows, windowVars,
              UnsavedIsMarked
<1>4. CASE (\E p \in puts : TakeSave(p)) \/ (\E o \in orders : ExecuteStart(o))
  BY <1>4 DEF TakeSave, ExecuteStart, UnsavedIsMarked
<1> QED  BY <1>1, <1>2, <1>3, <1>4 DEF Next
-----------------------------------------------------------------------------
(* Requests and their callers *)

LEMMA NoPutOf ==
    ASSUME PutsWait, NEW s \in Slots, ~(call[s] # Free /\ call[s].phase = "saving")
    PROVE  \A p \in puts : p.from # s
BY NobodyIsNoSlot DEF PutsWait

LEMMA NoOrderOf ==
    ASSUME OrdersWait, NEW s \in Slots, ~(call[s].kind = "start" /\ call[s].phase = "sent")
    PROVE  \A o \in orders : o.from # s
BY NobodyIsNoSlot DEF OrdersWait

\* No request is new, and none is left of the call that changes.
LEMMA PutsKeep ==
    ASSUME UiTypeOK, PutsWait, NEW s, puts' \subseteq puts, \A p \in puts' : p.from # s,
           \A r \in Slots : r # s => call'[r] = call[r]
    PROVE  PutsWait'
BY PutTyped DEF PutsWait

LEMMA OrdersKeep ==
    ASSUME UiTypeOK, OrdersWait, NEW s, orders' \subseteq orders, \A o \in orders' : o.from # s,
           \A r \in Slots : r # s => call'[r] = call[r]
    PROVE  OrdersWait'
BY OrderTyped DEF OrdersWait

\* A save is sent for a call that begins.
LEMMA PutsGrow ==
    ASSUME UiTypeOK, PutsWait, NEW s \in Slots, dirty, Send(s), call[s] = Free,
           call'[s] # Free, call'[s].phase = "saving", call'[s].shown = Shown,
           \A r \in Slots : r # s => call'[r] = call[r]
    PROVE  PutsWait'
<1>1. puts' = puts \cup {[save |-> Shown, from |-> s]}
  BY SaveSent
<1>2. \A p \in puts : p.from # s
  BY NoPutOf
<1> SUFFICES ASSUME NEW p \in puts', p.from # Nobody
             PROVE  call'[p.from] # Free /\ call'[p.from].phase = "saving" /\ call'[p.from].shown = p.save
  BY DEF PutsWait
<1>3. CASE p \in puts
  BY <1>2, <1>3, PutTyped DEF PutsWait
<1>4. CASE p = [save |-> Shown, from |-> s]
  BY <1>4
<1> QED  BY <1>1, <1>3, <1>4

LEMMA OrdersGrow ==
    ASSUME UiTypeOK, OrdersWait, NEW s \in Slots, NEW shown,
           orders' = orders \cup {[shown |-> shown, from |-> s]},
           ~(call[s].kind = "start" /\ call[s].phase = "sent"),
           call'[s].kind = "start", call'[s].phase = "sent",
           \A r \in Slots : r # s => call'[r] = call[r]
    PROVE  OrdersWait'
<1> DEFINE n == [shown |-> shown, from |-> s]
<1>1. n.from = s /\ orders' = orders \cup {n}
  OBVIOUS
<1> HIDE DEF n
<1>2. \A o \in orders : o.from # s
  BY NoOrderOf
<1>3. \A o \in orders' : o.from # Nobody => call'[o.from].kind = "start" /\ call'[o.from].phase = "sent"
  BY <1>1, <1>2, OrderTyped DEF OrdersWait
<1>4. \A o, q \in orders' : o.from = q.from /\ o.from # Nobody => o = q
  BY <1>1, <1>2 DEF OrdersWait
<1> QED  BY <1>3, <1>4 DEF OrdersWait

LEMMA Abandoned ==
    ASSUME UiTypeOK, PutsWait, OrdersWait, NEW s \in Slots, GivesUp(s)
    PROVE  PutsWait' /\ OrdersWait'
<1>1. /\ puts' = {LeftPut(p, s) : p \in puts} /\ orders' = {LeftOrder(o, s) : o \in orders}
      /\ \A r \in Slots : r # s => call'[r] = call[r]
  BY Ended DEF GivesUp, Ends, Abandon, AbandonedOrders, LeftPut, LeftOrder
<1>2. \A q \in puts' : q.from # Nobody => q \in puts /\ q.from # s
  <2> SUFFICES ASSUME NEW p \in puts, LeftPut(p, s).from # Nobody
               PROVE  LeftPut(p, s) = p /\ p.from # s
    BY <1>1
  <2> QED  BY PutLeft DEF LeftPut
<1>3. \A q \in orders' : q.from # Nobody => q \in orders /\ q.from # s
  <2> SUFFICES ASSUME NEW o \in orders, LeftOrder(o, s).from # Nobody
               PROVE  LeftOrder(o, s) = o /\ o.from # s
    BY <1>1
  <2> QED  BY OrderLeft DEF LeftOrder
<1> QED  BY <1>1, <1>2, <1>3, PutTyped, OrderTyped DEF PutsWait, OrdersWait

LEMMA WaitStep ==
    ASSUME UiTypeOK, PutsWait, OrdersWait, Next
    PROVE  PutsWait' /\ OrdersWait'
<1>1. ASSUME NEW s \in Slots, Clicks(s)
      PROVE  PutsWait' /\ OrdersWait'
  <2>1. CASE dirty /\ Send(s) /\ UNCHANGED orders
             /\ \E kind \in {"start", "save", "authorize"} : Enters(s, kind, "saving", Shown)
    <3>1. /\ call[s] = Free /\ call'[s] # Free /\ call'[s].phase = "saving" /\ call'[s].shown = Shown
          /\ \A r \in Slots : r # s => call'[r] = call[r]
      BY <2>1, EntersSaving
    <3>2. PutsWait'
      BY <2>1, <3>1, PutsGrow
    <3>3. \A o \in orders : o.from # s
      BY <3>1, FreeIsNoCall, NoOrderOf DEF Commands
    <3> QED  BY <2>1, <3>1, <3>2, <3>3, OrdersKeep
  <2>2. CASE StartClicked(s) /\ ~dirty
    <3>1. /\ Enters(s, "start", "sent", Nothing) /\ UNCHANGED puts
          /\ orders' = orders \cup {[shown |-> Shown, from |-> s]}
      BY <2>2 DEF StartClicked
    <3>2. /\ call[s] = Free /\ call'[s].kind = "start" /\ call'[s].phase = "sent"
          /\ \A r \in Slots : r # s => call'[r] = call[r]
      BY <3>1, EntersSent
    <3>3. OrdersWait'
      BY <3>1, <3>2, FreeIsNoCall, OrdersGrow DEF Commands
    <3>4. \A p \in puts : p.from # s
      BY <3>2, NoPutOf
    <3> QED  BY <3>1, <3>2, <3>3, <3>4, PutsKeep
  <2>3. CASE StopClicked(s) \/ DownloadClicked(s) \/ (AuthorizeClicked(s) /\ ~dirty)
    <3>1. /\ call[s] = Free /\ UNCHANGED <<puts, orders>>
          /\ \A r \in Slots : r # s => call'[r] = call[r]
      BY <2>3, EntersSent, EntersDownload DEF StopClicked, DownloadClicked, AuthorizeClicked, backendVars
    <3>2. (\A p \in puts : p.from # s) /\ (\A o \in orders : o.from # s)
      BY <3>1, NoPutOf, NoOrderOf, FreeIsNoCall DEF Commands
    <3> QED  BY <3>1, <3>2, PutsKeep, OrdersKeep
  <2> QED  BY <1>1, <2>1, <2>2, <2>3 DEF Clicks, SaveClicked, StartClicked, AuthorizeClicked
<1>2. ASSUME NEW s \in Slots, SaveAcknowledged(s)
      PROVE  PutsWait' /\ OrdersWait'
  <2>1. /\ call[s] # Free /\ call[s].phase = "saved" /\ call[s].kind \in {"start", "save", "authorize"}
        /\ UNCHANGED puts
    BY <1>2, InCall, CallFields DEF SaveAcknowledged
  <2>2. (\A p \in puts : p.from # s) /\ (\A o \in orders : o.from # s)
    BY <2>1, NoPutOf, NoOrderOf
  <2>3. CASE Ends(s) /\ UNCHANGED orders
    BY <2>1, <2>2, <2>3, Ended, PutsKeep, OrdersKeep DEF Ends
  <2>4. CASE ~(Ends(s) /\ UNCHANGED orders)
    <3>1. /\ call[s].kind # "save"
          /\ call' = [call EXCEPT ![s] = [kind |-> @.kind, phase |-> "sent", shown |-> Nothing]]
          /\ orders' = IF call[s].kind = "start"
                       THEN orders \cup {[shown |-> base', from |-> s]} ELSE orders
      BY <1>2, <2>4 DEF SaveAcknowledged
    <3>2. /\ call'[s].kind = call[s].kind /\ call'[s].phase = "sent"
          /\ \A r \in Slots : r # s => call'[r] = call[r]
      BY <2>1, <3>1, GoesOn
    <3>3. PutsWait'
      BY <2>1, <2>2, <3>2, PutsKeep
    <3>4. OrdersWait'
      BY <2>1, <2>2, <3>1, <3>2, OrdersGrow, OrdersKeep
    <3> QED  BY <3>3, <3>4
  <2> QED  BY <2>3, <2>4
<1>3. ASSUME NEW s \in Slots, Answered(s) \/ Downloaded(s)
      PROVE  PutsWait' /\ OrdersWait'
  <2>1. /\ call[s] # Free /\ call[s].phase # "saving" /\ UNCHANGED <<puts, orders>>
        /\ ~(call[s].kind = "start" /\ call[s].phase = "sent")
        /\ \A r \in Slots : r # s => call'[r] = call[r]
    BY <1>3, Ended, InCall, CallFields, FreeIsNoCall DEF Answered, Downloaded, Ends, backendVars
  <2>2. (\A p \in puts : p.from # s) /\ (\A o \in orders : o.from # s)
    BY <2>1, NoPutOf, NoOrderOf
  <2> QED  BY <2>1, <2>2, PutsKeep, OrdersKeep
<1>4. ASSUME NEW s \in Slots, GivesUp(s)
      PROVE  PutsWait' /\ OrdersWait'
  BY <1>4, Abandoned
<1>5. ASSUME NEW s \in Slots, Refused(s)
      PROVE  PutsWait' /\ OrdersWait'
  BY <1>5, Ended, PutsKeep, OrdersKeep DEF Refused, Ends
<1>6. ASSUME NEW p \in puts, TakeSave(p)
      PROVE  PutsWait' /\ OrdersWait'
  <2>1. \A r \in Slots : r # p.from => call'[r] = call[r]
    BY <1>6, SaveTaken
  <2>2. puts' = puts \ {p} /\ UNCHANGED orders
    BY <1>6 DEF TakeSave
  <2>3. CASE p.from \in Slots
    <3>1. call[p.from] # Free /\ call[p.from].phase = "saving" /\ call[p.from].shown = p.save
      BY <1>6, <2>3, SaveTaken
    <3>2. \A q \in puts' : q.from # p.from
      BY <2>2, <2>3, <3>1, PutTyped, NobodyIsNoSlot DEF PutsWait
    <3>3. \A o \in orders : o.from # p.from
      BY <2>3, <3>1, NoOrderOf
    <3> QED  BY <2>1, <2>2, <3>2, <3>3, PutsKeep, OrdersKeep
  <2>4. CASE p.from = Nobody
    <3>1. call' = call
      BY <2>4, <1>6, AnswerToNobody DEF TakeSave, Answers
    <3> QED  BY <2>2, <3>1 DEF PutsWait, OrdersWait
  <2> QED  BY <2>3, <2>4, PutTyped
<1>7. ASSUME NEW o \in orders, ExecuteStart(o)
      PROVE  PutsWait' /\ OrdersWait'
  <2>1. \A r \in Slots : r # o.from => call'[r] = call[r]
    BY <1>7, StartExecuted
  <2>2. orders' = orders \ {o} /\ UNCHANGED puts
    BY <1>7 DEF ExecuteStart
  <2>3. CASE o.from \in Slots
    <3>1. call[o.from] # Free /\ call[o.from].phase = "sent"
      BY <1>7, <2>3, StartExecuted
    <3>2. \A q \in orders' : q.from # o.from
      BY <2>2, <2>3, NobodyIsNoSlot DEF OrdersWait
    <3>3. \A p \in puts : p.from # o.from
      BY <2>3, <3>1, NoPutOf
    <3> QED  BY <2>1, <2>2, <3>2, <3>3, PutsKeep, OrdersKeep
  <2>4. CASE o.from = Nobody
    <3>1. call' = call
      BY <2>4, <1>7, AnswerToNobody DEF ExecuteStart, Answers
    <3> QED  BY <2>2, <3>1 DEF PutsWait, OrdersWait
  <2> QED  BY <2>3, <2>4, OrderTyped
<1>8. CASE \/ (\E f \in Fields : Edit(f)) \/ PickClicked \/ Picked
           \/ BackendAction \/ RefreshReads \/ RefreshShows
  BY <1>8 DEF Edit, PickClicked, Picked, BackendAction, RefreshReads, RefreshShows, windowVars, backendVars,
              PutsWait, OrdersWait
<1> QED  BY <1>1, <1>2, <1>3, <1>4, <1>5, <1>6, <1>7, <1>8 DEF Next, Continues
-----------------------------------------------------------------------------
(* Numbers, and what is known *)

LEMMA NumberTyped ==
    ASSUME UiTypeOK
    PROVE  /\ server.number \in Nat /\ base.number \in Nat /\ newest \in Nat /\ sent \in Nat /\ newest <= sent
           /\ \A p \in puts : p.save.number \in Nat
BY UiAssumption DEF UiTypeOK, Versions

LEMMA NumberedSent ==
    ASSUME UiTypeOK, Numbered, NEW s \in Slots, dirty, Send(s), UNCHANGED <<server, newest>>
    PROVE  Numbered'
<1> DEFINE n == [save |-> Shown, from |-> s]
<1>1. puts' = puts \cup {n} /\ sent' = sent + 1 /\ n.save.number = sent + 1
  BY SaveSent
<1> HIDE DEF n
<1>2. \A p \in puts' : p.save.number <= sent' /\ p.save.number # newest
  BY <1>1, NumberTyped DEF Numbered
<1>3. \A p \in puts : p.save.number # sent + 1
  BY NumberTyped DEF Numbered
<1>4. \A p, q \in puts' : p.save.number = q.save.number => p = q
  BY <1>1, <1>3 DEF Numbered
<1> QED  BY <1>2, <1>4 DEF Numbered

LEMMA NumberedStep ==
    ASSUME UiTypeOK, Numbered, Next
    PROVE  Numbered'
<1>1. ASSUME NEW s \in Slots, Clicks(s)
      PROVE  Numbered'
  <2>1. CASE dirty /\ Send(s) /\ UNCHANGED <<server, newest>>
    BY <2>1, NumberedSent
  <2>2. CASE UNCHANGED <<sent, puts, server, newest>>
    BY <2>2 DEF Numbered
  <2> QED  BY <1>1, <2>1, <2>2 DEF Clicks, SaveClicked, StartClicked, StopClicked, AuthorizeClicked,
                                   DownloadClicked, backendVars
<1>2. ASSUME NEW s \in Slots, SaveAcknowledged(s) \/ Answered(s) \/ Downloaded(s) \/ Refused(s)
      PROVE  Numbered'
  <2>1. puts' \subseteq puts /\ UNCHANGED <<server, newest, sent>>
    BY <1>2 DEF SaveAcknowledged, Answered, Downloaded, Refused, backendVars
  <2> QED  BY <2>1 DEF Numbered
<1>3. ASSUME NEW s \in Slots, GivesUp(s)
      PROVE  Numbered'
  <2>1. puts' = {LeftPut(p, s) : p \in puts} /\ UNCHANGED <<server, newest, sent>>
    BY <1>3 DEF GivesUp, Abandon, LeftPut
  <2>2. \A q \in puts' : \E p \in puts : q = LeftPut(p, s) /\ q.save = p.save
    BY <2>1, PutLeft
  <2> QED  BY <2>1, <2>2 DEF Numbered
<1>4. ASSUME NEW p \in puts, TakeSave(p)
      PROVE  Numbered'
  <2>1. /\ puts' = puts \ {p} /\ server' = p.save /\ sent' = sent
        /\ newest' = IF p.save.number > newest THEN p.save.number ELSE newest
    BY <1>4 DEF TakeSave
  <2>2. server'.number <= newest'
    BY <2>1, NumberTyped
  <2>3. \A q \in puts' : q.save.number <= sent' /\ q.save.number # newest'
    BY <2>1, NumberTyped DEF Numbered
  <2> QED  BY <2>1, <2>2, <2>3 DEF Numbered
<1>5. CASE \/ (\E f \in Fields : Edit(f)) \/ PickClicked \/ Picked
           \/ BackendAction \/ RefreshReads \/ RefreshShows
           \/ (\E o \in orders : ExecuteStart(o))
  BY <1>5 DEF Edit, PickClicked, Picked, BackendAction, RefreshReads, RefreshShows, ExecuteStart,
              backendVars, Numbered
<1> QED  BY <1>1, <1>2, <1>3, <1>4, <1>5 DEF Next, Continues

\* Taking another save leaves known what is known: the newest save is not on its way.
LEMMA KnownKept ==
    ASSUME UiTypeOK, Numbered, NEW p \in puts, TakeSave(p), NEW version \in Versions, Known(version)
    PROVE  KnownTo(version, server', newest')
<1>1. /\ server' = p.save /\ p.save.number # newest
      /\ newest' = IF p.save.number > newest THEN p.save.number ELSE newest
  BY DEF TakeSave, Numbered
<1>2. version.number \in Nat /\ p.save.number \in Nat /\ newest \in Nat
  BY NumberTyped, UiAssumption DEF Versions
<1> QED  BY <1>1, <1>2 DEF Known, KnownTo

\* Without unsaved changes, what is shown is what the backend has said it holds.
LEMMA ShownIsBase ==
    ASSUME UiTypeOK, UnsavedIsMarked, ~dirty
    PROVE  Shown = base
<1>1. base = [content |-> base.content, number |-> base.number]
  BY DEF UiTypeOK, Versions
<1> QED  BY <1>1 DEF Shown, UnsavedIsMarked

LEMMA KnownStep ==
    ASSUME UiTypeOK, UnsavedIsMarked, PutsWait, OrdersWait, Numbered, AllKnown, Next
    PROVE  AllKnown'
<1>1. ASSUME NEW s \in Slots, Clicks(s)
      PROVE  AllKnown'
  <2>1. UNCHANGED <<base, loads, server, newest>>
    BY <1>1 DEF Clicks, SaveClicked, StartClicked, StopClicked, AuthorizeClicked, DownloadClicked,
                backendVars, refreshVars
  <2>2. \A o \in orders' : Known(o.shown)
    <3>1. CASE StartClicked(s) /\ ~dirty
      <4> DEFINE n == [shown |-> Shown, from |-> s]
      <4>1. orders' = orders \cup {n} /\ n.shown = base
        BY <3>1, ShownIsBase DEF StartClicked
      <4> HIDE DEF n
      <4> QED  BY <4>1 DEF AllKnown
    <3>2. CASE ~(StartClicked(s) /\ ~dirty)
      BY <1>1, <3>2 DEF Clicks, SaveClicked, StartClicked, StopClicked, AuthorizeClicked, DownloadClicked,
                        backendVars, AllKnown
    <3> QED  BY <3>1, <3>2
  <2>3. call'[s].phase # "saved" /\ \A r \in Slots : r # s => call'[r] = call[r]
    BY <1>1, EntersSaving, EntersSent, EntersDownload
       DEF Clicks, SaveClicked, StartClicked, StopClicked, AuthorizeClicked
  <2> QED  BY <2>1, <2>2, <2>3 DEF AllKnown, Known
<1>2. ASSUME NEW s \in Slots, SaveAcknowledged(s)
      PROVE  AllKnown'
  <2>1. /\ Known(base') /\ UNCHANGED <<loads, server, newest>>
        /\ call[s] # Free /\ call[s].phase = "saved" /\ call[s].kind \in {"start", "save", "authorize"}
    BY <1>2, InCall, CallFields DEF SaveAcknowledged, AllKnown
  <2>2. \A o \in orders' : Known(o.shown)
    <3> DEFINE n == [shown |-> base', from |-> s]
    <3>1. orders' \subseteq orders \cup {n} /\ n.shown = base'
      BY <1>2 DEF SaveAcknowledged
    <3> HIDE DEF n
    <3> QED  BY <2>1, <3>1 DEF AllKnown
  <2>3. /\ call'[s] = Free \/ call'[s].phase = "sent"
        /\ \A r \in Slots : r # s => call'[r] = call[r]
    BY <1>2, <2>1, GoesOn, Ended DEF SaveAcknowledged, Ends
  <2> QED  BY <2>1, <2>2, <2>3 DEF AllKnown, Known
<1>3. ASSUME NEW s \in Slots, Answered(s) \/ Downloaded(s) \/ Refused(s) \/ GivesUp(s)
      PROVE  AllKnown'
  <2>1. /\ call'[s] = Free /\ \A r \in Slots : r # s => call'[r] = call[r]
        /\ UNCHANGED <<base, loads, server, newest>>
    BY <1>3, Ended DEF Answered, Downloaded, Refused, GivesUp, Abandon, Ends, backendVars, refreshVars
  <2>2. \A o \in orders' : Known(o.shown)
    <3>1. CASE GivesUp(s)
      <4>1. orders' = {LeftOrder(o, s) : o \in orders}
        BY <3>1 DEF GivesUp, AbandonedOrders, LeftOrder
      <4> QED  BY <4>1, OrderLeft DEF AllKnown
    <3>2. CASE ~GivesUp(s)
      BY <1>3, <3>2 DEF Answered, Downloaded, Refused, backendVars, AllKnown
    <3> QED  BY <3>1, <3>2
  <2> QED  BY <2>1, <2>2 DEF AllKnown, Known
<1>4. ASSUME NEW p \in puts, TakeSave(p)
      PROVE  AllKnown'
  <2>1. UNCHANGED <<base, loads, orders>> /\ server' = p.save
    BY <1>4 DEF TakeSave, refreshVars
  <2>2. KnownTo(base, server', newest')
    BY <1>4, KnownKept DEF AllKnown, UiTypeOK
  <2>3. \A c \in loads : KnownTo(c, server', newest')
    BY <1>4, KnownKept DEF AllKnown, UiTypeOK
  <2>4. \A o \in orders : KnownTo(o.shown, server', newest')
    BY <1>4, KnownKept, OrderTyped DEF AllKnown
  <2>5. ASSUME NEW r \in Slots, call'[r] # Free, call'[r].phase = "saved"
        PROVE  KnownTo(call'[r].shown, server', newest')
    <3>1. CASE r = p.from
      <4>1. call'[r].shown = server'
        BY <1>4, <2>1, <3>1, SaveTaken
      <4>2. server'.number <= newest'
        BY <1>4, NumberTyped DEF TakeSave
      <4> QED  BY <4>1, <4>2 DEF KnownTo
    <3>2. CASE r # p.from
      <4>1. call'[r] = call[r]
        BY <1>4, <3>2, SaveTaken
      <4>2. call[r].shown \in Versions /\ Known(call[r].shown)
        BY <2>5, <4>1, InCall, CallFields DEF AllKnown
      <4> QED  BY <1>4, <4>1, <4>2, KnownKept
    <3> QED  BY <3>1, <3>2
  <2> QED  BY <2>1, <2>2, <2>3, <2>4, <2>5 DEF AllKnown, Known
<1>5. ASSUME NEW o \in orders, ExecuteStart(o)
      PROVE  AllKnown'
  <2>1. UNCHANGED <<base, loads, server, newest>> /\ orders' \subseteq orders
    BY <1>5 DEF ExecuteStart, refreshVars
  <2>2. \A r \in Slots : call'[r] = call[r] \/ call'[r].phase = "answered"
    BY <1>5, StartExecuted
  <2> QED  BY <2>1, <2>2 DEF AllKnown, Known
<1>6. CASE RefreshReads \/ RefreshShows
  <2>1. Known(server)
    BY DEF Numbered, Known, KnownTo
  <2> QED  BY <1>6, <2>1 DEF RefreshReads, RefreshShows, windowVars, backendVars, AllKnown, Known
<1>7. CASE (\E f \in Fields : Edit(f)) \/ PickClicked \/ Picked \/ BackendAction
  BY <1>7 DEF Edit, PickClicked, Picked, BackendAction, windowVars, refreshVars, backendVars,
              AllKnown, Known
<1> QED  BY <1>1, <1>2, <1>3, <1>4, <1>5, <1>6, <1>7 DEF Next, Continues

-----------------------------------------------------------------------------
(* The theorems *)

LEMMA UInvInit == Init => UInv
<1> SUFFICES ASSUME Init
             PROVE  UInv
  OBVIOUS
<1> USE UiAssumption
<1>1. draft \in Documents /\ server \in Versions /\ base = server /\ server.number = 0
  BY DEF Init, Documents, Versions
<1>2. UiTypeOK
  <2>1. call \in [Slots -> Calls \cup {Free}]
    BY DEF Init
  <2>2. /\ 0 \in 0..MaxEdits /\ 0 \in 0..MaxSaves /\ 0 \in 0..MaxReloads /\ 0 \in 0..0
    OBVIOUS
  <2> QED  BY <1>1, <2>1, <2>2 DEF Init, UiTypeOK
<1>3. Exclusive
  BY FreeIsNoCall DEF Init, Exclusive, InCommand
<1>4. UnsavedIsMarked
  BY DEF Init, UnsavedIsMarked
<1>5. PutsWait /\ OrdersWait /\ Numbered
  BY <1>1 DEF Init, PutsWait, OrdersWait, Numbered
<1>6. AllKnown
  BY <1>1 DEF Init, AllKnown, Known, KnownTo
<1> QED  BY <1>2, <1>3, <1>4, <1>5, <1>6 DEF UInv

LEMMA UInvNext == UInv /\ [Next]_vars => UInv'
<1> SUFFICES ASSUME UInv, [Next]_vars
             PROVE  UInv'
  OBVIOUS
<1>1. CASE Next
  BY <1>1, TypeStep, ExclusiveStep, MarkedStep, WaitStep, NumberedStep, KnownStep DEF UInv
<1>2. CASE UNCHANGED vars
  BY <1>2 DEF vars, windowVars, refreshVars, backendVars, UInv, UiTypeOK, Exclusive, InCommand,
              UnsavedIsMarked, PutsWait, OrdersWait, Numbered, AllKnown, Known
<1> QED  BY <1>1, <1>2

LEMMA WindowInvariance == Spec => []UInv
BY UInvInit, UInvNext, PTL DEF Spec

\* Every variable of the window keeps its type; in particular a call that waits for its
\* save holds the version it has sent.
THEOREM WindowTyped == Spec => []UiTypeOK
<1>1. UInv => UiTypeOK
  BY DEF UInv
<1> QED  BY <1>1, WindowInvariance, PTL

\* For any number of calls in flight: no two mining commands are, the buttons of the
\* commands are disabled exactly while one is, and all the buttons only for a call.
THEOREM CommandsExclude == Spec => []OneCommand
<1>1. UInv => OneCommand
  <2> SUFFICES ASSUME Exclusive
               PROVE  OneCommand
    BY DEF UInv
  <2>1. InCommand = {} \/ \E s \in InCommand : InCommand = {s}
    BY DEF Exclusive
  <2>2. Cardinality(InCommand) <= 1
    BY <2>1, FS_EmptySet, FS_Singleton
  <2> QED  BY <2>2 DEF Exclusive, OneCommand
<1> QED  BY <1>1, WindowInvariance, PTL

\* For any number of edits, saves, downloads and loads, in any order: what a window shows
\* without marking it as unsaved is what it was last told the backend holds.
THEOREM UnsavedStaysMarked == Spec => []UnsavedIsMarked
<1>1. UInv => UnsavedIsMarked
  BY DEF UInv
<1> QED  BY <1>1, WindowInvariance, PTL

\* For any number of requests, on their way for any time and arriving in any order: a start
\* the window has sent finds what was shown at the click, what a later save brought, or
\* what a save that arrived too late has put back.
THEOREM StartsAreShown == Spec => []StartsWhatWasShown
<1>1. UInv => StartsWhatWasShown
  BY DEF UInv, AllKnown, Known, KnownTo, StartsWhatWasShown
<1> QED  BY <1>1, WindowInvariance, PTL
=============================================================================
