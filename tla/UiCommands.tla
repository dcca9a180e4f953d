--------------------------------- MODULE UiCommands ---------------------------------
(***************************************************************************)
(* A window of the user interface (App.tsx, minerCommands.ts, api.ts): the *)
(* configuration it shows and edits, and the requests it has sent.  Every  *)
(* await is a point where the user, another request or the backend goes    *)
(* on.  What a handler captured when it was called stays with its call,    *)
(* as in the closures of the code: an edit made since is not in it.  A     *)
(* request the window has given up may still reach the backend.            *)
(***************************************************************************)
EXTENDS Naturals, FiniteSets

CONSTANTS
    Fields,      \* what a configuration holds
    TokenField,  \* web.token
    PathField,   \* the executable of a profile
    MaxCalls,    \* calls in progress at the same time, at most
    Nothing,     \* what a handler holds that needs no configuration any more
    Faults,      \* what may go wrong: "refuse" (an error answer), "timeout"
    MaxEdits, MaxSaves, MaxReloads   \* bounds on a behaviour

ASSUME UiAssumption ==
    /\ TokenField \in Fields /\ PathField \in Fields
    /\ Nothing \notin [content : [Fields -> Nat], number : Nat]
    /\ Faults \subseteq {"refuse", "timeout"}
    /\ MaxCalls \in Nat /\ MaxEdits \in Nat /\ MaxSaves \in Nat /\ MaxReloads \in Nat

VARIABLES
    draft,       \* config and configRef: what the window shows
    dirty,       \* unsaved changes, as the window shows them
    busy,        \* buttons are disabled
    commandBusy, \* commandBusyRef
    token,       \* the token of the last refresh
    call,        \* for each slot, a handler between its first and last step
    reading,     \* refreshes that have not read the configuration yet
    loads,       \* what refreshes have read and not shown yet
    server,      \* the configuration of the backend, and the save that brought it
    puts,        \* saves on their way to the backend, numbered as they were sent
    orders,      \* starts on their way to the backend
    base,        \* what the window was last told the backend holds
    sent,        \* saves sent so far
    newest,      \* the latest of the saves the backend has taken
    edits, reloads,
    picking      \* what open file dialogs will put into the window

windowVars == <<draft, dirty, busy, commandBusy, token, call>>
refreshVars == <<reading, loads, reloads>>
backendVars == <<server, puts, orders, newest>>
vars == <<windowVars, refreshVars, backendVars, base, sent, edits, picking>>

\* A field holds the number of the edit that gave it its value.
Documents == [Fields -> 0..MaxEdits]
Versions == [content : Documents, number : 0..MaxSaves]
Slots == 1..MaxCalls
Nobody == 0   \* the sender of a request the window has given up
Free == [kind |-> "none"]
Commands == {"start", "stop"}
Calls ==
    [kind : {"start", "save", "authorize"}, phase : {"saving", "saved"}, shown : Versions]
    \cup [kind : {"start", "authorize"}, phase : {"sent", "answered"}, shown : {Nothing}]
    \cup [kind : {"stop"}, phase : {"sent"}, shown : {Nothing}]
    \cup [kind : {"download"}, phase : {"sent"}, shown : Versions]
InCommand == {s \in Slots : call[s].kind \in Commands}

UiTypeOK ==
    /\ draft \in Documents /\ server \in Versions /\ base \in Versions
    /\ dirty \in BOOLEAN /\ busy \in BOOLEAN /\ commandBusy \in BOOLEAN
    /\ token \in 0..MaxEdits
    /\ call \in [Slots -> Calls \cup {Free}]
    /\ puts \subseteq [save : Versions, from : Slots \cup {Nobody}]
    /\ orders \subseteq [shown : Versions, from : Slots \cup {Nobody}]
    /\ loads \subseteq Versions /\ reading \in Nat
    /\ sent \in 0..MaxSaves /\ newest \in 0..sent
    /\ edits \in 0..MaxEdits /\ reloads \in 0..MaxReloads
    /\ picking \subseteq Documents

Init ==
    /\ draft = [f \in Fields |-> 0]
    /\ server = [content |-> draft, number |-> 0] /\ base = server
    /\ dirty = FALSE /\ busy = FALSE /\ commandBusy = FALSE /\ token = 0
    /\ call = [s \in Slots |-> Free]
    /\ reading = 0 /\ loads = {} /\ reloads = 0
    /\ puts = {} /\ orders = {} /\ sent = 0 /\ newest = 0 /\ edits = 0 /\ picking = {}

-----------------------------------------------------------------------------
(* What the user does *)

\* mutateMiner, mutateSchedule and the other inputs: none is disabled while a
\* request is in flight.
Edit(f) ==
    /\ edits < MaxEdits
    /\ edits' = edits + 1
    /\ draft' = [draft EXCEPT ![f] = edits + 1]
    /\ dirty' = TRUE
    /\ UNCHANGED <<busy, commandBusy, token, call, refreshVars, backendVars, base, sent, picking>>

Send(s) == \* PUT /api/config with what the handler captured
    /\ sent < MaxSaves
    /\ sent' = sent + 1
    /\ puts' = puts \cup {[save |-> [content |-> draft, number |-> sent + 1], from |-> s]}

\* What the window shows: its next save, or, without unsaved changes, the one
\* it was last told of.
Shown == [content |-> draft, number |-> IF dirty THEN sent + 1 ELSE base.number]

Enters(s, kind, phase, shown) ==
    /\ call[s] = Free /\ \A r \in Slots : call[r] = Free => s <= r
    /\ call' = [call EXCEPT ![s] = [kind |-> kind, phase |-> phase, shown |-> shown]]
    /\ busy' = TRUE

\* The Save button, shown when there is something to save.
SaveClicked(s) ==
    /\ dirty /\ ~busy
    /\ Enters(s, "save", "saving", Shown) /\ Send(s)
    /\ UNCHANGED <<draft, dirty, commandBusy, token, refreshVars, server, orders, newest, base,
                   edits, picking>>

\* Mutation: without the reference beside the state.
CommandAllowedByState == ~busy

\* performMiningAction.
CommandAllowed == ~commandBusy /\ ~busy

\* runMiningCommand: Start, Restart, Force and Start all save unsaved changes
\* first.
StartClicked(s) ==
    /\ CommandAllowed
    /\ commandBusy' = TRUE
    /\ \/ /\ dirty
          /\ Enters(s, "start", "saving", Shown) /\ Send(s)
          /\ UNCHANGED orders
       \/ /\ ~dirty
          /\ Enters(s, "start", "sent", Nothing)
          /\ orders' = orders \cup {[shown |-> Shown, from |-> s]}
          /\ UNCHANGED <<sent, puts>>
    /\ UNCHANGED <<draft, dirty, token, refreshVars, server, newest, base, edits, picking>>

\* Stop and Stop all never save.
StopClicked(s) ==
    /\ CommandAllowed
    /\ commandBusy' = TRUE
    /\ Enters(s, "stop", "sent", Nothing)
    /\ UNCHANGED <<draft, dirty, token, refreshVars, backendVars, base, sent, edits, picking>>

\* rootAuthorizationAction: its buttons are not disabled with the others.
AuthorizeClicked(s) ==
    /\ \/ dirty /\ Enters(s, "authorize", "saving", Shown) /\ Send(s)
       \/ ~dirty /\ Enters(s, "authorize", "sent", Nothing) /\ UNCHANGED <<sent, puts>>
    /\ UNCHANGED <<draft, dirty, commandBusy, token, refreshVars, server, orders, newest, base,
                   edits, picking>>

\* download: the new path goes into the configuration of the moment of the click.
DownloadClicked(s) ==
    /\ ~busy /\ edits < MaxEdits
    /\ edits' = edits + 1
    /\ Enters(s, "download", "sent",
              [content |-> [draft EXCEPT ![PathField] = edits + 1], number |-> 0])
    /\ UNCHANGED <<draft, dirty, commandBusy, token, refreshVars, backendVars, base, sent, picking>>

\* pickExecutable: no button is disabled while its dialog is open.  One that is
\* canceled changes nothing: here it stays open.
PickClicked ==
    /\ edits < MaxEdits
    /\ edits' = edits + 1
    /\ picking' = picking \cup {[draft EXCEPT ![PathField] = edits + 1]}
    /\ UNCHANGED <<windowVars, refreshVars, backendVars, base, sent>>

\* mutateMiner, with the configuration of the moment of the click.
Picked ==
    \E c \in picking :
        /\ picking' = picking \ {c}
        /\ draft' = c /\ dirty' = TRUE
        /\ UNCHANGED <<busy, commandBusy, token, call, refreshVars, backendVars, base, sent, edits>>

\* runBackendAction: the backend was started, restarted or repaired, and the
\* window loads everything again.
BackendAction ==
    /\ reloads < MaxReloads
    /\ reloads' = reloads + 1
    /\ reading' = reading + 1
    /\ UNCHANGED <<windowVars, loads, backendVars, base, sent, edits, picking>>

-----------------------------------------------------------------------------
(* The backend *)

\* A save is taken, in whatever order saves arrive; the sender may be gone.
TakeSave(p) ==
    /\ p \in puts
    /\ puts' = puts \ {p}
    /\ server' = p.save
    /\ newest' = IF p.save.number > newest THEN p.save.number ELSE newest
    /\ call' = [s \in Slots |-> IF s = p.from THEN [call[s] EXCEPT !.phase = "saved"] ELSE call[s]]
    /\ UNCHANGED <<draft, dirty, busy, commandBusy, token, refreshVars, orders, base, sent,
                   edits, picking>>

\* A start reads the configuration when it is executed.
ExecuteStart(o) ==
    /\ o \in orders
    /\ orders' = orders \ {o}
    /\ call' = [s \in Slots |-> IF s = o.from THEN [call[s] EXCEPT !.phase = "answered"] ELSE call[s]]
    /\ UNCHANGED <<draft, dirty, busy, commandBusy, token, refreshVars, server, puts, newest,
                   base, sent, edits, picking>>

-----------------------------------------------------------------------------
(* What the window does with the answers *)

\* The finally clauses.
Ends(s) ==
    /\ call' = [call EXCEPT ![s] = Free]
    /\ busy' = FALSE
    /\ commandBusy' = (commandBusy /\ call[s].kind \notin Commands)

\* Mutation: acknowledged is unchanged.
StillUnsavedNever(content) == FALSE

\* "Edits made while the request was in flight are not silently discarded."
StillUnsaved(content) == draft # content

\* saveConfig goes on.  A changed token makes the window load everything again.
SaveAcknowledged(s) ==
    /\ call[s] # Free /\ call[s].phase = "saved"
    /\ base' = call[s].shown
    /\ dirty' = StillUnsaved(base'.content)
    /\ token' = base'.content[TokenField]
    /\ reading' = IF token' # token THEN reading + 1 ELSE reading
    /\ \/ call[s].kind = "save" /\ Ends(s) /\ UNCHANGED orders
       \/ /\ call[s].kind # "save"
          /\ call' = [call EXCEPT ![s] = [kind |-> @.kind, phase |-> "sent", shown |-> Nothing]]
          /\ orders' = IF call[s].kind = "start"
                       THEN orders \cup {[shown |-> base', from |-> s]} ELSE orders
          /\ UNCHANGED <<busy, commandBusy>>
    /\ UNCHANGED <<draft, loads, reloads, server, puts, newest, sent, edits, picking>>

\* The answer to a start, a stop or an authorization; the authorization brings
\* the draft its grant and changes nothing else in it.
Answered(s) ==
    /\ call[s] # Free
    /\ \/ call[s].phase = "answered"
       \/ call[s].phase = "sent" /\ call[s].kind \in {"stop", "authorize"}
    /\ Ends(s)
    /\ UNCHANGED <<draft, dirty, token, refreshVars, backendVars, base, sent, edits, picking>>

\* mutateMiner, called by a download with the configuration it captured.
Downloaded(s) ==
    /\ call[s].kind = "download"
    /\ draft' = call[s].shown.content
    /\ dirty' = TRUE
    /\ Ends(s)
    /\ UNCHANGED <<token, refreshVars, backendVars, base, sent, edits, picking>>

\* The requests of a call that nobody waits for any more.
Abandon(s) ==
    /\ puts' = {IF p.from = s THEN [p EXCEPT !.from = Nobody] ELSE p : p \in puts}
    /\ UNCHANGED <<draft, dirty, token, refreshVars, server, newest, base, sent, edits, picking>>

AbandonedOrders(s) == {IF o.from = s THEN [o EXCEPT !.from = Nobody] ELSE o : o \in orders}

\* Mutations: a failed save is followed by the start it was for, or leaves the
\* buttons of the commands disabled.
GivesUpAndStarts(s) ==
    /\ "timeout" \in Faults
    /\ call[s] # Free
    /\ Abandon(s)
    /\ Ends(s)
    /\ orders' = IF call[s].kind = "start" /\ call[s].phase = "saving"
                 THEN orders \cup {[shown |-> call[s].shown, from |-> Nobody]}
                 ELSE AbandonedOrders(s)

GivesUpSilently(s) ==
    /\ "timeout" \in Faults
    /\ call[s] # Free
    /\ Abandon(s)
    /\ orders' = AbandonedOrders(s)
    /\ call' = [call EXCEPT ![s] = Free]
    /\ busy' = FALSE
    /\ commandBusy' = (commandBusy /\ (call[s].kind \notin Commands \/ call[s].phase = "saving"))

\* requestJson after its time limit, or a lost answer: the request may be on its
\* way, it is never sent again, and nothing that was to follow it is sent.
GivesUp(s) ==
    /\ "timeout" \in Faults
    /\ call[s] # Free
    /\ Ends(s)
    /\ Abandon(s)
    /\ orders' = AbandonedOrders(s)

\* The backend answers with an error and has done nothing.
Refused(s) ==
    /\ "refuse" \in Faults
    /\ call[s] # Free /\ call[s].phase \in {"saving", "sent"}
    /\ Ends(s)
    /\ puts' = {p \in puts : p.from # s}
    /\ orders' = {o \in orders : o.from # s}
    /\ UNCHANGED <<draft, dirty, token, refreshVars, server, newest, base, sent, edits, picking>>

-----------------------------------------------------------------------------
(* refreshBase *)

\* One that fails changes nothing: it never reads.
RefreshReads ==
    /\ reading > 0
    /\ reading' = reading - 1
    /\ loads' = loads \cup {server}
    /\ UNCHANGED <<windowVars, reloads, backendVars, base, sent, edits, picking>>

\* What was read replaces what the window shows, whatever happened since.
RefreshShows ==
    \E c \in loads :
        /\ loads' = loads \ {c}
        /\ draft' = c.content /\ base' = c
        /\ UNCHANGED <<dirty, busy, commandBusy, token, call, reading, reloads, backendVars,
                       sent, edits, picking>>

-----------------------------------------------------------------------------
Clicks(s) == \/ SaveClicked(s) \/ StartClicked(s) \/ StopClicked(s)
             \/ AuthorizeClicked(s) \/ DownloadClicked(s)

Continues(s) == \/ SaveAcknowledged(s) \/ Answered(s) \/ Downloaded(s)
                \/ GivesUp(s) \/ Refused(s)

Next == \/ \E f \in Fields : Edit(f)
        \/ \E s \in Slots : Clicks(s) \/ Continues(s)
        \/ PickClicked \/ Picked
        \/ BackendAction \/ RefreshReads \/ RefreshShows
        \/ \E p \in puts : TakeSave(p)
        \/ \E o \in orders : ExecuteStart(o)

\* Every request has a time limit (requestJson): a call goes on.
UiFairness == \A s \in Slots : WF_vars(Continues(s))

Spec == Init /\ [][Next]_vars /\ UiFairness

-----------------------------------------------------------------------------
\* At most one mining command is in flight, also when an authorization that ends
\* meanwhile enables the buttons again; and buttons are disabled only for a call.
OneCommand ==
    /\ Cardinality(InCommand) <= 1
    /\ commandBusy <=> InCommand # {}
    /\ busy => \E s \in Slots : call[s] # Free

\* A window without unsaved changes shows what it was last told the backend
\* holds: an edit made while a save, a start or a download was in flight, or a
\* file dialog was open, stays marked as unsaved until it is saved or loaded over.
UnsavedIsMarked == ~dirty => draft = base.content

\* The backend starts mining with what the window showed at the click, or with
\* what a later save brought, unless an older save, given up or crossed by a
\* newer one, arrived last: a start waits for its save, a failed save starts
\* nothing, and a window that has nothing to save shows nothing else.  A start
\* on its way may be executed at any moment.
StartsWhatWasShown ==
    \A o \in orders :
        \/ server = o.shown
        \/ server.number > o.shown.number
        \/ server.number < newest

\* Buttons for commands are never disabled for good.
CommandsEnd == commandBusy ~> ~commandBusy

\* The window promises more in App.tsx: what the user edited during a save is
\* not discarded.  The code does not keep this: a saved token makes the window
\* load the configuration again, and a download or a file dialog puts back the one
\* it captured.
EditsStay ==
    [][\A f \in Fields : draft'[f] >= draft[f]]_vars
=============================================================================
