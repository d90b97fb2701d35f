------------------------------ MODULE PkEngine ------------------------------
(***************************************************************************)
(* The browser side of a pk-engine game: the main loop, the queue of       *)
(* server events it drains each frame, ajax requests that fill it, the     *)
(* viewport it draws, the integrity check it makes, and PK.Error, through  *)
(* which all of them report.  JavaScript runs one callback at a time: an   *)
(* action is a whole callback, an exception in it ends it where it is.     *)
(***************************************************************************)
EXTENDS PkSequences, SequencesExt, FiniteSetsExt

CONSTANTS
    MaxRequests,    \* ajax requests the game makes
    Kinds,          \* what the events made from answers do, see KindsAssumption
    Screens,
    MaxScreens,     \* MAX_SCREENS_LIST_LENGTH
    MaxLeaks        \* handle_error_calls_ is only compared with 0: it stops here

Requests == 1 .. MaxRequests
Ids == Requests \cup {-r : r \in Requests}      \* -r: the event that event r pushes

\* draws asks for a redraw, more pushes another event at its first run, stop prohibits
\* further events, critical raises a critical error, throws fails in another way.
ASSUME KindsAssumption ==
    /\ Kinds \subseteq {"draws", "more", "stop", "critical", "throws"}
    /\ MaxRequests \in Nat /\ MaxScreens \in Nat \ {0} /\ MaxLeaks \in Nat \ {0}

VARIABLES
    frame_requested_,       \* external: the browser will call run_frame_
    queue_,
    can_process_events_,
    handle_error_calls_,
    critical_error_raised_,
    custom_error_handler_,  \* whether the game has set one
    screens_list_,          \* the current screen first
    is_drawing_,
    must_redraw_,
    must_check_integrity_,
    check_integrity_timer_, \* whether it is complete
    installed,              \* the input handlers are still those of the engine
    request,                \* what became of each request
    kind,                   \* what each event does
    arrived,                \* for the properties: events in the order they were pushed,
    first,                  \* and in the order they first ran,
    ran,                    \* how often each ran, twice or more counting as two,
    failures                \* and which parts of a frame have thrown

loop == <<frame_requested_, can_process_events_>>
errors == <<handle_error_calls_, critical_error_raised_>>
viewport == <<screens_list_, is_drawing_, must_redraw_>>
integrity == <<must_check_integrity_, check_integrity_timer_, installed>>
events == <<queue_, kind, arrived, first, ran>>
engineVars == <<loop, errors, custom_error_handler_, viewport, integrity, events, request, failures>>

EngineTypeOK ==
    /\ {frame_requested_, can_process_events_, critical_error_raised_, custom_error_handler_,
        is_drawing_, must_redraw_, must_check_integrity_, check_integrity_timer_, installed}
       \subseteq BOOLEAN
    /\ handle_error_calls_ \in 0 .. MaxLeaks
    /\ queue_ \in Seq(Ids) /\ IsInjective(queue_)
    /\ screens_list_ \in BoundedSeq(Screens, MaxScreens)
    /\ request \in [Requests -> {"unsent", "sent", "answered"}]
    /\ kind \in [Requests -> Kinds \cup {"none"}]
    /\ ran \in [Ids -> 0 .. 2]
    /\ failures \subseteq {"event", "integrity", "draw"}

EngineInit ==
    /\ frame_requested_ = FALSE
    /\ queue_ = <<>>
    /\ can_process_events_ = TRUE
    /\ handle_error_calls_ = 0 /\ critical_error_raised_ = FALSE
    /\ custom_error_handler_ = FALSE
    /\ screens_list_ = <<>> /\ is_drawing_ = FALSE /\ must_redraw_ = FALSE
    /\ must_check_integrity_ = TRUE /\ check_integrity_timer_ = FALSE /\ installed = TRUE
    /\ request = [r \in Requests |-> "unsent"]
    /\ kind = [r \in Requests |-> "none"]
    /\ arrived = <<>> /\ first = <<>>
    /\ ran = [id \in Ids |-> 0]
    /\ failures = {}
-----------------------------------------------------------------------------
(* PK.Error *)

Leak(n) == IF n < MaxLeaks THEN n + 1 ELSE n

\* Mutant of Failed: the flag of a critical error stays up.
FailedRaised ==
    /\ critical_error_raised_' = TRUE
    /\ handle_error_calls_' = IF custom_error_handler_ THEN handle_error_calls_
                                                       ELSE Leak(handle_error_calls_)

\* handle_error, when its callback throws: the handler takes the error, or it is thrown on
\* and the decrement of the depth is skipped.
Failed ==
    /\ critical_error_raised_' = FALSE
    /\ handle_error_calls_' = IF custom_error_handler_ THEN handle_error_calls_
                                                       ELSE Leak(handle_error_calls_)

\* A critical error throws, unless one is taken to be under way: then it is only logged.
CriticalThrows == ~critical_error_raised_

\* critical_error in a callback without handle_error: the depth tells whether there is one.
Dangling ==
    IF ~CriticalThrows THEN UNCHANGED errors
    ELSE IF handle_error_calls_ > 0
         THEN critical_error_raised_' = TRUE /\ UNCHANGED handle_error_calls_
         ELSE Failed

\* set_custom_error_handler
SetErrorHandler ==
    /\ custom_error_handler_' = TRUE
    /\ UNCHANGED <<loop, errors, viewport, integrity, events, request, failures>>
-----------------------------------------------------------------------------
(* Ajax *)

\* do_request
Send(r) ==
    /\ request[r] = "unsent"
    /\ request' = [request EXCEPT ![r] = "sent"]
    /\ UNCHANGED <<loop, errors, custom_error_handler_, viewport, integrity, events, failures>>

Answered(r) ==
    /\ request[r] = "sent"
    /\ request' = [request EXCEPT ![r] = "answered"]
    /\ UNCHANGED <<loop, custom_error_handler_, viewport, integrity, failures>>

\* Mutant of Push: the last comes first.
PushFirst(q, id) == <<id>> \o q

\* Mutant of Push: an answer takes the place of those before it.
PushOver(q, id) == <<id>>

\* EventQueue.push
Push(q, id) == Append(q, id)

\* success, with data: requests are answered in any order.
AnswerData(r, k) ==
    /\ Answered(r)
    /\ kind' = [kind EXCEPT ![r] = k]
    /\ queue_' = Push(queue_, r)
    /\ arrived' = Append(arrived, r)
    /\ UNCHANGED <<errors, first, ran>>

\* success, with nothing or with what cannot be parsed, and error, for other statuses:
\* default_error_handler and do_request raise a critical error.
AnswerBad(r) == Answered(r) /\ Dangling /\ UNCHANGED events

\* error, when the server cannot be reached: on_server_conn_error is told, if there is one.
AnswerLost(r) == Answered(r) /\ UNCHANGED <<errors, events>>
-----------------------------------------------------------------------------
(* Viewport: what the callbacks of the screens and of the game call *)

IsReady == screens_list_ # <<>>

\* show_screen_: the screen is shown, and a redraw requested.
Shown(list) == screens_list_' = list /\ must_redraw_' = TRUE /\ UNCHANGED is_drawing_

\* Mutant of ShowScreen: the list grows past its limit.
ShowScreenMore(s) ==
    /\ Shown(<<s>> \o screens_list_)
    /\ UNCHANGED <<loop, errors, custom_error_handler_, integrity, events, request, failures>>

\* show_screen
ShowScreen(s) ==
    /\ Shown(SubSeq(<<s>> \o screens_list_, 1, Min({MaxScreens, Len(screens_list_) + 1})))
    /\ UNCHANGED <<loop, errors, custom_error_handler_, integrity, events, request, failures>>

\* shift_screens_list
ShiftScreens ==
    /\ IsReady
    /\ screens_list_' = Tail(screens_list_)
    /\ UNCHANGED <<loop, errors, custom_error_handler_, is_drawing_, must_redraw_, integrity,
                   events, request, failures>>

\* request_redraw
RequestRedraw ==
    /\ must_redraw_' = TRUE
    /\ UNCHANGED <<loop, errors, custom_error_handler_, screens_list_, is_drawing_, integrity,
                   events, request, failures>>

\* A mouse callback reaches the current screen, inside handle_error.
Input ==
    /\ installed /\ IsReady
    /\ UNCHANGED <<loop, custom_error_handler_, integrity, events, request, failures>>

\* return_to_previous_screen in an input handler: without a previous screen the list is
\* emptied before get_screen fails.
ReturnToPrevious ==
    /\ Input
    /\ IF Len(screens_list_) > 1
       THEN Shown(Tail(screens_list_)) /\ UNCHANGED errors
       ELSE screens_list_' = <<>> /\ Failed /\ UNCHANGED <<is_drawing_, must_redraw_>>

\* The screen's input handler throws.
InputFails(critical) ==
    /\ Input
    /\ critical => CriticalThrows
    /\ Failed
    /\ UNCHANGED viewport

\* Somebody else takes over the mouse events, UserInputHandlers.init takes them back.
LoseHandlers ==
    /\ installed' = ~installed
    /\ UNCHANGED <<loop, errors, custom_error_handler_, viewport, must_check_integrity_,
                   check_integrity_timer_, events, request, failures>>

\* The time between two integrity checks passes.
TimeUp ==
    /\ ~check_integrity_timer_
    /\ check_integrity_timer_' = TRUE
    /\ UNCHANGED <<loop, errors, custom_error_handler_, viewport, must_check_integrity_, installed,
                   events, request, failures>>
-----------------------------------------------------------------------------
(* The main loop *)

\* start, and its timeout.
Start ==
    /\ ~frame_requested_
    /\ frame_requested_' = TRUE
    /\ UNCHANGED <<can_process_events_, errors, custom_error_handler_, viewport, integrity, events,
                   request, failures>>

\* allow_event_processing, prohibit_event_processing
Allow(b) ==
    /\ can_process_events_' = b
    /\ UNCHANGED <<frame_requested_, errors, custom_error_handler_, viewport, integrity, events,
                   request, failures>>

KindOf(id) == IF id > 0 THEN kind[id] ELSE "draws"
EventFails(id) == KindOf(id) = "throws" \/ (KindOf(id) = "critical" /\ CriticalThrows)

\* The events that have not run yet.
New == {id \in Ids : ran[id] = 0}

\* EventQueue.run: where it fails, or 0, and which events it runs, pushed ones included.
FailsAt ==
    LET failing == {i \in DOMAIN queue_ : EventFails(queue_[i])}
    IN  IF can_process_events_ /\ failing # {} THEN Min(failing) ELSE 0
Runs ==
    IF ~can_process_events_ THEN <<>>
    ELSE IF FailsAt > 0 THEN SubSeq(queue_, 1, FailsAt) ELSE queue_
Pushed ==
    LET more == Those(Runs, {id \in New : KindOf(id) = "more"})
    IN  [i \in DOMAIN more |-> -more[i]]
All == IF FailsAt > 0 THEN Runs ELSE Runs \o Pushed

\* Mutant of Left: the queue is never emptied.
LeftAll == queue_ \o Pushed

\* The queue afterwards: emptied by a pass that ran all of it.
Left == IF ~can_process_events_ THEN queue_
        ELSE IF FailsAt > 0 THEN queue_ \o Pushed ELSE <<>>

RunEvents ==
    /\ UNCHANGED kind
    /\ queue_' = Left
    /\ arrived' = arrived \o Pushed
    /\ first' = first \o Those(All, New)
    /\ ran' = [id \in Ids |-> IF id \in ToSet(All) THEN Min({2, ran[id] + 1}) ELSE ran[id]]
    /\ can_process_events_' = (can_process_events_ /\ \A id \in ToSet(Runs) : KindOf(id) # "stop")

\* Redraws that the events of this frame request come before its render.
Redraw == must_redraw_ \/ \E id \in ToSet(All) : KindOf(id) = "draws"

\* Integrity.check, for a game that passes it no handler and no checker of its own: when
\* the input handlers are lost it raises a critical error.
Checks == must_check_integrity_ /\ check_integrity_timer_
CheckThrows == Checks /\ ~installed /\ CriticalThrows

\* Mutant of FrameFails: the next frame is requested at the end of this one.
FrameFailsLast(part) ==
    /\ frame_requested_' = FALSE
    /\ Failed
    /\ failures' = failures \cup {part}

\* The frame throws in one of its parts; the next was requested before them.
FrameFails(part) ==
    /\ frame_requested_' = TRUE
    /\ Failed
    /\ failures' = failures \cup {part}

FrameEventFails ==
    /\ FailsAt > 0
    /\ FrameFails("event")
    /\ UNCHANGED <<screens_list_, is_drawing_, must_check_integrity_, check_integrity_timer_>>
    /\ RunEvents
    /\ must_redraw_' = Redraw

FrameIntegrityFails ==
    /\ CheckThrows
    /\ FailsAt = 0
    /\ FrameFails("integrity")
    /\ must_check_integrity_' = FALSE
    /\ UNCHANGED <<screens_list_, is_drawing_, check_integrity_timer_>>
    /\ RunEvents
    /\ must_redraw_' = Redraw

\* Events and the integrity check pass, and the frame comes to Viewport.draw.
FrameRenders ==
    /\ ~CheckThrows
    /\ FailsAt = 0
    /\ check_integrity_timer_' = (check_integrity_timer_ /\ ~Checks)
    /\ UNCHANGED <<screens_list_, must_check_integrity_>>
    /\ RunEvents

\* The assertion of draw: what it calls a recursive draw throws.
DrawAsserts == IsReady /\ is_drawing_ /\ CriticalThrows

FrameDrawAsserts ==
    /\ DrawAsserts
    /\ FrameFails("draw")
    /\ FrameRenders
    /\ must_redraw_' = Redraw
    /\ UNCHANGED is_drawing_

\* The screen fails to draw, with the flags as draw has set them.
FrameDrawFails ==
    /\ IsReady /\ ~DrawAsserts /\ Redraw
    /\ FrameFails("draw")
    /\ must_redraw_' = FALSE
    /\ is_drawing_' = TRUE
    /\ FrameRenders

\* Nothing fails.  A redraw that the screen requests while it is drawn is like one that
\* RequestRedraw requests right after it.
FrameDone ==
    /\ ~DrawAsserts
    /\ frame_requested_' = TRUE
    /\ UNCHANGED <<errors, failures>>
    /\ IF IsReady /\ Redraw
       THEN must_redraw_' = FALSE /\ is_drawing_' = FALSE
       ELSE must_redraw_' = Redraw /\ UNCHANGED is_drawing_
    /\ FrameRenders

\* run_frame_
Frame ==
    /\ frame_requested_
    /\ UNCHANGED <<custom_error_handler_, installed, request>>
    /\ \/ FrameEventFails
       \/ FrameIntegrityFails
       \/ FrameDrawAsserts
       \/ FrameDrawFails
       \/ FrameDone
-----------------------------------------------------------------------------
EngineNext ==
    \/ \E r \in Requests :
         \/ Send(r)
         \/ \E k \in Kinds : AnswerData(r, k)
         \/ AnswerBad(r)
         \/ AnswerLost(r)
    \/ SetErrorHandler
    \/ \E s \in Screens : ShowScreen(s)
    \/ ShiftScreens
    \/ RequestRedraw
    \/ ReturnToPrevious
    \/ \E critical \in BOOLEAN : InputFails(critical)
    \/ LoseHandlers \/ TimeUp
    \/ Start
    \/ \E b \in BOOLEAN : Allow(b)
    \/ Frame

EngineSpec == EngineInit /\ [][EngineNext]_engineVars
-----------------------------------------------------------------------------
\* Events first run in the order they were pushed, those pushed in the middle of a pass and
\* those behind a failing event included.
FirstRunsInOrder == IsPrefix(first, arrived)

\* Each lasting damage has its own cause: events run again, checks end and drawing stays
\* marked only after an event, a check or a screen has thrown, not after other failures.
DamageHasCause ==
    /\ (\E id \in Ids : ran[id] > 1) => "event" \in failures
    /\ ~must_check_integrity_ => "integrity" \in failures
    /\ is_drawing_ => "draw" \in failures

\* With a handler of errors in place and no trace of earlier ones, no callback leaves a
\* trace: critical errors, in handle_error or not, are not taken for recursive ones later.
ErrorsBalanced ==
    [][custom_error_handler_ /\ handle_error_calls_ = 0 /\ ~critical_error_raised_
       => handle_error_calls_' = 0 /\ ~critical_error_raised_']_engineVars

Waits(id) == frame_requested_ /\ ran[id] = 0 /\ id \in ToSet(queue_)
Behind(id) ==
    \E i, j \in DOMAIN queue_ : queue_[i] = id /\ j < i /\ EventFails(queue_[j])

\* An answer's event is run, whatever frames fail, unless one queued before it fails or the
\* game prohibits events.
EventsRun == \A id \in Ids : Waits(id) ~> ran[id] > 0 \/ Behind(id) \/ ~can_process_events_

\* No event in the queue makes frames fail.
NoneFails == \A i \in DOMAIN queue_ : KindOf(queue_[i]) \notin {"critical", "throws"}

\* A requested redraw is made, if there is a screen, unless events make the frames fail or
\* an earlier screen failed to draw.
RedrawsMade ==
    frame_requested_ /\ must_redraw_ /\ IsReady
      ~> ~must_redraw_ \/ ~IsReady \/ is_drawing_ \/ ~NoneFails

\* Lost input handlers are noticed, unless events make the frames fail or a critical error
\* is taken to be under way.
LossNoticed ==
    frame_requested_ /\ ~installed
      ~> installed \/ "integrity" \in failures \/ critical_error_raised_ \/ ~NoneFails

\* The ends that frames serve, beside events: what is shown is drawn, what is lost is found.
FramesServe == RedrawsMade /\ LossNoticed

\* What the assertion of Viewport.draw says: a draw it stops is a recursive one.  Frames are
\* callbacks of their own, and draw nothing inside a draw.
NoFalseRecursion == [][~FrameDrawAsserts]_engineVars
=============================================================================
