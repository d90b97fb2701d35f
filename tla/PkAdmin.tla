------------------------------ MODULE PkAdmin -------------------------------
(***************************************************************************)
(* The pages of pk-admin: the address in the browser, PK.navigation, which *)
(* shows the topic it names, and two topics made by make_table_view and    *)
(* make_table_element_editor.  Both build their panel late, when columns,  *)
(* properties or the record have come, and the user need not wait.         *)
(***************************************************************************)
EXTENDS Integers, Sequences, SequencesExt, FiniteSets

CONSTANTS
    Elements,       \* ids of elements in the table
    Deferred,       \* the topics whose columns or properties come by a callback
    MaxInits,       \* panels being built at once
    MaxSaves,       \* requests to save under way at once
    NoPanel

Topics == {"table", "editor"}
Pages == {"table", "new", "missing"} \cup Elements     \* a topic with its parameters

ASSUME AdminAssumption ==
    /\ Deferred \subseteq Topics /\ MaxInits \in Nat \ {0} /\ MaxSaves \in Nat
    /\ NoPanel \notin Pages /\ Elements \cap {"table", "new", "missing"} = {}

TopicOf(page) ==
    IF page = "table" THEN "table" ELSE IF page = "missing" THEN "none" ELSE "editor"

VARIABLES
    hash,           \* external: the address
    seen,           \* external: the address Ext.History last looked at
    last_topic_,
    panel_,         \* of each topic, known by the page it was built for
    general_properties_panel_,
    left,           \* the panels in the main module that no topic knows any more
    inits,          \* the panels being built: page, and what each waits for
    saves,          \* the requests to save: whose id and whose data they hold
    dialog,         \* the message box
    showing,        \* for the properties: the page last asked for,
    overlapped,     \* the pages that were being built when another was asked for, and those
                    \* that were asked for while others were being built,
    failed          \* and whether columns or a record never came

page_vars == <<last_topic_, panel_, general_properties_panel_, left, inits>>
adminVars == <<hash, seen, page_vars, saves, dialog, showing, overlapped, failed>>

AdminTypeOK ==
    /\ {hash, seen, showing} \subseteq Pages /\ overlapped \subseteq Pages
    /\ last_topic_ \in Topics \cup {"none"}
    /\ \A t \in Topics : panel_[t] # NoPanel => panel_[t] \in Pages /\ TopicOf(panel_[t]) = t
    /\ left \subseteq Pages \ {"missing"}
    /\ inits \in BoundedSeq([page : Pages \ {"missing"}, waits : {"callback", "record"}], MaxInits)
    /\ dialog \in {"none", "inserted", "updated", "error"}

AdminInit ==
    /\ hash = "missing" /\ seen = "missing" /\ showing = "missing"
    /\ last_topic_ = "none"
    /\ panel_ = [t \in Topics |-> NoPanel]
    /\ general_properties_panel_ = NoPanel
    /\ left = {} /\ inits = <<>> /\ saves = {}
    /\ dialog = "none" /\ overlapped = {} /\ failed = FALSE
-----------------------------------------------------------------------------
(* Building a panel *)

Known(t) == IF panel_[t] = NoPanel THEN {} ELSE {panel_[t]}

\* Mutant of Made: the panel whose values are saved is the first one made.
MadeOnce(page) ==
    /\ general_properties_panel_' =
         IF general_properties_panel_ = NoPanel THEN page ELSE general_properties_panel_
    /\ panel_' = [panel_ EXCEPT ![TopicOf(page)] = page]
    /\ left' = left \cup Known(TopicOf(page))

\* make_table_view_panel, makePanel: added to the main module beside what is there.
Made(page) ==
    /\ general_properties_panel_' =
         IF TopicOf(page) = "editor" THEN page ELSE general_properties_panel_
    /\ panel_' = [panel_ EXCEPT ![TopicOf(page)] = page]
    /\ left' = left \cup Known(TopicOf(page))

\* raw_init_, with the inits that remain: of an element the record is loaded first.
RawInit(page, rest) ==
    IF page \in Elements
    THEN /\ inits' = Append(rest, [page |-> page, waits |-> "record"])
         /\ UNCHANGED <<panel_, general_properties_panel_, left>>
    ELSE inits' = rest /\ Made(page)

\* The columns or properties come, or the record does.
Arrives(i) ==
    /\ LET page == inits[i].page
           rest == RemoveAt(inits, i)
       IN  IF inits[i].waits = "callback" THEN RawInit(page, rest)
           ELSE inits' = rest /\ Made(page)
    /\ UNCHANGED <<hash, seen, last_topic_, saves, dialog, showing, overlapped, failed>>

\* They do not, or there is no such record.
NeverArrives(i) ==
    /\ inits' = RemoveAt(inits, i)
    /\ failed' = TRUE
    /\ UNCHANGED <<hash, seen, last_topic_, panel_, general_properties_panel_, left, saves, dialog,
                   showing, overlapped>>
-----------------------------------------------------------------------------
(* Navigation *)

\* Mutant of Hidden: the panel is destroyed, and still known.
HiddenKept == panel_

\* hide of the last topic
Hidden == [t \in Topics |-> IF t = last_topic_ THEN NoPanel ELSE panel_[t]]

\* What is being built when the page is asked for, and the page itself.
Overlapped(page) ==
    IF inits = <<>> THEN overlapped
    ELSE overlapped \cup {page} \cup {inits[i].page : i \in DOMAIN inits}

\* Mutant of Show: the last topic is hidden after the new one has taken its place.
ShowLate(page) ==
    LET t == TopicOf(page)
    IN  /\ showing' = page
        /\ overlapped' = Overlapped(page)
        /\ last_topic_' = t
        /\ panel_' = [panel_ EXCEPT ![t] = IF t \in Deferred \/ page \in Elements
                                           THEN NoPanel ELSE page]
        /\ inits' = IF t \in Deferred THEN Append(inits, [page |-> page, waits |-> "callback"])
                    ELSE IF page \in Elements
                         THEN Append(inits, [page |-> page, waits |-> "record"]) ELSE inits
        /\ general_properties_panel_' = IF page = "new" THEN page ELSE general_properties_panel_
        /\ UNCHANGED left

\* show_topic: hides the last topic, then looks for the new one and shows it.  A topic with
\* a panel is not built again.
Show(page) ==
    LET t == TopicOf(page)
        built == t \notin Deferred /\ page \notin Elements
        waits == IF t \in Deferred THEN "callback" ELSE "record"
    IN  /\ showing' = page
        /\ overlapped' = Overlapped(page)
        /\ last_topic_' = IF t = "none" THEN last_topic_ ELSE t
        /\ IF t = "none" \/ (t # "none" /\ Hidden[t] # NoPanel)
           THEN panel_' = Hidden /\ UNCHANGED <<inits, general_properties_panel_>>
           ELSE /\ panel_' = IF built THEN [Hidden EXCEPT ![t] = page] ELSE Hidden
                /\ general_properties_panel_' =
                     IF built /\ t = "editor" THEN page ELSE general_properties_panel_
                /\ inits' = IF built THEN inits ELSE Append(inits, [page |-> page, waits |-> waits])
        /\ UNCHANGED left

\* go_to_topic without its third parameter, Ext.History.back, a link or the browser's
\* buttons, which work under a message box as well.
GoTo(page) ==
    /\ hash' = page
    /\ UNCHANGED <<seen, page_vars, saves, dialog, showing, overlapped, failed>>

\* The change event of Ext.History, which looks at the address now and then.
Changed ==
    /\ hash # seen
    /\ Len(inits) < MaxInits
    /\ seen' = hash
    /\ Show(hash)
    /\ UNCHANGED <<hash, saves, dialog, failed>>
-----------------------------------------------------------------------------
(* Saving *)

\* addOrUpdateItem, of the editor in view for this page: the id is that of the page it was
\* built for, the data those of the topic's general properties panel.
Save(page) ==
    /\ dialog = "none"
    /\ page \in left \cup Known("editor")
    /\ TopicOf(page) = "editor"
    /\ Cardinality(saves) < MaxSaves
    /\ saves' = saves \cup {[id |-> page, data |-> general_properties_panel_]}
    /\ UNCHANGED <<hash, seen, page_vars, dialog, showing, overlapped, failed>>

\* success, with a result or without one.  A message box takes the place of another.
Saved(save, ok) ==
    /\ saves' = saves \ {save}
    /\ dialog' = IF ~ok THEN "error" ELSE IF save.id = "new" THEN "inserted" ELSE "updated"
    /\ UNCHANGED <<hash, seen, page_vars, showing, overlapped, failed>>

\* The answer to the message box.  After an insertion 'yes' goes to a new item and shows it
\* at once, also when the address does not change; otherwise it is the table's turn.
Another ==
    /\ dialog = "inserted"
    /\ Len(inits) < MaxInits
    /\ dialog' = "none"
    /\ hash' = "new"
    /\ Show("new")
    /\ UNCHANGED <<seen, saves, failed>>

BackToTable ==
    /\ dialog \in {"inserted", "updated"}
    /\ dialog' = "none"
    /\ hash' = "table"
    /\ UNCHANGED <<seen, page_vars, saves, showing, overlapped, failed>>

CloseError ==
    /\ dialog = "error"
    /\ dialog' = "none"
    /\ UNCHANGED <<hash, seen, page_vars, saves, showing, overlapped, failed>>
-----------------------------------------------------------------------------
AdminNext ==
    \/ \E page \in Pages : GoTo(page) \/ Save(page)
    \/ Changed
    \/ \E i \in DOMAIN inits : Arrives(i) \/ NeverArrives(i)
    \/ \E save \in saves, ok \in BOOLEAN : Saved(save, ok)
    \/ Another \/ BackToTable \/ CloseError

AdminSpec == AdminInit /\ [][AdminNext]_adminVars

\* Ext.History goes on looking; what a panel waits for comes, or is known not to.
AdminFairness ==
    /\ WF_adminVars(Changed)
    /\ WF_adminVars(inits # <<>> /\ (Arrives(1) \/ NeverArrives(1)))
-----------------------------------------------------------------------------
InView == left \cup UNION {Known(t) : t \in Topics}

\* A page in view that is not the one asked for last, or whose topic has forgotten it, was
\* left while its panel was being built, or asked for while another's was: a page that was
\* built by itself never stays in view when the next is shown.
PageInView == InView \ {showing} \subseteq overlapped /\ left \subseteq overlapped

\* The id sent is caught when the panel is built, the data are those of whatever panel was
\* built last: they differ only for a page that was built while another was.
SavesOwn == \A save \in saves : save.id # save.data => save.id \in overlapped

\* A page whose address is found changed comes into view, unless it is left before, or does
\* not exist, or its record or columns do not come, or its topic still knows a panel that
\* was built while another was and does not make one anew.
PageShown ==
    \A page \in Pages \ {"missing"} :
        hash = page /\ hash # seen
          ~> hash # page \/ page \in InView \/ failed \/ Known(TopicOf(page)) \cap overlapped # {}
=============================================================================
