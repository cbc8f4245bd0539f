---------------------------- MODULE SettingsForm ----------------------------
(***************************************************************************)
(* A form of the administrator's settings pages: the options the server    *)
(* stores, the client's cached copy of all of them (the query              *)
(* 'system-options'), and one mounted section that shows and saves some.   *)
(*                                                                         *)
(* A save sends one PUT per option, each after the answer to the one       *)
(* before.  Every stored option invalidates the cached copy, which is      *)
(* fetched again while the save goes on and the user goes on typing.  The  *)
(* sections share this machinery and differ in how they follow the copy,   *)
(* what they compare with and what a save leaves behind: a section is a    *)
(* record of those choices, and SettingsSections lists the ones there are. *)
(*                                                                         *)
(* Some of a section's options are secrets: the server stores them and     *)
(* does not serve them again.                                              *)
(*                                                                         *)
(* A value stands for what a section sends for it: two inputs it trims,    *)
(* formats or fills up with a default to the same text are one value.      *)
(***************************************************************************)
EXTENDS Integers, FiniteSets, SettingsSections

CONSTANTS
    Keys,           \* the options the section shows
    Secrets,        \* its keys, tokens and secrets, if it has any
    Address,        \* the option that is blank when the service is not used
    Foreign,        \* an option of another section
    Values,         \* what an option may hold
    Default,        \* what every option holds at first
    Blank,          \* the empty value
    NoSave,         \* no save is under way
    Sections,       \* the sections that may be mounted
    MaxEdits,       \* bound: edits made by the user
    MaxSaves,       \* bound: saves
    MaxTroubles     \* bound: options changed by another administrator, and
                    \* requests refused or failed

ASSUME OptionsAssumption ==
    /\ IsFiniteSet(Keys) /\ Foreign \notin Keys
    /\ Secrets \subseteq Keys /\ Address \in Keys \ Secrets
    /\ {Default, Blank} \subseteq Values

ASSUME NoSaveAssumption ==
    NoSave \notin [left : SUBSET Keys, data : [Keys -> Values], fresh : BOOLEAN]

ASSUME FormBounds ==
    /\ MaxEdits \in Nat
    /\ MaxSaves \in Nat
    /\ MaxTroubles \in Nat

\* follow   when new data arrives the form is reset: never, when its own
\*          options changed, each option when it changed, or when any option
\*          changed (its default values are built anew on every rendering)
\* base     a value is compared with the current default (prop), with a copy
\*          renewed whenever the form is reset (ref), or with a copy renewed by
\*          saves alone (own)
\* rebases  after a save: nothing, the copy, or copy and form become the data
\* sends    the options that differ from the base, all, or the one whose button
\*          was pressed
\* secrets  it has none, the server hides them, or they are public keys that it
\*          shows
\* blanks   a secret that is blank is sent like any option, is not sent, or is
\*          sent like any option and whenever the address is blank
\* via      useUpdateOption, or a mutation of its own that stops at the first
\*          refusal and invalidates once, at the end
Section == [follow : {"never", "values", "each", "any"}, base : {"prop", "ref", "own"},
            rebases : {"nothing", "base", "form"},
            sends : {"changed", "all", "one"},
            secrets : {"none", "hidden", "shown"},
            blanks : {"sent", "kept", "forced"},
            via : {"useUpdateOption", "useMutation"}]

\* What the form and its copy promise hangs on the choices being made together
\* as they are: not every record of Section is such a set of choices.
ASSUME SectionsAssumption == Sections \subseteq AllSections

VARIABLES
    section,    \* the section that is mounted
    server,     \* the options as stored
    cache,      \* the options as last fetched
    stale,      \* the cached copy has been invalidated
    get,        \* the GET in flight: none, sent, or answered with a snapshot
    values,     \* what the form shows
    base,       \* the section's own copy, used unless section.base is prop
    seen,       \* the default values the form was last reset to
    saving,     \* the save under way: the options left to send, and the data
    edits, saves, others, faults,
    touched,    \* (history) the options edited since the form was last reset
    joined      \* (history) an invalidation joined a GET already answered

counts == <<edits, saves, others, faults>>

form == <<values, base, seen, touched>>

formVars == <<section, server, cache, stale, get, form, saving, counts, joined>>

Options == [Keys \cup {Foreign} -> Values]

Data == [Keys -> Values]

NoGet == [phase |-> "none"]

Own(options) == [k \in Keys |-> options[k]]

Hidden(k) == k \in Secrets /\ section.secrets = "hidden"

\* ListOptions leaves out the keys that end like a secret, and the client shows
\* a missing option as blank.
Served(options) == [k \in DOMAIN options |-> IF Hidden(k) THEN Blank ELSE options[k]]

\* The state is well typed; a save under way always has an option left to send.
FormTypeOK ==
    /\ section \in Sections
    /\ server \in Options
    /\ cache \in Options
    /\ stale \in BOOLEAN
    /\ get \in {NoGet} \cup [phase : {"sent"}]
                  \cup [phase : {"answered"}, options : Options]
    /\ values \in Data
    /\ base \in Data
    /\ seen \in Data
    /\ saving \in {NoSave} \cup [left : (SUBSET Keys) \ {{}}, data : Data,
                                 fresh : BOOLEAN]
    /\ edits \in 0..MaxEdits
    /\ saves \in 0..MaxSaves
    /\ others \in 0..MaxTroubles
    /\ faults \in 0..MaxTroubles
    /\ touched \subseteq Keys
    /\ joined \in BOOLEAN

FormInit ==
    /\ section \in Sections
    /\ server = [k \in Keys \cup {Foreign} |-> Default]
    /\ cache = Served(server)
    /\ stale = FALSE
    /\ get = NoGet
    /\ values = Own(cache)
    /\ base = Own(cache)
    /\ seen = Own(cache)
    /\ saving = NoSave
    /\ edits = 0 /\ saves = 0 /\ others = 0 /\ faults = 0
    /\ touched = {}
    /\ joined = FALSE

-----------------------------------------------------------------------------
(* The cached copy *)

\* api.get: a GET for the same address as one in flight is that one.
Get == IF get = NoGet THEN [phase |-> "sent"] ELSE get

\* invalidateQueries marks the copy and fetches it again.  A fetch under way
\* is given up, but its GET is still in flight, and the new fetch joins it.
Invalidate ==
    /\ stale' = TRUE
    /\ get' = Get
    /\ joined' = (joined \/ get.phase = "answered")

\* The window gets the focus, and the copy is old or invalidated.
Refocus ==
    /\ get = NoGet
    /\ get' = Get
    /\ UNCHANGED <<section, server, cache, stale, form, saving, counts, joined>>

ServerAnswers ==
    /\ get.phase = "sent"
    /\ get' = [phase |-> "answered", options |-> Served(server)]
    /\ UNCHANGED <<section, server, cache, stale, form, saving, counts, joined>>

\* Does new data reset the form?  Data equal to the old is the old data.
Resets(new) ==
    /\ new # cache
    /\ \/ section.follow = "any"
       \/ section.follow = "values" /\ Own(new) # seen
       \/ section.follow = "each" /\ Own(new) # Own(cache)

\* The options that are reset then.
ResetKeys(new) ==
    IF section.follow = "each" THEN {k \in Keys : new[k] # cache[k]} ELSE Keys

ResetValues(new) ==
    [k \in Keys |-> IF k \in ResetKeys(new) THEN new[k] ELSE values[k]]

\* Mutant of Fetched: the answer is dropped and the mark stays.
FetchedStillStale ==
    /\ get.phase = "answered"
    /\ get' = NoGet
    /\ UNCHANGED <<section, server, cache, stale, form, saving, counts, joined>>

\* Mutant of Fetched: the form is reset, what it is compared with is not.
FetchedKeepingBase ==
    /\ get.phase = "answered"
    /\ get' = NoGet
    /\ cache' = get.options
    /\ stale' = FALSE
    /\ IF Resets(get.options)
       THEN /\ values' = ResetValues(get.options)
            /\ seen' = Own(get.options)
            /\ touched' = touched \ ResetKeys(get.options)
            /\ base' = base
       ELSE UNCHANGED form
    /\ UNCHANGED <<section, server, saving, counts, joined>>

\* New data comes to the section: its effect may reset the form.
Fetched ==
    /\ get.phase = "answered"
    /\ get' = NoGet
    /\ cache' = get.options
    /\ stale' = FALSE
    /\ IF Resets(get.options)
       THEN /\ values' = ResetValues(get.options)
            /\ seen' = Own(get.options)
            /\ base' = IF section.base = "ref" THEN Own(get.options) ELSE base
            /\ touched' = touched \ ResetKeys(get.options)
       ELSE UNCHANGED form
    /\ UNCHANGED <<section, server, saving, counts, joined>>

\* The GET fails after its retries: the old data stays, and stays marked.
FetchFails ==
    /\ get # NoGet
    /\ others + faults < MaxTroubles
    /\ faults' = faults + 1
    /\ get' = NoGet
    /\ UNCHANGED <<section, server, cache, stale, form, saving, edits, saves,
                   others, joined>>

-----------------------------------------------------------------------------
(* The form *)

Edit(k, v) ==
    /\ edits < MaxEdits
    /\ edits' = edits + 1
    /\ v # values[k]
    /\ values' = [values EXCEPT ![k] = v]
    /\ touched' = touched \cup {k}
    /\ UNCHANGED <<section, server, cache, stale, get, base, seen, saving,
                   saves, others, faults, joined>>

\* What the section compares the form with.
Base == IF section.base = "prop" THEN Own(cache) ELSE base

\* The reset button of useSettingsForm.
handleReset ==
    /\ section.base = "ref" /\ section.rebases = "form"
    /\ values # base
    /\ values' = base
    /\ seen' = seen
    /\ base' = base
    /\ touched' = {}
    /\ UNCHANGED <<section, server, cache, stale, get, saving, counts, joined>>

Differing == {k \in Keys : values[k] # Base[k]}

\* "Leave blank to keep the existing secret": a blank one is not sent.
Kept == {k \in Secrets : section.blanks = "kept" /\ values[k] = Blank}

\* The worker section sends its key, edited or not, when its address is blank.
Forced == {k \in Secrets : section.blanks = "forced" /\ values[Address] = Blank}

\* Mutant of ToSend: every section compares with the cached copy.
ToSendUnlessDefault == IF section.sends = "all" THEN Keys
                       ELSE {k \in Keys : values[k] # cache[k]}

\* Mutant of ToSend: one change sends the whole form.
ToSendIfAnyChanged == IF values = Base THEN {} ELSE Keys

ToSend == ((IF section.sends = "all" THEN Keys ELSE Differing) \ Kept) \cup Forced

\* What a submission may send: one of these sets of options.
Sendings == IF section.sends = "one" THEN {{k} : k \in Keys} ELSE {ToSend}

\* The form is submitted; with nothing to send it only says so.
Submit ==
    /\ saving = NoSave
    /\ saves < MaxSaves
    /\ saves' = saves + 1
    /\ \E send \in Sendings \ {{}} :
        saving' = [left |-> send, data |-> values,
                   fresh |-> get = NoGet /\ ~stale]
    /\ UNCHANGED <<section, server, cache, stale, get, form, edits, others,
                   faults, joined>>

\* The save is over, and every PUT was answered.
Rebase ==
    /\ base' = IF section.rebases # "nothing" THEN saving.data ELSE base
    /\ IF section.rebases = "form"
       THEN /\ values' = saving.data
            /\ seen' = saving.data
            /\ touched' = {}
       ELSE UNCHANGED <<values, seen, touched>>

\* An answer to the PUT of k: on to the next option, or to the end.
Continue(k) ==
    IF saving.left = {k}
    THEN saving' = NoSave /\ Rebase
    ELSE saving' = [saving EXCEPT !.left = @ \ {k}] /\ UNCHANGED form

LastOfMutation(k) == saving.left = {k} /\ section.via = "useMutation"

\* The PUT of k is answered with success.
Stored(k) ==
    /\ saving # NoSave /\ k \in saving.left
    /\ server' = [server EXCEPT ![k] = saving.data[k]]
    /\ Continue(k)
    /\ IF section.via = "useUpdateOption" \/ LastOfMutation(k)
       THEN Invalidate
       ELSE UNCHANGED <<stale, get, joined>>
    /\ UNCHANGED <<section, cache, counts>>

\* The PUT of k is answered with success = false: useUpdateOption shows the
\* message and the loop goes on; the section's own mutation stops.
PutRefused(k) ==
    /\ saving # NoSave /\ k \in saving.left
    /\ others + faults < MaxTroubles
    /\ faults' = faults + 1
    /\ IF section.via = "useMutation"
       THEN saving' = NoSave /\ UNCHANGED form
       ELSE Continue(k)
    /\ UNCHANGED <<section, server, cache, stale, get, edits, saves, others,
                   joined>>

\* The PUT of k fails, before or after the server stored the option: the
\* promise is rejected and the handler ends where it is.
PutFails(k) ==
    /\ saving # NoSave /\ k \in saving.left
    /\ others + faults < MaxTroubles
    /\ faults' = faults + 1
    /\ server' \in {server, [server EXCEPT ![k] = saving.data[k]]}
    /\ saving' = NoSave
    /\ UNCHANGED <<section, cache, stale, get, form, edits, saves, others,
                   joined>>

-----------------------------------------------------------------------------
(* Another administrator *)

Other(k, v) ==
    /\ others + faults < MaxTroubles
    /\ others' = others + 1
    /\ v # server[k]
    /\ server' = [server EXCEPT ![k] = v]
    /\ UNCHANGED <<section, cache, stale, get, form, saving, edits, saves,
                   faults, joined>>

Answer(k) == Stored(k) \/ PutRefused(k) \/ PutFails(k)

FormNext ==
    \/ Refocus
    \/ ServerAnswers
    \/ Fetched
    \/ FetchFails
    \/ \E k \in Keys, v \in Values : Edit(k, v)
    \/ handleReset
    \/ Submit
    \/ \E k \in Keys : Answer(k)
    \/ \E k \in Keys \cup {Foreign}, v \in Values : Other(k, v)

\* Requests are answered in the end, if only by the browser giving them up;
\* nobody has to type, to save or to come back to the window.
Fairness ==
    /\ WF_formVars(ServerAnswers)
    /\ WF_formVars(Fetched)
    /\ \A k \in Keys : WF_formVars(Answer(k))

FormSpec == FormInit /\ [][FormNext]_formVars /\ Fairness

-----------------------------------------------------------------------------
(* Properties *)

Quiet == get = NoGet /\ saving = NoSave

\* Nobody else wrote, nothing failed, and every fetch was sent after the write
\* it was for.
Uneventful == others = 0 /\ faults = 0 /\ ~joined

\* "Always refresh system-options" (useUpdateOption): when nothing is in
\* flight, nobody else wrote and the copy is not marked as stale, it is what
\* the server stores and serves, unless an invalidation joined a GET that had been
\* answered before the write (which two options saved in a row can do).
CacheCatchesUpUnlessJoined ==
    Quiet /\ ~stale /\ Uneventful => cache = Served(server)

LeftBlank(k) == k \in Secrets /\ section.secrets # "none" /\ saving.data[k] = Blank

\* A save that ends with every option stored has stored what was in the form
\* when it was submitted, also what it did not send because it seemed
\* unchanged; only a secret that was left blank may keep what it was.  A section
\* that compares with the cached copy, or whose copy waits for it, can promise
\* that only if the copy was up to date.
SaveStores ==
    [][ /\ saving # NoSave /\ saving' = NoSave
        /\ faults' = 0 /\ others' = 0 /\ ~joined
        /\ section.sends # "one"
        /\ \/ saving.fresh
           \/ section.rebases # "nothing" /\ section.base # "prop"
           \/ section.sends = "all"
        => \A k \in Keys : server'[k] = saving.data[k] \/ LeftBlank(k) ]_formVars

\* A section that follows the copy and sends what changed writes an option
\* only if the user edited it since the form was filled in: it never puts back
\* what another administrator changed.  Not so for a section that moves its own
\* copy to the saved data while the form has been reset to something else, and
\* not for the worker's key: with a blank address it is sent unedited, and
\* being hidden it is blank then, which erases the one that is stored.
OnlyEditsAreSent ==
    [][ /\ saving = NoSave /\ saving' # NoSave
        /\ section.follow # "never" /\ section.rebases # "base"
        /\ section.sends = "changed"
        => saving'.left \subseteq touched \cup Forced ]_formVars

\* When all is quiet and the copy is right, so is what the section compares
\* with, and a form nobody edited shows what is stored and served.  A section that a save
\* leaves with a copy or a form of its own can be wrong once somebody else has
\* written, a request has failed or an invalidation has joined an older GET: the
\* copy that is fetched then may hold the data it had before, which resets
\* nothing.
FormAgrees ==
    Quiet /\ cache = Served(server) /\ (section.rebases = "nothing" \/ Uneventful)
    => /\ section.sends = "changed" => Base = Own(cache)
       /\ section.follow # "never" /\ touched = {} => values = Own(cache)

\* Once everything in flight has arrived, server, cached copy, what the section
\* compares with and the form tell the same story.
FormInv == FormTypeOK /\ CacheCatchesUpUnlessJoined /\ FormAgrees

\* A copy that was invalidated is fetched, if no fetch fails.
StaleIsFetched == stale ~> (~stale \/ faults > 0)
=============================================================================
