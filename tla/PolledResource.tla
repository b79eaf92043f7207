---------------------------- MODULE PolledResource ----------------------------
(***************************************************************************)
(* The polling hook lib/usePolledResource.ts of the mounted page.  Every   *)
(* mount and every refresh starts an effect and cancels the one before.    *)
(* An effect sends the requests of its page, waits until all are answered, *)
(* hands what they read to the page, and sets a timer for the next round   *)
(* if the page's intervalMs asks for one.                                  *)
(*                                                                         *)
(* One step is one answer, one timer or one click; the state changes that  *)
(* React batches into one render are one step.  A page reads in parts, so  *)
(* what was read is a function on the parts answered so far.               *)
(***************************************************************************)
EXTENDS Integers

CONSTANTS
    NoPage,         \* no page with this hook is open
    MaxEffects      \* bound on mounts and refreshes

ASSUME MaxEffectsAssumption == MaxEffects \in Nat

Effects == 1 .. MaxEffects

VARIABLES
    current,        \* the number of the latest effect
    effect,         \* the effects: what each fetches, and how far it is
    screen          \* data, error and loading of the hook

hookVars == <<current, effect, screen>>

Unread == [part \in {} |-> part]

EffectPCs == {"none", "fetching", "timer", "ended"}

NoEffect == [pc |-> "none", page |-> NoPage, cancelled |-> FALSE, read |-> Unread]

Blank == [read |-> Unread, error |-> FALSE, loading |-> TRUE]

HookInit == current = 0 /\ effect = [e \in Effects |-> NoEffect] /\ screen = Blank

\* The page in the address bar.
page == IF current = 0 THEN NoPage ELSE effect[current].page

\* The page has data to render, and neither waits for it nor failed to get it.
Ready == ~ screen.loading /\ ~ screen.error /\ screen.read # Unread

-----------------------------------------------------------------------------

\* The cleanup of an effect: its timer is cleared, a fetch in flight is aborted, so
\* that it can only fail.
Cancelled(e) == [effect[e] EXCEPT !.cancelled = TRUE, !.read = Unread,
                                  !.pc = IF effect[e].pc = "timer" THEN "ended" ELSE effect[e].pc]

StartEffect(p) ==
    /\ current < MaxEffects
    /\ current' = current + 1
    /\ effect' = [e \in Effects |->
                    CASE e = current     -> Cancelled(e)
                      [] e = current + 1 -> [NoEffect EXCEPT !.pc = "fetching", !.page = p]
                      [] OTHER           -> effect[e]]

\* Another address unmounts the page with its hook and mounts a blank one.
Mount(p) == StartEffect(p) /\ screen' = Blank

refresh == StartEffect(page) /\ screen' = [screen EXCEPT !.loading = TRUE]

Fetching(e) == effect[e].pc = "fetching"

Answer(e, part, value) ==
    /\ Fetching(e) /\ ~ effect[e].cancelled /\ part \notin DOMAIN effect[e].read
    /\ effect' = [effect EXCEPT ![e].read =
                    [q \in DOMAIN @ \cup {part} |-> IF q = part THEN value ELSE @[q]]]
    /\ UNCHANGED <<current, screen>>

\* A fetch is over.
Over(e, pc) == effect' = [effect EXCEPT ![e].pc = pc, ![e].read = Unread]

\* Everything is answered: the page shows it.
FetchSucceeds(e, again) ==
    /\ Fetching(e)
    /\ screen' = [read |-> effect[e].read, error |-> FALSE, loading |-> FALSE]
    /\ Over(e, IF again THEN "timer" ELSE "ended")
    /\ UNCHANGED current

\* Bug: the error of a refresh is not shown.
FetchFails_Silent(e) ==
    /\ Fetching(e)
    /\ screen' = IF effect[e].cancelled THEN screen ELSE [screen EXCEPT !.loading = FALSE]
    /\ Over(e, "ended")
    /\ UNCHANGED current

\* A request fails and no timer is set; of a cancelled effect nobody hears.
FetchFails(e) ==
    /\ Fetching(e)
    /\ screen' = IF effect[e].cancelled THEN screen
                 ELSE [screen EXCEPT !.error = TRUE, !.loading = FALSE]
    /\ Over(e, "ended")
    /\ UNCHANGED current

TimerFires(e) ==
    /\ effect[e].pc = "timer"
    /\ effect' = [effect EXCEPT ![e].pc = "fetching"]
    /\ UNCHANGED <<current, screen>>

=============================================================================
