---------------------------- MODULE SearchDialog ----------------------------
(***************************************************************************)
(* The explorer's search box (components/explore/SearchDialog.tsx): a term *)
(* typed is asked for after a pause, the request before it is given up,    *)
(* and what is listed under the term must be what was found for it.        *)
(***************************************************************************)
EXTENDS FiniteSets

CONSTANTS
    Terms,     \* what may be typed: terms long enough to ask for ...
    TooShort,  \* ... and the rest
    NoTerm     \* nothing is listed

VARIABLE dialog  \* .open .term .timer .sent .listed .loading .failed

DialogInit ==
    dialog = [open |-> FALSE, term |-> TooShort, timer |-> FALSE, sent |-> {},
              listed |-> NoTerm, loading |-> FALSE, failed |-> FALSE]

Abort_Never(d) == [d EXCEPT !.timer = FALSE]

\* controller.abort() and clearTimeout(): an answer given up is heard no more.
Abort(d) == [d EXCEPT !.timer = FALSE, !.sent = {}]

\* The effect on [open, term].
Effect(d) ==
    IF ~d.open THEN d
    ELSE IF d.term = TooShort THEN [d EXCEPT !.listed = NoTerm, !.loading = FALSE]
    ELSE [d EXCEPT !.loading = TRUE, !.timer = TRUE]

Rerun(d) == dialog' = Effect(Abort(d))

OpenDialog == ~dialog.open /\ Rerun([dialog EXCEPT !.open = TRUE])

CloseDialog == dialog.open /\ Rerun([dialog EXCEPT !.open = FALSE])

Type(t) ==
    /\ dialog.open
    /\ t # dialog.term
    /\ Rerun([dialog EXCEPT !.term = t])

\* 180 ms without a keystroke.
SendSearch ==
    /\ dialog.timer
    /\ dialog' = [dialog EXCEPT !.timer = FALSE, !.sent = @ \cup {dialog.term}]

HearResults(t) ==
    /\ t \in dialog.sent
    /\ dialog' = [dialog EXCEPT !.sent = @ \ {t}, !.listed = t,
                                !.loading = FALSE, !.failed = FALSE]

HearFailure(t) ==
    /\ t \in dialog.sent
    /\ dialog' = [dialog EXCEPT !.sent = @ \ {t}, !.loading = FALSE, !.failed = TRUE]

DialogNext ==
    \/ OpenDialog
    \/ CloseDialog
    \/ \E t \in Terms \cup {TooShort} : Type(t)
    \/ SendSearch
    \/ \E t \in Terms : HearResults(t) \/ HearFailure(t)

DialogSpec == DialogInit /\ [][DialogNext]_dialog

-----------------------------------------------------------------------------
\* What the open box lists, when it neither waits nor says that the search
\* failed, was found for the term it shows: a term typed over another, a box
\* closed and opened again, an answer that is late, never put one term's
\* results under the other (SearchDialog.tsx 55-87).  After a failure the old
\* results do stay listed, beside the notice.
SearchShowsItsTerm ==
    dialog.open /\ ~dialog.loading /\ ~dialog.failed =>
        dialog.listed = IF dialog.term = TooShort THEN NoTerm ELSE dialog.term
=============================================================================
