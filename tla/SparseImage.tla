----------------------------- MODULE SparseImage -----------------------------
(***************************************************************************)
(* What a sparse file cookie promises its user: an image, word by word, in  *)
(* which a word that nobody has asked to write is a hole.  What is asked    *)
(* for is there at once, and stays there whatever is done with the cookie   *)
(* afterwards (written out, read back, cut into parts, put together again), *)
(* until a tool gives the image up.                                         *)
(*                                                                         *)
(* With an allocator that does not hand out again at once what was freed    *)
(* (Loses) the promise is weaker: a word may be missing, but only when      *)
(* something is queued, and then for good; none is ever wrong.              *)
(***************************************************************************)
CONSTANTS
    Words,      \* the words of the largest image
    Values,     \* what a word may hold
    Hole,       \* a word that holds nothing
    Loses       \* what is queued may be lost

VARIABLES
    wanted,     \* the image the user has asked for
    content,    \* the image that the cookie stands for
    open,       \* something may still be queued
    usable      \* the image has not been given up

Images == [Words -> Values \cup {Hole}]

Init ==
    /\ wanted = [w \in Words |-> Hole]
    /\ content = wanted
    /\ open = TRUE
    /\ usable = TRUE

\* Data is put where there were holes, if any is; every other word is kept.
Put ==
    LET kept(w) == IF wanted[w] = Hole THEN wanted'[w] ELSE content[w]
    IN  /\ usable /\ open
        /\ wanted' \in Images
        /\ \A w \in Words : wanted[w] # Hole => wanted'[w] = wanted[w]
        /\ content' \in Images
        /\ \A w \in Words : content'[w] = kept(w) \/ (Loses /\ content'[w] = Hole)
        /\ open' \in BOOLEAN
        /\ UNCHANGED usable

\* A tool stops: with an error, with a wrong image, or for good.
GiveUp ==
    /\ usable
    /\ usable' = FALSE
    /\ open' = FALSE
    /\ UNCHANGED wanted

Next == Put \/ GiveUp

Spec == Init /\ [][Next]_<<wanted, content, open, usable>>
=============================================================================
