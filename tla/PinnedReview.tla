---------------------------- MODULE PinnedReview ----------------------------
(***************************************************************************)
(* What the review of a draft promises: a review is of the content the     *)
(* draft had when it was opened, every decision is taken while the draft   *)
(* still has that content, the agency has the last word, after the client  *)
(* wherever the client must agree, and no more than one review is open.    *)
(***************************************************************************)
EXTENDS Integers, Sequences

VARIABLES
    content,    \* of the draft
    reviews     \* the reviews opened so far, the last one being the current

review == <<content, reviews>>

Live(r) == r.stage \notin {"approved", "closed"}

ReviewInit == content = 1 /\ reviews = <<>>

ChangeContent ==
    /\ content' > content
    /\ UNCHANGED reviews

OpenReview ==
    /\ \E asks \in BOOLEAN :
         reviews' = Append([i \in DOMAIN reviews |->
                              IF Live(reviews[i])
                              THEN [reviews[i] EXCEPT !.stage = "closed"]
                              ELSE reviews[i]],
                           [of |-> content, stage |-> "open", asksClient |-> asks])
    /\ UNCHANGED content

Becomes(i, s) == reviews' = [reviews EXCEPT ![i].stage = s]

\* From the stage the review is in.
Decide(i) ==
    /\ reviews[i].of = content
    /\ \/ reviews[i].stage = "open" /\ Becomes(i, "agreed")
       \/ /\ \/ reviews[i].stage = "agreed"
             \/ reviews[i].stage = "open" /\ ~reviews[i].asksClient
          /\ Becomes(i, "final")
       \/ reviews[i].stage = "final" /\ Becomes(i, "approved")
       \/ reviews[i].stage \in {"agreed", "final"} /\ Becomes(i, "open")
       \/ reviews[i].stage # "closed" /\ Becomes(i, "closed")
    /\ UNCHANGED content

AskClient(i) ==
    /\ \E asks \in BOOLEAN : reviews' = [reviews EXCEPT ![i].asksClient = asks]
    /\ UNCHANGED content

ReviewNext ==
    \/ ChangeContent
    \/ OpenReview
    \/ \E i \in DOMAIN reviews : Decide(i) \/ AskClient(i)

ReviewSpec == ReviewInit /\ [][ReviewNext]_review
=============================================================================
