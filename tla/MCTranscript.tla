---------------------------- MODULE MCTranscript ----------------------------
(* Conversations with declined calls in the shapes a host writes them, and  *)
(* with prompts and replies.                                                *)
EXTENDS Transcript

User(blocks) == [role |-> "user", blocks |-> blocks]
Assistant(blocks) == [role |-> "assistant", blocks |-> blocks]

\* Two calls and their declines, in one message each.
Parallel == <<Assistant(<<Call("a", "auth"), Call("b", "docs")>>),
              User(<<Result("a", "declined", TRUE), Result("b", "declined", FALSE)>>)>>

\* A decline among results that quote one or fail for another reason.
Mixed == <<Assistant(<<Call("a", "auth"), Says("r1")>>), User(<<Result("a", "quoted", FALSE)>>),
           User(<<Call("b", "docs"), Result("b", "declined", FALSE)>>), User(<<Result("c", "failed", TRUE)>>)>>

\* The same decline twice, and one whose call is long ago.
Twice == <<Assistant(<<Call("a", "auth")>>), User(<<Result("a", "declined", TRUE)>>),
           User(<<Result("a", "declined", FALSE)>>), Assistant(<<Call("b", "docs")>>), User(<<Result("b", "declined", TRUE)>>)>>

\* Two turns, the first with a tool call between two replies.
Talk == <<User(<<Says("p1")>>), Assistant(<<Says("r1"), Call("a", "auth")>>), User(<<Result("a", "done", TRUE)>>),
          Assistant(<<Says("r2")>>), User(<<Says("p2")>>), Assistant(<<Says("r3")>>)>>

\* Two short turns, the first in two blocks on either side.
Short == <<User(<<Says("p1"), Says("p1b")>>), Assistant(<<Says("r1"), Says("r1b")>>), User(<<Says("p2")>>), Assistant(<<Says("r2")>>)>>

MCConversation == {Short, Parallel, Mixed, Twice, Talk}

MCClassOf(path) == IF path = "auth" THEN {"auth"} ELSE {"docs"}
=============================================================================
