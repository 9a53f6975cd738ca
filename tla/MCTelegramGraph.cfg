SPECIFICATION FairSpec
CONSTANTS
    User = {"ann", "bob"}
    Handle = {"@annie", "@bobby", "@robert"}
    NoHandle = NoHandle
    Message = {"asks", "answers", "thanks", "adds", "channel"}
    NoMessage = NoMessage
    NoUser = NoUser
    AuthorOf <- MCAuthorOf
    HandleOf <- MCHandleOf
    ReplyTo <- MCReplyTo
    MentionsIn <- MCMentionsIn
    W_REPLY = 2
    W_MENTION = 1
    MaxFaults = 1
INVARIANTS
    AttentionCounted
PROPERTIES
    ScoresCatchUp
