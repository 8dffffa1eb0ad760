\* One handle, every order of calls, every answer of the conversation, other
\* processes that change passwords, other handles that use the same buffers.
SPECIFICATION Spec
CONSTANTS
  alice = alice
  bob = bob
  short = short
  long = long
  NoPassword = NoPassword
  Locked = Locked
  NoEntry = NoEntry
  NoItem = NoItem
  NoName = NoName
  Me = alice
  Users <- MCUsers
  Passwords <- MCPasswords
  Sent <- MCSent
INVARIANTS
  TypeOK
PROPERTIES
  VerdictIsRight
  FailedTokenForgotten
  ChangeIsAuthorised
