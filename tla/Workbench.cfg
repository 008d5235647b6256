\* Two connections, agents, accounts or models, with two or three requests, notifications or
\* handlers under way: each can overtake every other.  Off and the other values stand for
\* themselves.
SPECIFICATION WorkbenchSpec
CONSTANTS
  As = {a1, a2}
  Bs = {b1, b2}
  Cs = {c1, c2}
  User = User
  Base = Base
  Model = Model
  WorkerRun = WorkerRun
  NoId = NoId
  Off = Off
SYMMETRY Symmetry
INVARIANTS DeliveriesAreStored TablesAgree PagesAreCurrent
PROPERTIES ChoicesAreKept
CHECK_DEADLOCK FALSE
