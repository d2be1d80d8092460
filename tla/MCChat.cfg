\* An author with two devices, one message, edited once; a reader.
CONSTANTS
  author = author
  reader = reader
  a1 = a1
  a2 = a2
  r1 = r1
  User = {author, reader}
  Device = {a1, a2, r1}
  Viewer = {r1}
  Message = {m1}
  OwnerOf <- MCOwnerOf
  AuthorOf <- MCAuthorOf
  MaxVersion = 2
  QueueSize = 2
  BufferSize = 1
  Idle = Idle
  Unreadable = Unreadable
  NoReply = NoReply
  Asked = Asked
SPECIFICATION ChatSpec
INVARIANTS StreamInOrder SettledPagesAreTrue
