SPECIFICATION Spec
CONSTANTS
  App = App
  Object = Object
  Class = Class
  Nil = Nil
  Host = Host
  Classes = {App, Object, Class}
  Named = {App}
  Super <- MCSuper
  ClassFilter = {App}
  Names = {n1}
  Accepted <- MCAccepted
  Bytes = {b1, b2}
  Buffers = {p1}
  MaxRef = 3
  Depth = 3
  MaxId = 2
CONSTRAINT Apart
VIEW MCView
CHECK_DEADLOCK FALSE
PROPERTY PristineArrays
