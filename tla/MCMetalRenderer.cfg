\* Films of no, one and three rows; two frames, two changes of the view's size.
CONSTANTS
  FramesToRender = 2
  Size = {0, 1, 3}
  MaxFrames = 2
  MaxResizes = 2
SPECIFICATION Spec
INVARIANTS
  TypeOK
  NoStrayWorker
  TextureIsWhole
PROPERTIES
  ShownUnlessResized
  ImplementsFrameSource
