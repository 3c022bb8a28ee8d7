SPECIFICATION Spec
CONSTANTS
    Base = Base
    Robot = Robot
    Nowhere = Nowhere
    Ai = Ai
    Halt = Halt
    Idle = Idle
    Choices = {"Remote", "AI"}
PROPERTY SwitchedSuccessfully
