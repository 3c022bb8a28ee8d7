SPECIFICATION FairSpec
CONSTANTS
    Base = Base
    Robot = Robot
    Nowhere = Nowhere
    Ai = Ai
    Halt = Halt
    Idle = Idle
    Choices = {"AI"}
PROPERTY AiConnects
